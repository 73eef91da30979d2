---------------------------- MODULE NetconnProofs ----------------------------
(***************************************************************************)
(* Theorems about Netconn for any connections, pool, table of sockets,     *)
(* sizes of mailboxes and buffers and any number of resets.                *)
(*                                                                         *)
(* The argument.  A netconn is one thread's at a time: a server's, from    *)
(* socket() or accept() until the descriptor is handed over, then that of  *)
(* the thread that serves it, until netconn_delete frees it (Places).      *)
(* Hence the thread alone posts requests for it and alone fetches from its *)
(* mailboxes, and between two steps of it a request is in the transport    *)
(* thread's mailbox, in its hand, or answered (Answers).  The callbacks of *)
(* the stack point to the netconn as long as its connection was neither    *)
(* reset nor deleted (Callbacks), which is why a writer whose semaphore is *)
(* at zero is woken by sent_tcp, poll_tcp or err_tcp (Writers), and why    *)
(* only a reset clears the control block under a thread's feet.  All of    *)
(* this is mutual: who owns a netconn depends on what was answered, and    *)
(* the answers on who may ask; so Sound is proved as a whole.              *)
(*                                                                         *)
(* After the first undefined behaviour the model stops; the invariant says *)
(* of that state how it can have come about (FaultsNeedTheEnd).            *)
(***************************************************************************)
EXTENDS Netconn, Integers, FiniteSetTheorems, SequenceTheorems,
        WellFoundedInduction, TLAPS

(* The threads that serve connections, and where they are without one. *)
Workers == Conns \cup Pool
Home(t) == IF t \in Pool THEN "idle" ELSE "off"

(* Types.  The requests of the threads, the segments of the packet thread, *)
(* and what mailboxes hold.                                                *)
ApiMsgs == [k : {"api"}, op : {"bind", "listen", "recv", "write", "delconn"},
            c : Netconns, len : Int]
InMsgs == [k : {"in"}, op : {"syn", "data", "fin", "ack", "rst"}, c : Conns, len : {0}]
Msgs == ApiMsgs \cup InMsgs
Items == Msgs \cup {"null", "refused", "data"} \cup Conns

BoxRecs == [st : {"null", "live", "freed"}, q : Seq(Items), mail : BOOLEAN]
ConnRecs == [st : {"none", "live", "freed"}, err : {"ok", "mem", "use", "conn", "abrt"},
             pcb : {"null", "open", "listen"}, sem : {"null", "0", "1"},
             state : {"none", "write"}]
TcpRecs == [room : Int, cb : BOOLEAN, gotfin : BOOLEAN]
SockRecs == [conn : Netconns \cup {NoConn}, last : BOOLEAN]
(* The places a thread can be at. *)
Words == {"", "socket", "slot", "take", "del", "drain", "free", "bind", "bound", "listen",
          "accept", "peer", "spawn", "stop", "fetch", "asleep", "recv", "send", "close",
          "taken", "received", "loop", "full", "woken", "chunk", "wrote", "clear", "nomem",
          "off", "idle"}

ThreadRecs == [pc : Words, then : Words, ret : Words, on : Boxes, fd : 0 .. NumSockets,
               c : Netconns \cup {NoConn}, size : Int, len : Int, got : Items]
NetRecs == [port : Servers, syn : BOOLEAN, data : Int, fin : BOOLEAN]
NoMsg == Msg("none", "none", NoConn, 0)
TpRecs == [pc : {"test", "asleep", "run", "give", "err", "tell"},
           m : Msgs \cup {NoMsg}, box : BOOLEAN]

Types ==
  /\ mbox \in [Boxes -> BoxRecs]
  /\ conn \in [Netconns -> ConnRecs]
  /\ tcp \in [Conns -> TcpRecs]
  /\ \E n \in 2 .. NumSockets : sock \in [0 .. n - 1 -> SockRecs]
  /\ thr \in [Threads -> ThreadRecs]
  /\ tp \in TpRecs
  /\ www \in Seq(0 .. NumSockets)
  /\ net \in [Conns -> NetRecs]
  /\ resets \in SUBSET Conns

-----------------------------------------------------------------------------
(* The places of the threads: where in its program each may be, and what   *)
(* its variables hold there.                                               *)

(* The thread is in sys_arch_mbox_fetch. *)
Fetching(t) == thr[t].pc \in {"fetch", "asleep"}

(* The netconn a thread works on. *)
Mine(t) ==
  IF t \in Servers
    THEN IF thr[t].pc = "peer" THEN thr[t].got
         ELSE IF thr[t].pc = "accept" \/ (thr[t].pc \in {"bind", "spawn"} /\ thr[t].fd = NoFd)
                THEN NoConn ELSE thr[t].c
    ELSE IF thr[t].pc = Home(t) THEN NoConn ELSE sock[thr[t].fd].conn

(* The thread has posted a request and waits for its answer. *)
Caller(t) == Fetching(t) /\ thr[t].then \in {"bound", "accept", "received", "wrote", "drain"}
CallerOf(t, c) == Caller(t) /\ thr[t].c = c

(* The thread has asked for the end of its netconn. *)
Deleting(t) == \/ thr[t].pc \in {"drain", "free"}
               \/ Fetching(t) /\ thr[t].then = "drain"

(* The thread is in netconn_write. *)
Writing(t) == \/ thr[t].pc \in {"loop", "full", "woken", "chunk", "wrote", "clear", "nomem"}
              \/ Fetching(t) /\ thr[t].then = "wrote"

(* A server that took a connection, or its own netconn, and has no slot for it yet. *)
Unplaced(s) == \/ thr[s].pc \in {"slot", "take", "del", "drain", "free", "peer"}
               \/ Fetching(s) /\ thr[s].then = "drain"

(* What a server allocates a slot for: its own netconn, in socket(), or    *)
(* one of the connections to its port, in accept().                        *)
OfServer(s, c, ret) ==
  \/ c = s /\ ret = "bind"
  \/ c \in Conns /\ net[c].port = s /\ ret = "spawn"

(* The programs of cli and www: socket, bind, listen, accept, and the loop *)
(* of accept and a thread, or a place in the queue, for the connection.    *)
ServerCtl(s) ==
  LET r == thr[s] IN
  /\ r.pc \in {"socket", "slot", "take", "del", "drain", "free", "bind", "bound", "listen",
               "accept", "peer", "spawn", "stop", "fetch", "asleep"}
  /\ r.pc = "socket" => r.c = NoConn /\ conn[s].st = "none"
  /\ r.pc \in {"slot", "take", "del", "drain", "free"} => OfServer(s, r.c, r.ret)
  /\ r.pc = "take" => r.fd \in DOMAIN sock
  /\ r.pc \in {"del", "drain", "free"} => r.fd = NoFd
  /\ r.pc \in {"bind", "bound", "listen", "stop"} => r.c = s
  /\ r.pc = "spawn" => /\ r.c \in Conns /\ net[r.c].port = s
                       /\ r.fd # NoFd => r.fd \in DOMAIN sock /\ sock[r.fd].conn = r.c
  /\ r.pc = "peer" => r.got \in Conns /\ net[r.got].port = s /\ r.c = NoConn
  /\ Fetching(s) =>
       \/ r.then \in {"bound", "accept"} /\ r.c = s /\ r.on = Ans(s)
       \/ r.then = "peer" /\ r.c = NoConn /\ r.on = Accept(s)
       \/ r.then = "drain" /\ r.fd = NoFd /\ r.on = Ans(r.c) /\ OfServer(s, r.c, r.ret)

(* The program of the threads that serve a connection: recv, send and      *)
(* close on the descriptor they were given.                                *)
WorkerCtl(t) ==
  LET r == thr[t] IN
  r.pc # Home(t) =>
    /\ r.pc \in {"recv", "send", "close", "del", "drain", "free", "taken", "received", "loop",
                 "full", "woken", "chunk", "wrote", "clear", "nomem", "fetch", "asleep"}
    /\ r.fd \in DOMAIN sock /\ sock[r.fd].conn \in Conns
    /\ IF t \in Pool THEN net[sock[r.fd].conn].port = "www"
                     ELSE sock[r.fd].conn = t /\ net[t].port = "cli"
    /\ r.pc \notin {"recv", "send", "close"} => r.c = sock[r.fd].conn
    /\ r.pc = "send" \/ Writing(t) => r.ret \in {"recv", "close"}
    /\ r.pc \in {"del", "drain", "free"} => r.ret = Home(t)
    /\ Fetching(t) =>
         \/ r.then = "taken" /\ r.on = Recv(r.c)
         \/ r.then \in {"received", "wrote"} /\ r.on = Ans(r.c)
         \/ r.then = "drain" /\ r.on = Ans(r.c) /\ r.ret = Home(t)

Control == /\ \A s \in Servers : ServerCtl(s)
           /\ \A t \in Workers : WorkerCtl(t)

-----------------------------------------------------------------------------
(* Places: a netconn has one owner, and it is allocated as long as anybody *)
(* can get at it.                                                          *)
InTable(c) == \E i \in DOMAIN sock : sock[i].conn = c

Exclusive == \A t, u \in Threads : Mine(t) # NoConn /\ Mine(t) = Mine(u) => t = u

Alive ==
  /\ \A t \in Threads : Mine(t) # NoConn => conn[Mine(t)].st = "live"
  /\ \A i \in DOMAIN sock : sock[i].conn # NoConn => conn[sock[i].conn].st = "live"
  /\ \A c \in Netconns : conn[c].st = "live" => mbox[Ans(c)].st = "live"

(* A connection that the stack has accepted and no server has taken. *)
Waits(s, c) ==
  /\ c \in Conns /\ net[c].port = s /\ conn[c].st = "live"
  /\ ~InTable(c) /\ \A t \in Threads : Mine(t) # c

AcceptOK(s) ==
  /\ \A i \in DOMAIN mbox[Accept(s)].q : Waits(s, mbox[Accept(s)].q[i])
  /\ \A i, j \in DOMAIN mbox[Accept(s)].q :
       mbox[Accept(s)].q[i] = mbox[Accept(s)].q[j] => i = j

AcceptQueues == \A s \in Servers : AcceptOK(s)

Table ==
  /\ \A i, j \in DOMAIN sock : sock[i].conn = sock[j].conn /\ sock[i].conn # NoConn => i = j
  /\ \A s \in Servers : Unplaced(s) => ~InTable(Mine(s))

(* A descriptor that the web server has handed to its pool and nobody has taken. *)
Parked(i) ==
  /\ i \in DOMAIN sock /\ sock[i].conn \in Conns /\ net[sock[i].conn].port = "www"
  /\ \A t \in Threads : Mine(t) # sock[i].conn

WwwQueue ==
  /\ \A j \in DOMAIN www : Parked(www[j])
  /\ \A i, j \in DOMAIN www : www[i] = www[j] => i = j

-----------------------------------------------------------------------------
(* The transport thread's mailbox and the message in its hand.             *)
Q == mbox[Transport].q
SynAt(i, c) == Q[i].k = "in" /\ Q[i].op = "syn" /\ Q[i].c = c
SynInHand(c) == tp.pc = "run" /\ tp.m.k = "in" /\ tp.m.op = "syn" /\ tp.m.c = c

(* The first segment of a connection is in one place, and until it is      *)
(* handled the connection has no netconn.                                  *)
SynOnce ==
  \A c \in Conns :
    /\ net[c].syn => conn[c].st = "none" /\ ~SynInHand(c) /\ \A i \in DOMAIN Q : ~SynAt(i, c)
    /\ SynInHand(c) => conn[c].st = "none" /\ \A i \in DOMAIN Q : ~SynAt(i, c)
    /\ \A i \in DOMAIN Q : SynAt(i, c) => conn[c].st = "none"
    /\ \A i, j \in DOMAIN Q : SynAt(i, c) /\ SynAt(j, c) => i = j

(* A request is about a netconn of the right kind, and before listen is    *)
(* asked for there is a mailbox for the connections.                       *)
ApiOK(m) ==
  m.k = "api" =>
    /\ m.op \in {"bind", "listen"} => m.c \in Servers
    /\ m.op \in {"recv", "write"} => m.c \in Conns
    /\ m.op = "listen" => mbox[Accept(m.c)].st = "live"

Messages ==
  /\ mbox[Transport].st = "live"
  /\ \A i \in DOMAIN Q : Q[i] \in Msgs /\ ApiOK(Q[i])
  /\ tp.pc = "run" => tp.m \in Msgs /\ ApiOK(tp.m)
  /\ tp.pc = "give" => /\ tp.m \in InMsgs /\ tcp[tp.m.c].cb
                       /\ tp.m.op = "fin" => tcp[tp.m.c].gotfin
  /\ tp.pc \in {"err", "tell"} => tp.m \in InMsgs /\ tp.m.c \in resets
  /\ \A s \in Servers : conn[s].pcb = "listen" => mbox[Accept(s)].st = "live"

-----------------------------------------------------------------------------
(* Requests and answers of a netconn c: in the mailbox of the transport    *)
(* thread, in its hand, or in the netconn's answer mailbox.                *)
ReqAt(i, c) == Q[i].k = "api" /\ Q[i].c = c
Hand(c) == tp.pc = "run" /\ tp.m.k = "api" /\ tp.m.c = c
Asked(c) == \E i \in DOMAIN Q : ReqAt(i, c)
Told(c) == mbox[Ans(c)].q # << >>

(* Whoever waits for an answer gets one.  Before a reset there is only     *)
(* that one, and when it answers a delconn the callbacks are off: err_tcp, *)
(* which posts an answer nobody asked for, spoils the count but not the    *)
(* first conjunct.                                                         *)
Answered(c) ==
  /\ \A t \in Threads : CallerOf(t, c) => Asked(c) \/ Hand(c) \/ Told(c)
  /\ c \notin resets =>
       /\ \A i, j \in DOMAIN Q : ReqAt(i, c) /\ ReqAt(j, c) => i = j
       /\ Len(mbox[Ans(c)].q) <= 1
       /\ Asked(c) => ~Hand(c) /\ ~Told(c)
       /\ Hand(c) => ~Told(c)
       /\ Asked(c) \/ Hand(c) \/ Told(c) => \E t \in Threads : CallerOf(t, c)
       /\ \A t \in Threads : CallerOf(t, c) =>
            /\ \A i \in DOMAIN Q : ReqAt(i, c) => (Q[i].op = "delconn" <=> thr[t].then = "drain")
            /\ Hand(c) => (tp.m.op = "delconn" <=> thr[t].then = "drain")
            /\ Told(c) /\ thr[t].then = "drain" /\ c \in Conns => ~tcp[c].cb

Answers == \A c \in Netconns : Answered(c)

(* The callbacks are on from accept_function to err_tcp or do_delconn, the *)
(* control block is there until err_tcp, and who frees a netconn has had   *)
(* its callbacks taken off.                                                *)
Callbacks ==
  \A c \in Conns :
    /\ tcp[c].cb => conn[c].st = "live"
    /\ conn[c].st = "none" => c \notin resets
    /\ c \in resets => ~tcp[c].cb /\ conn[c].pcb = "null"
    /\ conn[c].st = "live" /\ c \notin resets =>
         /\ conn[c].pcb = "open"
         /\ tcp[c].cb \/ \E t \in Threads : Mine(t) = c /\ Deleting(t)
    /\ \A t \in Threads : thr[t].pc \in {"drain", "free"} /\ thr[t].c = c => ~tcp[c].cb

(* recvmbox is given back when the end of the stream was fetched, and only *)
(* a peer's FIN or RST puts that end there.                                *)
ReadOK(c) ==
  /\ tcp[c].cb => mbox[Recv(c)].st = "live" \/ tcp[c].gotfin
  /\ \A i \in DOMAIN mbox[Recv(c)].q :
       mbox[Recv(c)].q[i] = "null" => tcp[c].gotfin \/ c \in resets

Reading ==
  /\ \A c \in Conns : ReadOK(c)
  /\ \A t \in Threads : thr[t].pc = "taken" /\ thr[t].got = "null"
                          => tcp[thr[t].c].gotfin \/ thr[t].c \in resets

(* A thread in netconn_write: its netconn says so, and there is a count on *)
(* the semaphore or somebody that will signal it, but where the thread     *)
(* itself is about to test the room again.                                 *)
WriterOK(t) ==
  LET c == thr[t].c IN
  Writing(t) =>
    /\ conn[c].state = "write" /\ conn[c].sem # "null"
    /\ thr[t].pc \notin {"loop", "woken", "chunk"} =>
         \/ conn[c].sem = "1"
         \/ tcp[c].cb
         \/ tp.pc \in {"err", "tell"} /\ tp.m.c = c

Writers == \A t \in Workers : WriterOK(t)

(* Who sleeps on a mailbox that is not empty has been signalled. *)
Mail ==
  /\ \A t \in Threads :
       thr[t].pc = "asleep" /\ mbox[thr[t].on].q # <<>> => mbox[thr[t].on].mail
  /\ tp.pc = "asleep" /\ mbox[Transport].q # <<>> => mbox[Transport].mail

Places == Exclusive /\ Alive /\ AcceptQueues /\ Table /\ WwwQueue

Sound == /\ Control /\ Places /\ SynOnce /\ Messages /\ Answers
         /\ Callbacks /\ Reading /\ Writers /\ Mail

(* The inductive invariant. *)
IInv == (fault = "none" => Types /\ Sound) /\ FaultsNeedTheEnd

-----------------------------------------------------------------------------
(* The constants, and the names of the mailboxes. *)

LEMMA Names ==
  /\ \A c \in Conns : c \in Netconns /\ c \in Threads /\ c \notin Servers /\ c \notin Pool
                       /\ c \in Workers /\ c # NoConn
  /\ \A s \in Servers : s \in Netconns /\ s \in Threads /\ s \notin Conns /\ s \notin Pool
                         /\ s \notin Workers /\ s # NoConn
  /\ \A p \in Pool : p \in Threads /\ p \notin Servers /\ p \notin Conns /\ p \in Workers
  /\ \A t \in Threads : t \in Servers \/ t \in Workers
  /\ \A t \in Workers : t \in Threads /\ (t \in Conns \/ t \in Pool) /\ t \notin Servers
  /\ NoConn \notin Netconns
  /\ "cli" \in Servers /\ "www" \in Servers
  BY NetconnAssumption DEF Servers, Netconns, Threads, Workers, NoConn

LEMMA WordIn ==
  /\ "" \in Words /\ "socket" \in Words /\ "slot" \in Words /\ "take" \in Words
  /\ "del" \in Words /\ "drain" \in Words /\ "free" \in Words /\ "bind" \in Words
  /\ "bound" \in Words /\ "listen" \in Words /\ "accept" \in Words /\ "peer" \in Words
  /\ "spawn" \in Words /\ "stop" \in Words /\ "fetch" \in Words /\ "asleep" \in Words
  /\ "recv" \in Words /\ "send" \in Words /\ "close" \in Words /\ "taken" \in Words
  /\ "received" \in Words /\ "loop" \in Words /\ "full" \in Words /\ "woken" \in Words
  /\ "chunk" \in Words /\ "wrote" \in Words /\ "clear" \in Words /\ "nomem" \in Words
  /\ "off" \in Words /\ "idle" \in Words
  BY DEF Words

LEMMA Homes ==
  /\ \A t \in Pool : Home(t) = "idle"
  /\ \A t \in Conns : Home(t) = "off"
  /\ \A t : Home(t) \in {"idle", "off"}
  BY Names DEF Home

LEMMA BoxNames ==
  /\ Transport \in Boxes
  /\ \A c \in Netconns : /\ Ans(c) \in Boxes /\ Recv(c) \in Boxes /\ Accept(c) \in Boxes
                         /\ Ans(c) # Transport /\ Recv(c) # Transport /\ Accept(c) # Transport
  /\ \A c, d \in Netconns : /\ Ans(c) = Ans(d) => c = d
                            /\ Recv(c) = Recv(d) => c = d
                            /\ Accept(c) = Accept(d) => c = d
                            /\ Ans(c) # Recv(d) /\ Ans(c) # Accept(d) /\ Recv(c) # Accept(d)
  BY DEF Boxes, Transport, Ans, Recv, Accept

LEMMA SockFacts ==
  ASSUME Types
  PROVE  /\ \A i \in DOMAIN sock : /\ i \in 0 .. NumSockets - 1 /\ i # NoFd /\ i \in 0 .. NumSockets
                                   /\ sock[i] \in SockRecs
         /\ NoFd \notin DOMAIN sock
         /\ sock \in [DOMAIN sock -> SockRecs]
<1>1. PICK n \in 2 .. NumSockets : sock \in [0 .. n - 1 -> SockRecs]
  BY DEF Types
<1>2. NumSockets \in Nat
  BY NetconnAssumption
<1>3. \A i \in 0 .. n - 1 : i \in 0 .. NumSockets - 1 /\ i # NumSockets /\ i \in 0 .. NumSockets
  BY <1>2
<1>4. NumSockets \notin 0 .. n - 1
  BY <1>2
<1> QED BY <1>1, <1>3, <1>4 DEF NoFd

(* The smallest member of a set of numbers exists. *)
Less == {ss \in Nat \X Nat : ss[1] < ss[2]}

LEMMA MinIn ==
  ASSUME NEW S \in SUBSET Nat, S # {}
  PROVE  Min(S) \in S
<1>1. IsWellFoundedOn(Less, Nat)
  BY NatLessThanWellFounded DEF OpToRel, Less
<1>2. S \subseteq Nat
  OBVIOUS
<1>3. PICK x \in S : \A y \in S : ~(<<y, x>> \in Less)
  BY <1>1, <1>2, WFMin, Zenon
<1>4. \A y \in S : y \in Nat /\ x \in Nat /\ <<y, x>> \in Nat \X Nat
  OBVIOUS
<1>5. \A y \in S : ~(y < x)
  BY <1>3, <1>4 DEF Less
<1>6. \A y \in S : x <= y
  BY <1>4, <1>5
<1> QED BY <1>6 DEF Min

-----------------------------------------------------------------------------
(* What is left of a thread when some of its fields are assigned.          *)

Edited(f, g, t, pc, then, ret, on, fd, c, got) ==
  /\ g \in [Threads -> ThreadRecs]
  /\ \A u \in Threads \ {t} : g[u] = f[u]
  /\ g[t].pc = pc /\ g[t].then = then /\ g[t].ret = ret /\ g[t].on = on
  /\ g[t].fd = fd /\ g[t].c = c /\ g[t].got = got

LEMMA SetGoto ==
  ASSUME NEW f \in [Threads -> ThreadRecs], NEW t \in Threads, NEW g,
         NEW p \in Words,
         g = [f EXCEPT ![t].pc = p]
  PROVE  Edited(f, g, t, p, f[t].then, f[t].ret, f[t].on, f[t].fd, f[t].c, f[t].got)
  BY DEF ThreadRecs, Edited

LEMMA SetFdC ==
  ASSUME NEW f \in [Threads -> ThreadRecs], NEW t \in Threads, NEW g,
         NEW i \in 0 .. NumSockets, NEW c \in Netconns \cup {NoConn},
         g = [f EXCEPT ![t].fd = i, ![t].c = c]
  PROVE  Edited(f, g, t, f[t].pc, f[t].then, f[t].ret, f[t].on, i, c, f[t].got)
  BY ZenonT(60) DEF ThreadRecs, Edited

LEMMA SetC ==
  ASSUME NEW f \in [Threads -> ThreadRecs], NEW t \in Threads, NEW g,
         NEW c \in Netconns \cup {NoConn},
         g = [f EXCEPT ![t].c = c]
  PROVE  Edited(f, g, t, f[t].pc, f[t].then, f[t].ret, f[t].on, f[t].fd, c, f[t].got)
  BY DEF ThreadRecs, Edited

LEMMA SetLen ==
  ASSUME NEW f \in [Threads -> ThreadRecs], NEW t \in Threads, NEW g,
         NEW l \in Int,
         g = [f EXCEPT ![t].len = l]
  PROVE  Edited(f, g, t, f[t].pc, f[t].then, f[t].ret, f[t].on, f[t].fd, f[t].c, f[t].got)
  BY DEF ThreadRecs, Edited

LEMMA SetPcCRet ==
  ASSUME NEW f \in [Threads -> ThreadRecs], NEW t \in Threads, NEW g,
         NEW p \in Words, NEW c \in Netconns \cup {NoConn}, NEW r \in Words,
         g = [f EXCEPT ![t].pc = p, ![t].c = c, ![t].ret = r]
  PROVE  Edited(f, g, t, p, f[t].then, r, f[t].on, f[t].fd, c, f[t].got)
  BY ZenonT(60) DEF ThreadRecs, Edited

LEMMA SetPcFd ==
  ASSUME NEW f \in [Threads -> ThreadRecs], NEW t \in Threads, NEW g,
         NEW p \in Words, NEW i \in 0 .. NumSockets,
         g = [f EXCEPT ![t].pc = p, ![t].fd = i]
  PROVE  Edited(f, g, t, p, f[t].then, f[t].ret, f[t].on, i, f[t].c, f[t].got)
  BY ZenonT(60) DEF ThreadRecs, Edited

LEMMA SetPcRet ==
  ASSUME NEW f \in [Threads -> ThreadRecs], NEW t \in Threads, NEW g,
         NEW p \in Words, NEW r \in Words,
         g = [f EXCEPT ![t].pc = p, ![t].ret = r]
  PROVE  Edited(f, g, t, p, f[t].then, r, f[t].on, f[t].fd, f[t].c, f[t].got)
  BY ZenonT(60) DEF ThreadRecs, Edited

LEMMA SetPcCSize ==
  ASSUME NEW f \in [Threads -> ThreadRecs], NEW t \in Threads, NEW g,
         NEW p \in Words, NEW c \in Netconns \cup {NoConn}, NEW z \in Int,
         g = [f EXCEPT ![t].pc = p, ![t].c = c, ![t].size = z]
  PROVE  Edited(f, g, t, p, f[t].then, f[t].ret, f[t].on, f[t].fd, c, f[t].got)
  BY ZenonT(60) DEF ThreadRecs, Edited

LEMMA SetPcSizeLen ==
  ASSUME NEW f \in [Threads -> ThreadRecs], NEW t \in Threads, NEW g,
         NEW p \in Words, NEW z \in Int, NEW l \in Int,
         g = [f EXCEPT ![t].pc = p, ![t].size = z, ![t].len = l]
  PROVE  Edited(f, g, t, p, f[t].then, f[t].ret, f[t].on, f[t].fd, f[t].c, f[t].got)
  BY ZenonT(60) DEF ThreadRecs, Edited

LEMMA SetPcLenGot ==
  ASSUME NEW f \in [Threads -> ThreadRecs], NEW t \in Threads, NEW g,
         NEW p \in Words, NEW l \in Int, NEW v \in Items,
         g = [f EXCEPT ![t].pc = p, ![t].len = l, ![t].got = v]
  PROVE  Edited(f, g, t, p, f[t].then, f[t].ret, f[t].on, f[t].fd, f[t].c, v)
  BY ZenonT(60) DEF ThreadRecs, Edited

LEMMA SetPcThen ==
  ASSUME NEW f \in [Threads -> ThreadRecs], NEW t \in Threads, NEW g,
         NEW p \in Words, NEW h \in Words,
         g = [f EXCEPT ![t].pc = p, ![t].then = h]
  PROVE  Edited(f, g, t, p, h, f[t].ret, f[t].on, f[t].fd, f[t].c, f[t].got)
  BY ZenonT(60) DEF ThreadRecs, Edited

LEMMA SetOnGot ==
  ASSUME NEW f \in [Threads -> ThreadRecs], NEW t \in Threads, NEW g,
         NEW b \in Boxes, NEW v \in Items,
         g = [f EXCEPT ![t].on = b, ![t].got = v]
  PROVE  Edited(f, g, t, f[t].pc, f[t].then, f[t].ret, b, f[t].fd, f[t].c, v)
  BY ZenonT(60) DEF ThreadRecs, Edited

LEMMA SetPcOn ==
  ASSUME NEW f \in [Threads -> ThreadRecs], NEW t \in Threads, NEW g,
         NEW p \in Words, NEW b \in Boxes,
         g = [f EXCEPT ![t].pc = p, ![t].on = b]
  PROVE  Edited(f, g, t, p, f[t].then, f[t].ret, b, f[t].fd, f[t].c, f[t].got)
  BY ZenonT(60) DEF ThreadRecs, Edited

LEMMA SetThenGot ==
  ASSUME NEW f \in [Threads -> ThreadRecs], NEW t \in Threads, NEW g,
         NEW h \in Words, NEW v \in Items,
         g = [f EXCEPT ![t].then = h, ![t].got = v]
  PROVE  Edited(f, g, t, f[t].pc, h, f[t].ret, f[t].on, f[t].fd, f[t].c, v)
  BY ZenonT(60) DEF ThreadRecs, Edited

LEMMA SetPcC ==
  ASSUME NEW f \in [Threads -> ThreadRecs], NEW t \in Threads, NEW g,
         NEW p \in Words, NEW c \in Netconns \cup {NoConn},
         g = [f EXCEPT ![t].pc = p, ![t].c = c]
  PROVE  Edited(f, g, t, p, f[t].then, f[t].ret, f[t].on, f[t].fd, c, f[t].got)
  BY ZenonT(60) DEF ThreadRecs, Edited

LEMMA SetGotRet ==
  ASSUME NEW f \in [Threads -> ThreadRecs], NEW t \in Threads, NEW g,
         NEW v \in Items, NEW r \in Words,
         g = [f EXCEPT ![t].got = v, ![t].ret = r]
  PROVE  Edited(f, g, t, f[t].pc, f[t].then, r, f[t].on, f[t].fd, f[t].c, v)
  BY ZenonT(60) DEF ThreadRecs, Edited

LEMMA SetGotC ==
  ASSUME NEW f \in [Threads -> ThreadRecs], NEW t \in Threads, NEW g,
         NEW v \in Items, NEW c \in Netconns \cup {NoConn},
         g = [f EXCEPT ![t].got = v, ![t].c = c]
  PROVE  Edited(f, g, t, f[t].pc, f[t].then, f[t].ret, f[t].on, f[t].fd, c, v)
  BY ZenonT(60) DEF ThreadRecs, Edited

LEMMA SetTaken ==
  ASSUME NEW f \in [Threads -> ThreadRecs], NEW t \in Threads, NEW g,
         NEW p \in Words, NEW h \in Words, NEW b \in Boxes, NEW v \in Items,
         g = [f EXCEPT ![t].pc = p, ![t].then = h, ![t].on = b, ![t].got = v]
  PROVE  Edited(f, g, t, p, h, f[t].ret, b, f[t].fd, f[t].c, v)
<1>1. PICK e : e = [f EXCEPT ![t].pc = p, ![t].then = h]
  OBVIOUS
<1>2. g = [e EXCEPT ![t].on = b, ![t].got = v]
  BY <1>1
<1>3. Edited(f, e, t, p, h, f[t].ret, f[t].on, f[t].fd, f[t].c, f[t].got)
  BY <1>1, SetPcThen
<1>4. e \in [Threads -> ThreadRecs]
  BY <1>3 DEF Edited
<1>5. Edited(e, g, t, e[t].pc, e[t].then, e[t].ret, b, e[t].fd, e[t].c, v)
  BY <1>2, <1>4, SetOnGot
<1> QED BY <1>3, <1>5 DEF Edited

LEMMA SetFetch ==
  ASSUME NEW f \in [Threads -> ThreadRecs], NEW t \in Threads, NEW g,
         NEW p \in Words, NEW b \in Boxes, NEW h \in Words, NEW v \in Items,
         g = [f EXCEPT ![t].pc = p, ![t].on = b, ![t].then = h, ![t].got = v]
  PROVE  Edited(f, g, t, p, h, f[t].ret, b, f[t].fd, f[t].c, v)
<1>1. PICK e : e = [f EXCEPT ![t].pc = p, ![t].on = b]
  OBVIOUS
<1>2. g = [e EXCEPT ![t].then = h, ![t].got = v]
  BY <1>1
<1>3. Edited(f, e, t, p, f[t].then, f[t].ret, b, f[t].fd, f[t].c, f[t].got)
  BY <1>1, SetPcOn
<1>4. e \in [Threads -> ThreadRecs]
  BY <1>3 DEF Edited
<1>5. Edited(e, g, t, e[t].pc, h, e[t].ret, e[t].on, e[t].fd, e[t].c, v)
  BY <1>2, <1>4, SetThenGot
<1> QED BY <1>3, <1>5 DEF Edited

LEMMA SetPcCGotRet ==
  ASSUME NEW f \in [Threads -> ThreadRecs], NEW t \in Threads, NEW g,
         NEW p \in Words, NEW c \in Netconns \cup {NoConn}, NEW v \in Items, NEW r \in Words,
         g = [f EXCEPT ![t].pc = p, ![t].c = c, ![t].got = v, ![t].ret = r]
  PROVE  Edited(f, g, t, p, f[t].then, r, f[t].on, f[t].fd, c, v)
<1>1. PICK e : e = [f EXCEPT ![t].pc = p, ![t].c = c]
  OBVIOUS
<1>2. g = [e EXCEPT ![t].got = v, ![t].ret = r]
  BY <1>1
<1>3. Edited(f, e, t, p, f[t].then, f[t].ret, f[t].on, f[t].fd, c, f[t].got)
  BY <1>1, SetPcC
<1>4. e \in [Threads -> ThreadRecs]
  BY <1>3 DEF Edited
<1>5. Edited(e, g, t, e[t].pc, e[t].then, r, e[t].on, e[t].fd, e[t].c, v)
  BY <1>2, <1>4, SetGotRet
<1> QED BY <1>3, <1>5 DEF Edited

LEMMA SetPcRetGotC ==
  ASSUME NEW f \in [Threads -> ThreadRecs], NEW t \in Threads, NEW g,
         NEW p \in Words, NEW r \in Words, NEW v \in Items, NEW c \in Netconns \cup {NoConn},
         g = [f EXCEPT ![t].pc = p, ![t].ret = r, ![t].got = v, ![t].c = c]
  PROVE  Edited(f, g, t, p, f[t].then, r, f[t].on, f[t].fd, c, v)
<1>1. PICK e : e = [f EXCEPT ![t].pc = p, ![t].ret = r]
  OBVIOUS
<1>2. g = [e EXCEPT ![t].got = v, ![t].c = c]
  BY <1>1
<1>3. Edited(f, e, t, p, f[t].then, r, f[t].on, f[t].fd, f[t].c, f[t].got)
  BY <1>1, SetPcRet
<1>4. e \in [Threads -> ThreadRecs]
  BY <1>3 DEF Edited
<1>5. Edited(e, g, t, e[t].pc, e[t].then, e[t].ret, e[t].on, e[t].fd, c, v)
  BY <1>2, <1>4, SetGotC
<1> QED BY <1>3, <1>5 DEF Edited

LEMMA SetPcRetC ==
  ASSUME NEW f \in [Threads -> ThreadRecs], NEW t \in Threads, NEW g,
         NEW p \in Words, NEW r \in Words, NEW c \in Netconns \cup {NoConn},
         g = [f EXCEPT ![t].pc = p, ![t].ret = r, ![t].c = c]
  PROVE  Edited(f, g, t, p, f[t].then, r, f[t].on, f[t].fd, c, f[t].got)
  BY ZenonT(60) DEF ThreadRecs, Edited

LEMMA SetSizeLenGot ==
  ASSUME NEW f \in [Threads -> ThreadRecs], NEW t \in Threads, NEW g,
         NEW z \in Int, NEW l \in Int, NEW v \in Items,
         g = [f EXCEPT ![t].size = z, ![t].len = l, ![t].got = v]
  PROVE  Edited(f, g, t, f[t].pc, f[t].then, f[t].ret, f[t].on, f[t].fd, f[t].c, v)
  BY ZenonT(60) DEF ThreadRecs, Edited

LEMMA SetWriteEnds ==
  ASSUME NEW f \in [Threads -> ThreadRecs], NEW t \in Threads, NEW g,
         NEW p \in Words, NEW r \in Words, NEW c \in Netconns \cup {NoConn},
         NEW z \in Int, NEW l \in Int, NEW v \in Items,
         g = [f EXCEPT ![t].pc = p, ![t].ret = r, ![t].c = c,
                       ![t].size = z, ![t].len = l, ![t].got = v]
  PROVE  Edited(f, g, t, p, f[t].then, r, f[t].on, f[t].fd, c, v)
<1>1. PICK e : e = [f EXCEPT ![t].pc = p, ![t].ret = r, ![t].c = c]
  OBVIOUS
<1>2. g = [e EXCEPT ![t].size = z, ![t].len = l, ![t].got = v]
  BY SMTT(40), <1>1
<1>3. Edited(f, e, t, p, f[t].then, r, f[t].on, f[t].fd, c, f[t].got)
  BY <1>1, SetPcRetC
<1>4. e \in [Threads -> ThreadRecs]
  BY <1>3 DEF Edited
<1>5. Edited(e, g, t, e[t].pc, e[t].then, e[t].ret, e[t].on, e[t].fd, e[t].c, v)
  BY <1>2, <1>4, SetSizeLenGot
<1> QED BY <1>3, <1>5 DEF Edited

-----------------------------------------------------------------------------
(* Mailboxes. *)

LEMMA AppendFacts ==
  ASSUME NEW S, NEW s \in Seq(S), NEW m \in S
  PROVE  /\ Append(s, m) \in Seq(S) /\ Append(s, m) # << >>
         /\ Len(Append(s, m)) = Len(s) + 1
         /\ \A i \in DOMAIN s : i \in DOMAIN Append(s, m) /\ Append(s, m)[i] = s[i] /\ i # Len(s) + 1
         /\ \A i \in DOMAIN Append(s, m) : i \in DOMAIN s \/ i = Len(s) + 1
         /\ Len(s) + 1 \in DOMAIN Append(s, m)
         /\ Append(s, m)[Len(s) + 1] = m
  OBVIOUS

LEMMA TailFacts ==
  ASSUME NEW S, NEW s \in Seq(S), s # << >>
  PROVE  /\ Tail(s) \in Seq(S) /\ Len(Tail(s)) = Len(s) - 1 /\ Len(s) \in Nat
         /\ \A i \in DOMAIN Tail(s) : i + 1 \in DOMAIN s /\ Tail(s)[i] = s[i + 1] /\ i + 1 # 1
         /\ \A i, j \in DOMAIN Tail(s) : i + 1 = j + 1 => i = j
         /\ \A i \in DOMAIN s : i # 1 => \E j \in DOMAIN Tail(s) : i = j + 1
         /\ 1 \in DOMAIN s /\ Head(s) = s[1] /\ Head(s) \in S
<1>1. /\ Tail(s) \in Seq(S) /\ Len(Tail(s)) = Len(s) - 1 /\ Len(s) \in Nat /\ Len(s) > 0
      /\ \A i \in 1 .. Len(s) - 1 : Tail(s)[i] = s[i + 1]
  OBVIOUS
<1>2. DOMAIN Tail(s) = 1 .. Len(s) - 1 /\ DOMAIN s = 1 .. Len(s)
  BY <1>1
<1>3. \A i \in 1 .. Len(s) : i # 1 => i - 1 \in 1 .. Len(s) - 1 /\ i = (i - 1) + 1
  BY <1>1
<1>4. \A i \in DOMAIN s : i # 1 => \E j \in DOMAIN Tail(s) : i = j + 1
  BY <1>2, <1>3
<1>5. \A i \in 1 .. Len(s) - 1 : i + 1 \in 1 .. Len(s) /\ i + 1 # 1
  BY <1>1
<1>6. \A i, j \in 1 .. Len(s) - 1 : i + 1 = j + 1 => i = j
  OBVIOUS
<1>7. 1 \in DOMAIN s /\ Head(s) = s[1] /\ Head(s) \in S
  BY <1>1
<1> QED BY <1>1, <1>2, <1>4, <1>5, <1>6, <1>7

LEMMA NoItems ==
  ASSUME NEW S
  PROVE  << >> \in Seq(S) /\ Len(<< >>) = 0 /\ DOMAIN << >> = {}
  OBVIOUS

LEMMA NoElement ==
  ASSUME NEW S, NEW s \in Seq(S), s # << >>
  PROVE  1 \in DOMAIN s /\ Len(s) \in Nat /\ Len(s) > 0
  OBVIOUS

LEMMA ShortTail ==
  ASSUME NEW S, NEW s \in Seq(S), s # << >>, Len(s) <= 1
  PROVE  Tail(s) = << >>
<1>1. Len(s) \in Nat /\ Len(s) > 0
  BY NoElement
<1>2. Tail(s) \in Seq(S) /\ Len(Tail(s)) = Len(s) - 1
  BY TailFacts
<1>3. Len(Tail(s)) = 0
  BY <1>1, <1>2
<1> QED BY <1>2, <1>3

LEMMA ShortEmpty ==
  Len(<< >>) <= 1
  OBVIOUS

LEMMA BoxValues ==
  /\ NullBox \in BoxRecs /\ NewBox \in BoxRecs /\ FreedBox \in BoxRecs
  /\ NullBox.st = "null" /\ NewBox.st = "live" /\ FreedBox.st = "freed"
  /\ NullBox.q = << >> /\ NewBox.q = << >> /\ FreedBox.q = << >>
<1>1. << >> \in Seq(Items)
  OBVIOUS
<1> QED BY <1>1 DEF NullBox, NewBox, FreedBox, BoxRecs

LEMMA PostFacts ==
  ASSUME NEW mb \in [Boxes -> BoxRecs], NEW b \in Boxes, NEW m \in Items
  PROVE  /\ PostOn(mb, b, m) \in [Boxes -> BoxRecs]
         /\ PostOn(mb, b, m)[b].st = mb[b].st
         /\ PostOn(mb, b, m)[b].q = Append(mb[b].q, m)
         /\ PostOn(mb, b, m)[b].mail = (mb[b].mail \/ mb[b].q = << >>)
         /\ \A a \in Boxes \ {b} : PostOn(mb, b, m)[a] = mb[a]
<1>1. mb[b].q \in Seq(Items) /\ mb[b].mail \in BOOLEAN /\ mb[b] \in BoxRecs
  BY DEF BoxRecs
<1>2. Append(mb[b].q, m) \in Seq(Items)
  BY <1>1, AppendFacts
<1>3. PICK q : q = Append(mb[b].q, m)
  OBVIOUS
<1>4. PICK w \in BOOLEAN : w = (mb[b].mail \/ mb[b].q = << >>)
  BY <1>1
<1>5. q \in Seq(Items)
  BY <1>2, <1>3
<1>6. PostOn(mb, b, m) = [mb EXCEPT ![b].q = q, ![b].mail = w]
  BY <1>3, <1>4 DEF PostOn
<1>7. PICK Z : Z = Seq(Items)
  OBVIOUS
<1>8. q \in Z /\ mb \in [Boxes -> [st : {"null", "live", "freed"}, q : Z, mail : BOOLEAN]]
  BY <1>5, <1>7 DEF BoxRecs
<1>9. PICK p : p = [mb EXCEPT ![b].q = q, ![b].mail = w]
  OBVIOUS
<1>10. /\ p \in [Boxes -> [st : {"null", "live", "freed"}, q : Z, mail : BOOLEAN]]
       /\ p[b].st = mb[b].st /\ p[b].q = q /\ p[b].mail = w
       /\ \A a \in Boxes \ {b} : p[a] = mb[a]
  BY <1>8, <1>9
<1>11. p \in [Boxes -> BoxRecs]
  BY <1>7, <1>10 DEF BoxRecs
<1> QED BY <1>3, <1>4, <1>6, <1>9, <1>10, <1>11

-----------------------------------------------------------------------------
(* What a step leaves alone.                                               *)

(* Only the threads of T move; the slots of the others' netconns stay. *)
KeepThreads(T) ==
  /\ \A u \in Threads \ T : thr'[u] = thr[u]
  /\ DOMAIN sock' = DOMAIN sock
  /\ \A i \in DOMAIN sock :
       sock[i].conn # NoConn /\ (\A t \in T : sock[i].conn # Mine(t))
         => sock'[i].conn = sock[i].conn
  /\ \A c \in Conns : net'[c].port = net[c].port
  /\ \A s \in Servers \ T : conn'[s].st = conn[s].st

SameView(u) ==
  /\ thr'[u] = thr[u] /\ Mine(u)' = Mine(u)
  /\ Fetching(u)' = Fetching(u) /\ Caller(u)' = Caller(u) /\ Deleting(u)' = Deleting(u)
  /\ Writing(u)' = Writing(u) /\ Unplaced(u)' = Unplaced(u)

Ctl(t) == (t \in Servers => ServerCtl(t)) /\ (t \in Workers => WorkerCtl(t))

LEMMA MineServer ==
  ASSUME NEW s \in Servers
  PROVE  /\ thr[s].pc = "peer" => Mine(s) = thr[s].got
         /\ thr[s].pc = "accept" => Mine(s) = NoConn
         /\ thr[s].pc \in {"bind", "spawn"} /\ thr[s].fd = NoFd => Mine(s) = NoConn
         /\ thr[s].pc \in {"bind", "spawn"} /\ thr[s].fd # NoFd => Mine(s) = thr[s].c
         /\ thr[s].pc \notin {"peer", "accept", "bind", "spawn"} => Mine(s) = thr[s].c
  BY DEF Mine

LEMMA MineWorker ==
  ASSUME NEW t \in Workers
  PROVE  /\ thr[t].pc = Home(t) => Mine(t) = NoConn
         /\ thr[t].pc # Home(t) => Mine(t) = sock[thr[t].fd].conn
  BY Names DEF Mine

LEMMA OthersKeep ==
  ASSUME Types, Sound, NEW T \in SUBSET Threads, KeepThreads(T), NEW u \in Threads \ T
  PROVE  SameView(u) /\ Ctl(u)'
<1>1. thr'[u] = thr[u]
  BY DEF KeepThreads
<1>2. \A t \in T : Mine(u) # NoConn => Mine(u) # Mine(t)
  BY DEF Sound, Places, Exclusive
<1>3. CASE u \in Servers
  <2>1. Mine(u)' = Mine(u)
    BY <1>1, <1>3 DEF Mine
  <2>2. ServerCtl(u)
    BY <1>3 DEF Sound, Control
  <2>3. conn'[u].st = conn[u].st /\ DOMAIN sock' = DOMAIN sock
        /\ \A c \in Conns : net'[c].port = net[c].port
    BY <1>3 DEF KeepThreads
  <2>4. ASSUME thr[u].pc = "spawn", thr[u].fd # NoFd
        PROVE  sock'[thr[u].fd].conn = sock[thr[u].fd].conn
    <3>1. thr[u].c \in Conns /\ thr[u].fd \in DOMAIN sock /\ sock[thr[u].fd].conn = thr[u].c
      BY <2>2, <2>4 DEF ServerCtl
    <3>2. Mine(u) = thr[u].c /\ thr[u].c # NoConn
      BY <2>4, <3>1, <1>3, MineServer, Names
    <3>3. QED BY <1>2, <3>1, <3>2 DEF KeepThreads
  <2>5. ServerCtl(u)'
    BY <1>1, <2>2, <2>3, <2>4 DEF ServerCtl, OfServer, Fetching
  <2>6. u \notin Workers
    BY <1>3, Names
  <2> QED BY <1>1, <2>1, <2>5, <2>6 DEF SameView, Ctl, Fetching, Caller, Deleting, Writing, Unplaced
<1>4. CASE u \in Workers
  <2>1. WorkerCtl(u) /\ u \notin Servers
    BY <1>4, Names DEF Sound, Control
  <2>3. DOMAIN sock' = DOMAIN sock /\ \A c \in Conns : net'[c].port = net[c].port
    BY DEF KeepThreads
  <2>4. ASSUME thr[u].pc # Home(u)
        PROVE  sock'[thr[u].fd].conn = sock[thr[u].fd].conn /\ sock[thr[u].fd].conn \in Conns
    <3>1. thr[u].fd \in DOMAIN sock /\ sock[thr[u].fd].conn \in Conns
      BY <2>1, <2>4 DEF WorkerCtl
    <3>2. Mine(u) = sock[thr[u].fd].conn /\ Mine(u) # NoConn
      BY <2>4, <3>1, <1>4, MineWorker, Names
    <3>3. QED BY <1>2, <3>1, <3>2 DEF KeepThreads
  <2>5. Mine(u)' = Mine(u)
    BY <1>1, <2>1, <2>4 DEF Mine
  <2>6. WorkerCtl(u)'
    <3>1. Writing(u)' = Writing(u) /\ Fetching(u)' = Fetching(u)
      BY <1>1 DEF Writing, Fetching
    <3>2. u \in Pool \/ u \in Conns
      BY <1>4, Names
    <3>3. QED BY <1>1, <2>1, <2>3, <2>4, <3>1, <3>2 DEF WorkerCtl
  <2> QED BY <1>1, <2>1, <2>5, <2>6 DEF SameView, Ctl, Fetching, Caller, Deleting, Writing, Unplaced
<1> QED BY <1>3, <1>4, Names

(* Nobody's netconn, and no queue of them, changes. *)
SamePlaces ==
  /\ \A u \in Threads : Mine(u)' = Mine(u)
  /\ \A s \in Servers : Unplaced(s)' => Unplaced(s)
  /\ DOMAIN sock' = DOMAIN sock /\ \A i \in DOMAIN sock : sock'[i].conn = sock[i].conn
  /\ \A c \in Netconns : conn'[c].st = conn[c].st /\ mbox'[Ans(c)].st = mbox[Ans(c)].st
  /\ \A s \in Servers : mbox'[Accept(s)].q \in {mbox[Accept(s)].q, << >>}
  /\ \A c \in Conns : net'[c].port = net[c].port
  /\ www' = www

LEMMA MineTyped ==
  ASSUME Types, Sound, NEW t \in Threads
  PROVE  Mine(t) \in Netconns \cup {NoConn}
<1>0. thr[t] \in ThreadRecs /\ Ctl(t)
  BY DEF Types, Sound, Control, Ctl
<1>1. thr[t].c \in Netconns \cup {NoConn}
  BY <1>0 DEF ThreadRecs
<1>2. CASE t \in Servers
  <2>1. thr[t].pc = "peer" => thr[t].got \in Netconns
    BY <1>0, <1>2, Names DEF Ctl, ServerCtl
  <2> QED BY <1>1, <1>2, <2>1 DEF Mine
<1>3. CASE t \in Workers
  BY <1>0, <1>3, MineWorker, Names DEF Ctl, WorkerCtl
<1> QED BY <1>2, <1>3, Names

LEMMA PlacesKeep ==
  ASSUME Types, Sound, SamePlaces
  PROVE  Places'
<1> USE DEF SamePlaces
<1>1. Exclusive'
  BY DEF Sound, Places, Exclusive
<1>2. Alive'
  <2>1. ASSUME NEW t \in Threads, Mine(t)' # NoConn
        PROVE  conn'[Mine(t)'].st = "live"
    BY <2>1, MineTyped DEF Sound, Places, Alive
  <2>2. ASSUME NEW i \in DOMAIN sock', sock'[i].conn # NoConn
        PROVE  conn'[sock'[i].conn].st = "live"
    <3>1. sock[i] \in SockRecs /\ sock'[i].conn = sock[i].conn
      BY <2>2, SockFacts
    <3>2. sock[i].conn \in Netconns
      BY <2>2, <3>1 DEF SockRecs
    <3>3. QED BY <2>2, <3>1, <3>2 DEF Sound, Places, Alive
  <2>3. ASSUME NEW c \in Netconns, conn'[c].st = "live"
        PROVE  mbox'[Ans(c)].st = "live"
    BY <2>3 DEF Sound, Places, Alive
  <2> QED BY <2>1, <2>2, <2>3 DEF Alive
<1>3. \A c : InTable(c)' <=> InTable(c)
  BY DEF InTable
<1>4. AcceptQueues'
  <2> SUFFICES ASSUME NEW s \in Servers PROVE AcceptOK(s)'
    BY DEF AcceptQueues
  <2>0. AcceptOK(s)
    BY DEF Sound, Places, AcceptQueues
  <2>1. CASE mbox'[Accept(s)].q = << >>
    BY <2>1 DEF AcceptOK
  <2>2. CASE mbox'[Accept(s)].q = mbox[Accept(s)].q
    <3>1. \A c : Waits(s, c) => Waits(s, c)'
      BY <1>3, Names DEF Waits
    <3> QED BY <2>0, <2>2, <3>1 DEF AcceptOK
  <2> QED BY <2>1, <2>2
<1>5. Table'
  BY <1>3, Names DEF Sound, Places, Table
<1>6. WwwQueue'
  <2>1. \A i : Parked(i) => Parked(i)'
    BY DEF Parked
  <2> QED BY <2>1 DEF Sound, Places, WwwQueue
<1> QED BY <1>1, <1>2, <1>4, <1>5, <1>6 DEF Places

(* A thread between two calls: it waits for no answer, deletes nothing. *)
Busy(t) == ~Caller(t) /\ ~Deleting(t) /\ thr[t].pc \notin {"asleep", "taken"}

LEMMA QuietRest ==
  ASSUME Types, Sound, NEW T \in SUBSET Threads, KeepThreads(T),
         UNCHANGED <<mbox, tp, tcp, net, resets>>,
         \A c \in Netconns : conn'[c].st = conn[c].st /\ conn'[c].pcb = conn[c].pcb,
         \A t \in T : ~Caller(t) /\ ~Deleting(t) /\ Busy(t)'
  PROVE  SynOnce' /\ Messages' /\ Answers' /\ Callbacks' /\ Reading' /\ Mail'
<1>0. \A u \in Threads \ T : SameView(u)
  BY OthersKeep
<1>q. Q' = Q
  BY DEF Q
<1>1. SynOnce'
  BY <1>q, Names DEF Sound, SynOnce, SynAt, SynInHand
<1>2. Messages'
  BY <1>q, Names DEF Sound, Messages, ApiOK
<1>c. \A t \in Threads, c \in Netconns : (CallerOf(t, c)' <=> CallerOf(t, c))
                                     /\ (CallerOf(t, c) => thr'[t] = thr[t])
  BY <1>0 DEF CallerOf, SameView, Busy
<1>3. Answers'
  <2> SUFFICES ASSUME NEW c \in Netconns PROVE Answered(c)'
    BY DEF Answers
  <2>1. Answered(c)
    BY DEF Sound, Answers
  <2>2. (Asked(c)' <=> Asked(c)) /\ (Hand(c)' <=> Hand(c)) /\ (Told(c)' <=> Told(c))
        /\ \A i : ReqAt(i, c)' <=> ReqAt(i, c)
    BY <1>q DEF Asked, Hand, Told, ReqAt
  <2> QED BY <1>q, <1>c, <2>1, <2>2 DEF Answered
<1>4. Callbacks'
  <2> SUFFICES ASSUME NEW c \in Conns
               PROVE  /\ tcp'[c].cb => conn'[c].st = "live"
                      /\ conn'[c].st = "none" => c \notin resets'
                      /\ c \in resets' => ~tcp'[c].cb /\ conn'[c].pcb = "null"
                      /\ conn'[c].st = "live" /\ c \notin resets' =>
                           /\ conn'[c].pcb = "open"
                           /\ tcp'[c].cb \/ \E t \in Threads : Mine(t)' = c /\ Deleting(t)'
                      /\ \A t \in Threads : thr'[t].pc \in {"drain", "free"} /\ thr'[t].c = c => ~tcp'[c].cb
    BY DEF Callbacks
  <2>1. \A t \in Threads : Deleting(t) => Deleting(t)' /\ Mine(t)' = Mine(t)
    BY <1>0 DEF SameView
  <2>2. \A t \in Threads : thr'[t].pc \in {"drain", "free"} => thr'[t] = thr[t]
    BY <1>0 DEF SameView, Busy, Deleting
  <2> QED BY <2>1, <2>2, Names DEF Sound, Callbacks
<1>5. Reading'
  <2>1. \A t \in Threads : thr'[t].pc = "taken" => thr'[t] = thr[t]
    BY <1>0 DEF SameView, Busy
  <2>2. \A c \in Conns : ReadOK(c)'
    BY DEF Sound, Reading, ReadOK
  <2> QED BY <2>1, <2>2 DEF Sound, Reading
<1>6. Mail'
  <2>1. \A t \in Threads : thr'[t].pc = "asleep" => thr'[t] = thr[t]
    BY <1>0 DEF SameView, Busy
  <2> QED BY <2>1 DEF Sound, Mail
<1> QED BY <1>1, <1>2, <1>3, <1>4, <1>5, <1>6

LEMMA WriterOf ==
  ASSUME Types, Sound, NEW t \in Threads, Writing(t)
  PROVE  t \in Workers /\ thr[t].c = Mine(t) /\ thr[t].c \in Conns
<1>1. CASE t \in Servers
  BY <1>1 DEF Sound, Control, ServerCtl, Writing, Fetching
<1>2. CASE t \in Workers
  <2>1. WorkerCtl(t) /\ thr[t].pc # Home(t)
    BY <1>2, Homes DEF Sound, Control, Writing, Fetching
  <2>2. thr[t].pc \notin {"recv", "send", "close"}
    BY DEF Writing, Fetching
  <2> QED BY <1>2, <2>1, <2>2, MineWorker DEF WorkerCtl
<1> QED BY <1>1, <1>2, Names

LEMMA OtherWriters ==
  ASSUME Types, Sound, NEW T \in SUBSET Threads, KeepThreads(T),
         UNCHANGED <<tp, tcp>>,
         \A c \in Conns : (\A t \in T : c # Mine(t))
            => conn'[c].sem = conn[c].sem /\ conn'[c].state = conn[c].state
  PROVE  \A u \in Workers : u \notin T => WriterOK(u)'
<1> SUFFICES ASSUME NEW u \in Workers, u \notin T, Writing(u)'
             PROVE  WriterOK(u)'
  BY DEF WriterOK
<1>1. SameView(u)
  BY OthersKeep, Names
<1>2. Writing(u) /\ thr'[u] = thr[u]
  BY <1>1 DEF SameView
<1>3. thr[u].c = Mine(u) /\ thr[u].c \in Conns
  BY <1>2, WriterOf, Names
<1>4. \A t \in T : thr[u].c # Mine(t)
  BY <1>3, Names DEF Sound, Places, Exclusive
<1>5. WriterOK(u)
  BY DEF Sound, Writers
<1> QED BY <1>2, <1>3, <1>4, <1>5 DEF WriterOK

LEMMA QuietSound ==
  ASSUME Types, Sound, NEW T \in SUBSET Threads, KeepThreads(T),
         UNCHANGED <<mbox, tp, tcp, net, resets>>,
         \A c \in Netconns : conn'[c].st = conn[c].st /\ conn'[c].pcb = conn[c].pcb,
         \A c \in Conns : (\A t \in T : c # Mine(t))
            => conn'[c].sem = conn[c].sem /\ conn'[c].state = conn[c].state,
         \A t \in T : ~Caller(t) /\ ~Deleting(t) /\ Busy(t)' /\ Ctl(t)'
                      /\ (t \in Workers => WriterOK(t)'),
         Places'
  PROVE  Sound'
<1>1. Control'
  <2>1. \A t \in Threads : Ctl(t)'
    BY OthersKeep
  <2> QED BY <2>1, Names DEF Control, Ctl
<1>2. SynOnce' /\ Messages' /\ Answers' /\ Callbacks' /\ Reading' /\ Mail'
  BY QuietRest
<1>3. Writers'
  BY OtherWriters DEF Writers
<1> QED BY <1>1, <1>2, <1>3 DEF Sound

LEMMA QuietStep ==
  ASSUME Types, Sound, NEW t \in Threads,
         \A u \in Threads \ {t} : thr'[u] = thr[u],
         DOMAIN sock' = DOMAIN sock, \A i \in DOMAIN sock : sock'[i].conn = sock[i].conn,
         UNCHANGED <<mbox, tp, tcp, net, resets, www>>,
         \A c \in Netconns : conn'[c].st = conn[c].st /\ conn'[c].pcb = conn[c].pcb,
         \A c \in Conns : c # Mine(t)
            => conn'[c].sem = conn[c].sem /\ conn'[c].state = conn[c].state,
         Mine(t)' = Mine(t), t \in Servers => (Unplaced(t)' => Unplaced(t)),
         ~Caller(t), ~Deleting(t), Busy(t)', Ctl(t)', t \in Workers => WriterOK(t)'
  PROVE  Sound'
<1>1. PICK T \in SUBSET Threads : T = {t}
  OBVIOUS
<1>2. KeepThreads(T)
  BY <1>1, Names DEF KeepThreads
<1>3. \A u \in Threads \ T : SameView(u)
  BY <1>2, OthersKeep
<1>4. SamePlaces
  BY <1>1, <1>3, Names DEF SamePlaces, SameView
<1>5. Places'
  BY <1>4, PlacesKeep
<1> QED BY <1>1, <1>2, <1>5, QuietSound

(* A worker between two calls. *)
OnlyWorkers == {"recv", "send", "close", "taken", "received", "loop", "full", "woken", "chunk",
                "wrote", "clear", "nomem"}

LEMMA WorkerAt ==
  ASSUME Types, Sound, NEW t \in Threads, thr[t].pc \in OnlyWorkers
  PROVE  /\ t \in Workers /\ t \notin Servers /\ thr[t].pc # Home(t) /\ WorkerCtl(t)
         /\ thr[t] \in ThreadRecs
         /\ thr[t].fd \in DOMAIN sock /\ sock[thr[t].fd].conn \in Conns
         /\ Mine(t) = sock[thr[t].fd].conn
         /\ thr[t].pc \notin {"recv", "send", "close"} => thr[t].c = Mine(t)
         /\ ~Caller(t) /\ ~Deleting(t) /\ ~Fetching(t)
         /\ Mine(t) \in Netconns /\ conn[Mine(t)] \in ConnRecs /\ conn[Mine(t)].st = "live"
         /\ thr \in [Threads -> ThreadRecs]
<1>1. CASE t \in Servers
  BY <1>1 DEF Sound, Control, ServerCtl, OnlyWorkers
<1>2. CASE t \in Workers
  <2>1. thr[t].pc # Home(t) /\ WorkerCtl(t)
    BY <1>2, Homes DEF OnlyWorkers, Sound, Control
  <2>2. thr[t].fd \in DOMAIN sock /\ sock[thr[t].fd].conn \in Conns
        /\ Mine(t) = sock[thr[t].fd].conn
        /\ (thr[t].pc \notin {"recv", "send", "close"} => thr[t].c = Mine(t))
    BY <1>2, <2>1, MineWorker DEF WorkerCtl
  <2>3. ~Caller(t) /\ ~Deleting(t) /\ ~Fetching(t)
    BY DEF Caller, Deleting, Fetching, OnlyWorkers
  <2>4. Mine(t) \in Netconns /\ Mine(t) # NoConn
    BY <2>2, Names
  <2>5. conn[Mine(t)] \in ConnRecs /\ conn[Mine(t)].st = "live"
    BY <2>4 DEF Types, Sound, Places, Alive
  <2> QED BY <1>2, <2>1, <2>2, <2>3, <2>4, <2>5, Names DEF Types
<1> QED BY <1>1, <1>2, Names

(* It moves on, with the same descriptor. *)
LEMMA WorkerMoves ==
  ASSUME Types, Sound, NEW t \in Threads, thr[t].pc \in OnlyWorkers,
         DOMAIN sock' = DOMAIN sock, \A i \in DOMAIN sock : sock'[i].conn = sock[i].conn,
         net' = net, thr'[t].fd = thr[t].fd,
         thr'[t].pc \in OnlyWorkers \cup {"del", "fetch"},
         thr'[t].pc \notin {"recv", "send", "close"} => thr'[t].c = Mine(t),
         thr'[t].pc \in OnlyWorkers \ {"recv", "close", "taken", "received"} 
            => thr'[t].ret \in {"recv", "close"},
         thr'[t].pc = "del" => thr'[t].ret = Home(t),
         thr'[t].pc = "fetch" =>
           \/ thr'[t].then = "taken" /\ thr'[t].on = Recv(Mine(t))
           \/ thr'[t].then = "received" /\ thr'[t].on = Ans(Mine(t))
           \/ thr'[t].then = "wrote" /\ thr'[t].on = Ans(Mine(t)) /\ thr'[t].ret \in {"recv", "close"}
  PROVE  /\ Ctl(t)' /\ Mine(t)' = Mine(t) /\ ~Deleting(t)'
         /\ Fetching(t)' = (thr'[t].pc = "fetch")
         /\ thr'[t].pc \notin {"fetch", "taken"} => Busy(t)'
<1>1. /\ t \in Workers /\ t \notin Servers /\ thr[t].pc # Home(t) /\ WorkerCtl(t)
      /\ thr[t].fd \in DOMAIN sock /\ sock[thr[t].fd].conn \in Conns
      /\ Mine(t) = sock[thr[t].fd].conn
  BY WorkerAt
<1>2. thr'[t].pc # Home(t)
  BY Homes DEF OnlyWorkers
<1>3. Mine(t)' = Mine(t)
  BY <1>1, <1>2 DEF Mine
<1>4. Fetching(t)' = (thr'[t].pc = "fetch")
  BY DEF Fetching, OnlyWorkers
<1>5. ~Deleting(t)'
  BY DEF Fetching, OnlyWorkers, Deleting
<1>6. Writing(t)' => thr'[t].ret \in {"recv", "close"}
  BY DEF Writing, Fetching, OnlyWorkers
<1>7. WorkerCtl(t)'
  <2>1. t \in Pool \/ t \in Conns
    BY <1>1, Names
  <2>2. sock'[thr'[t].fd].conn = Mine(t) /\ thr'[t].fd \in DOMAIN sock'
    BY <1>1
  <2>3. IF t \in Pool THEN net'[Mine(t)].port = "www"
                      ELSE Mine(t) = t /\ net'[t].port = "cli"
    BY <1>1, <2>1 DEF WorkerCtl
  <2>4. thr'[t].pc \in {"recv", "send", "close", "del", "drain", "free", "taken", "received", "loop",
                 "full", "woken", "chunk", "wrote", "clear", "nomem", "fetch", "asleep"}
    BY DEF OnlyWorkers
  <2>5. thr'[t].pc = "send" => thr'[t].ret \in {"recv", "close"}
    BY DEF OnlyWorkers
  <2>6. thr'[t].pc \in {"del", "drain", "free"} => thr'[t].ret = Home(t)
    BY DEF OnlyWorkers
  <2>7. Fetching(t)' =>
         \/ thr'[t].then = "taken" /\ thr'[t].on = Recv(thr'[t].c)
         \/ thr'[t].then \in {"received", "wrote"} /\ thr'[t].on = Ans(thr'[t].c)
    BY <1>4
  <2> QED BY <1>1, <1>6, <2>2, <2>3, <2>4, <2>5, <2>6, <2>7 DEF WorkerCtl
<1>8. Ctl(t)'
  BY <1>1, <1>7 DEF Ctl
<1>9. thr'[t].pc \notin {"fetch", "taken"} => Busy(t)'
  BY <1>4, <1>5 DEF Busy, Caller, OnlyWorkers
<1> QED BY <1>3, <1>4, <1>5, <1>8, <1>9

-----------------------------------------------------------------------------
(* Assignments to a netconn. *)

Errs == {"ok", "mem", "use", "conn", "abrt"}
Sems == {"null", "0", "1"}
Pcbs == {"null", "open", "listen"}
States == {"none", "write"}

ConnEdited(f, g, c, err, pcb, sem, state) ==
  /\ g \in [Netconns -> ConnRecs]
  /\ \A d \in Netconns \ {c} : g[d] = f[d]
  /\ g[c].st = f[c].st /\ g[c].err = err /\ g[c].pcb = pcb /\ g[c].sem = sem
  /\ g[c].state = state

LEMMA ConnErr ==
  ASSUME NEW f \in [Netconns -> ConnRecs], NEW c \in Netconns, NEW g,
         NEW e \in Errs, g = [f EXCEPT ![c].err = e]
  PROVE  ConnEdited(f, g, c, e, f[c].pcb, f[c].sem, f[c].state)
  BY DEF ConnRecs, ConnEdited, Errs

LEMMA ConnPcb ==
  ASSUME NEW f \in [Netconns -> ConnRecs], NEW c \in Netconns, NEW g,
         NEW p \in Pcbs, g = [f EXCEPT ![c].pcb = p]
  PROVE  ConnEdited(f, g, c, f[c].err, p, f[c].sem, f[c].state)
  BY DEF ConnRecs, ConnEdited, Pcbs

LEMMA ConnPcbErr ==
  ASSUME NEW f \in [Netconns -> ConnRecs], NEW c \in Netconns, NEW g,
         NEW p \in Pcbs, NEW e \in Errs, g = [f EXCEPT ![c].pcb = p, ![c].err = e]
  PROVE  ConnEdited(f, g, c, e, p, f[c].sem, f[c].state)
<1>1. PICK h : h = [f EXCEPT ![c].pcb = p]
  OBVIOUS
<1>2. g = [h EXCEPT ![c].err = e]
  BY <1>1
<1>3. ConnEdited(f, h, c, f[c].err, p, f[c].sem, f[c].state)
  BY <1>1, ConnPcb
<1>4. h \in [Netconns -> ConnRecs]
  BY <1>3 DEF ConnEdited
<1>5. ConnEdited(h, g, c, e, h[c].pcb, h[c].sem, h[c].state)
  BY <1>2, <1>4, ConnErr
<1> QED BY <1>3, <1>5 DEF ConnEdited

LEMMA ConnSem ==
  ASSUME NEW f \in [Netconns -> ConnRecs], NEW c \in Netconns, NEW g,
         NEW s \in Sems, g = [f EXCEPT ![c].sem = s]
  PROVE  ConnEdited(f, g, c, f[c].err, f[c].pcb, s, f[c].state)
  BY DEF ConnRecs, ConnEdited, Sems

LEMMA ItemValues ==
  /\ "null" \in Items /\ "refused" \in Items /\ "data" \in Items
  /\ \A c \in Conns : c \in Items
  /\ \A m \in Msgs : m \in Items
  BY DEF Items

LEMMA ConnState ==
  ASSUME NEW f \in [Netconns -> ConnRecs], NEW c \in Netconns, NEW g,
         NEW w \in States, g = [f EXCEPT ![c].state = w]
  PROVE  ConnEdited(f, g, c, f[c].err, f[c].pcb, f[c].sem, w)
  BY DEF ConnRecs, ConnEdited, States

LEMMA ConnSemState ==
  ASSUME NEW f \in [Netconns -> ConnRecs], NEW c \in Netconns, NEW g,
         NEW s \in Sems, NEW w \in States,
         \/ g = [f EXCEPT ![c].sem = s, ![c].state = w]
         \/ g = [f EXCEPT ![c].state = w, ![c].sem = s]
  PROVE  ConnEdited(f, g, c, f[c].err, f[c].pcb, s, w)
<1>1. CASE g = [f EXCEPT ![c].sem = s, ![c].state = w]
  <2>1. PICK h : h = [f EXCEPT ![c].sem = s]
    OBVIOUS
  <2>2. g = [h EXCEPT ![c].state = w]
    BY <2>1, <1>1
  <2>3. ConnEdited(f, h, c, f[c].err, f[c].pcb, s, f[c].state)
    BY <2>1, ConnSem
  <2>4. h \in [Netconns -> ConnRecs]
    BY <2>3 DEF ConnEdited
  <2>5. ConnEdited(h, g, c, h[c].err, h[c].pcb, h[c].sem, w)
    BY <2>2, <2>4, ConnState
  <2> QED BY <2>3, <2>5 DEF ConnEdited
<1>2. CASE g = [f EXCEPT ![c].state = w, ![c].sem = s]
  <2>1. PICK h : h = [f EXCEPT ![c].state = w]
    OBVIOUS
  <2>2. g = [h EXCEPT ![c].sem = s]
    BY <2>1, <1>2
  <2>3. ConnEdited(f, h, c, f[c].err, f[c].pcb, f[c].sem, w)
    BY <2>1, ConnState
  <2>4. h \in [Netconns -> ConnRecs]
    BY <2>3 DEF ConnEdited
  <2>5. ConnEdited(h, g, c, h[c].err, h[c].pcb, s, h[c].state)
    BY <2>2, <2>4, ConnSem
  <2> QED BY <2>3, <2>5 DEF ConnEdited
<1> QED BY <1>1, <1>2

LEMMA LastEdit ==
  ASSUME Types, NEW i \in DOMAIN sock, NEW more \in BOOLEAN,
         sock' = [sock EXCEPT ![i].last = more]
  PROVE  /\ DOMAIN sock' = DOMAIN sock
         /\ \A j \in DOMAIN sock : sock'[j].conn = sock[j].conn
         /\ \E n \in 2 .. NumSockets : sock' \in [0 .. n - 1 -> SockRecs]
<1>1. PICK n \in 2 .. NumSockets : sock \in [0 .. n - 1 -> SockRecs]
  BY DEF Types
<1>2. DOMAIN sock = 0 .. n - 1
  BY <1>1
<1>3. PICK D : D = 0 .. n - 1
  OBVIOUS
<1>4. sock \in [D -> SockRecs] /\ i \in D
  BY <1>1, <1>2, <1>3
<1>5. sock' \in [D -> SockRecs] /\ \A j \in D : sock'[j].conn = sock[j].conn
  BY <1>4 DEF SockRecs
<1> QED BY <1>2, <1>3, <1>4, <1>5

LEMMA ThreadTyped ==
  ASSUME Types, NEW t \in Threads
  PROVE  /\ thr \in [Threads -> ThreadRecs] /\ thr[t] \in ThreadRecs
         /\ thr[t].pc \in Words /\ thr[t].then \in Words /\ thr[t].ret \in Words
         /\ thr[t].on \in Boxes /\ thr[t].fd \in 0 .. NumSockets
         /\ thr[t].c \in Netconns \cup {NoConn}
         /\ thr[t].size \in Int /\ thr[t].len \in Int /\ thr[t].got \in Items
<1>1. thr \in [Threads -> ThreadRecs]
  BY DEF Types
<1>2. thr[t] \in ThreadRecs
  BY <1>1
<1> QED BY <1>1, <1>2 DEF ThreadRecs

LEMMA ReturnEffect ==
  ASSUME Types, NEW t \in Threads, NEW n \in {0, 1}, Return(t, n)
  PROVE  \E p \in {"recv", "close", "send"}, r \in Words :
           /\ Edited(thr, thr', t, p, thr[t].then, r, thr[t].on, thr[t].fd, NoConn, "null")
           /\ p = "send" => r \in {"recv", "close"}
<1>1. PICK a \in (IF t \in Conns THEN CliGot(n) ELSE WwwGot(n)) :
        thr' = [thr EXCEPT ![t].pc = a.pc, ![t].ret = a.ret, ![t].got = "null", ![t].c = NoConn]
  BY DEF Return
<1>2. /\ a.pc \in {"recv", "close", "send"} /\ a.ret \in {"", "recv", "close"}
      /\ a.pc = "send" => a.ret \in {"recv", "close"}
  <2>1. CASE a = Then("recv", "")
    BY <2>1 DEF Then
  <2>2. CASE a = Then("send", "recv")
    BY <2>2 DEF Then
  <2>3. CASE a = Then("send", "close")
    BY <2>3 DEF Then
  <2>4. CASE a = Then("close", "")
    BY <2>4 DEF Then
  <2>5. CASE a \in CliGot(n)
    <3>1. CliGot(n) \subseteq {Then("recv", ""), Then("send", "recv"), Then("send", "close")}
      BY DEF CliGot
    <3> QED BY <2>1, <2>2, <2>3, <2>5, <3>1
  <2>6. CASE a \in WwwGot(n)
    <3>1. WwwGot(n) \subseteq {Then("recv", ""), Then("send", "close"), Then("close", "")}
      BY DEF WwwGot
    <3> QED BY <2>1, <2>3, <2>4, <2>6, <3>1
  <2> QED BY <1>1, <2>5, <2>6
<1>3. PICK p, r : p = a.pc /\ r = a.ret
  OBVIOUS
<1>4. p \in Words /\ r \in Words /\ "null" \in Items /\ NoConn \in Netconns \cup {NoConn}
  BY ZenonT(60), <1>2, <1>3, ItemValues, WordIn
<1>5. Edited(thr, thr', t, p, thr[t].then, r, thr[t].on, thr[t].fd, NoConn, "null")
  BY ZenonT(60), <1>1, <1>3, <1>4, SetPcRetGotC DEF Types
<1> QED BY <1>2, <1>3, <1>4, <1>5

LEMMA WriteEnds ==
  ASSUME Types, NEW t \in Threads, WriteReturns(t)
  PROVE  Edited(thr, thr', t, thr[t].ret, thr[t].then, "", thr[t].on, thr[t].fd, NoConn, "null")
<1>1. thr[t].ret \in Words
  BY ThreadTyped
<1>2. "" \in Words
  BY WordIn
<1>3. "null" \in Items /\ NoConn \in Netconns \cup {NoConn} /\ 0 \in Int
  BY ItemValues
<1> QED BY <1>1, <1>2, <1>3, SetWriteEnds DEF WriteReturns, Types

-----------------------------------------------------------------------------
(* The steps of a thread that call nobody. *)

(* A worker returns from a call of recv or send, or goes on inside it. *)
LEMMA WorkerQuiet ==
  ASSUME Types, Sound, NEW t \in Threads, thr[t].pc \in OnlyWorkers,
         NEW p, NEW h, NEW r, NEW b, NEW c, NEW v,
         Edited(thr, thr', t, p, h, r, b, thr[t].fd, c, v),
         DOMAIN sock' = DOMAIN sock, \A i \in DOMAIN sock : sock'[i].conn = sock[i].conn,
         \E n \in 2 .. NumSockets : sock' \in [0 .. n - 1 -> SockRecs],
         UNCHANGED <<mbox, tp, tcp, net, resets, www>>,
         conn' \in [Netconns -> ConnRecs],
         \A d \in Netconns \ {Mine(t)} : conn'[d] = conn[d],
         conn'[Mine(t)].st = conn[Mine(t)].st, conn'[Mine(t)].pcb = conn[Mine(t)].pcb,
         p \in (OnlyWorkers \ {"taken"}) \cup {"del", "fetch"},
         p \notin {"recv", "send", "close"} => c = Mine(t),
         p \in OnlyWorkers \ {"recv", "close", "received"} => r \in {"recv", "close"},
         p = "del" => r = Home(t),
         p = "fetch" => h = "taken" /\ b = Recv(Mine(t)),
         p \in {"loop", "full", "woken", "chunk", "wrote", "clear", "nomem"} =>
           /\ conn'[Mine(t)].state = "write" /\ conn'[Mine(t)].sem # "null"
           /\ p \notin {"loop", "woken", "chunk"} =>
                \/ conn'[Mine(t)].sem = "1" \/ tcp[Mine(t)].cb
                \/ tp.pc \in {"err", "tell"} /\ tp.m.c = Mine(t)
  PROVE  Types' /\ Sound'
<1>e. /\ thr' \in [Threads -> ThreadRecs] /\ \A u \in Threads \ {t} : thr'[u] = thr[u]
      /\ thr'[t].pc = p /\ thr'[t].then = h /\ thr'[t].ret = r /\ thr'[t].on = b
      /\ thr'[t].fd = thr[t].fd /\ thr'[t].c = c
  BY DEF Edited
<1>w. /\ t \in Workers /\ t \notin Servers /\ ~Caller(t) /\ ~Deleting(t) /\ Mine(t) \in Netconns
  BY WorkerAt
<1>1. Types'
  BY <1>e DEF Types
<1>2. /\ Ctl(t)' /\ Mine(t)' = Mine(t) /\ ~Deleting(t)'
      /\ Fetching(t)' = (thr'[t].pc = "fetch")
      /\ thr'[t].pc \notin {"fetch", "taken"} => Busy(t)'
  <2>1. thr'[t].pc \in OnlyWorkers \cup {"del", "fetch"}
    BY <1>e
  <2>2. thr'[t].pc \in OnlyWorkers \ {"recv", "close", "taken", "received"}
          => thr'[t].ret \in {"recv", "close"}
    BY <1>e
  <2>3. thr'[t].pc = "fetch" => thr'[t].then = "taken" /\ thr'[t].on = Recv(Mine(t))
    BY <1>e
  <2>4. /\ thr'[t].pc = "del" => thr'[t].ret = Home(t)
        /\ thr'[t].pc \notin {"recv", "send", "close"} => thr'[t].c = Mine(t)
        /\ thr'[t].fd = thr[t].fd /\ net' = net
    BY <1>e
  <2> QED BY <2>1, <2>2, <2>3, <2>4, WorkerMoves
<1>3. Busy(t)'
  <2>1. p # "taken"
    BY DEF OnlyWorkers
  <2>2. CASE p = "fetch"
    BY <1>2, <2>2, <1>e DEF Busy, Caller
  <2> QED BY <1>2, <1>e, <2>1, <2>2
<1>4. WriterOK(t)'
  <2>1. CASE p \in {"loop", "full", "woken", "chunk", "wrote", "clear", "nomem"}
    <3>1. c = Mine(t)
      BY <2>1
    <3>2. thr'[t].c = Mine(t) /\ thr'[t].pc = p /\ tcp' = tcp /\ tp' = tp
      BY <3>1, <1>e
    <3> QED BY <2>1, <3>2 DEF WriterOK
  <2>2. CASE p \notin {"loop", "full", "woken", "chunk", "wrote", "clear", "nomem"}
    <3>1. ~Writing(t)'
      BY <2>2, <1>e, <1>2 DEF Writing
    <3> QED BY <3>1 DEF WriterOK
  <2> QED BY <2>1, <2>2
<1>5. /\ \A d \in Netconns : conn'[d].st = conn[d].st /\ conn'[d].pcb = conn[d].pcb
      /\ \A d \in Conns : d # Mine(t)
            => conn'[d].sem = conn[d].sem /\ conn'[d].state = conn[d].state
  BY Names
<1>6. Sound'
  BY <1>e, <1>w, <1>2, <1>3, <1>4, <1>5, QuietStep
<1> QED BY <1>1, <1>6

LEMMA RecvLastStep ==
  ASSUME Types, Sound, NEW t \in Threads, RecvLast(t) \/ RecvDone(t)
  PROVE  Types' /\ Sound'
<1>1. /\ thr[t].pc \in {"recv", "received"} /\ Return(t, 1)
      /\ UNCHANGED <<mbox, conn, tcp, tp, www, net, resets, fault>>
      /\ \E more \in BOOLEAN : sock' = [sock EXCEPT ![thr[t].fd].last = more]
  BY DEF RecvLast, RecvDone
<1>2. thr[t].pc \in OnlyWorkers
  BY <1>1 DEF OnlyWorkers
<1>3. thr[t].fd \in DOMAIN sock
  BY <1>2, WorkerAt
<1>4. /\ DOMAIN sock' = DOMAIN sock /\ \A i \in DOMAIN sock : sock'[i].conn = sock[i].conn
      /\ \E n \in 2 .. NumSockets : sock' \in [0 .. n - 1 -> SockRecs]
  BY <1>1, <1>3, LastEdit
<1>5. PICK p \in {"recv", "close", "send"}, r \in Words :
           /\ Edited(thr, thr', t, p, thr[t].then, r, thr[t].on, thr[t].fd, NoConn, "null")
           /\ p = "send" => r \in {"recv", "close"}
  BY <1>1, ReturnEffect
<1>6. conn' \in [Netconns -> ConnRecs]
  BY <1>1 DEF Types
<1>7. p \in (OnlyWorkers \ {"taken"}) \cup {"del", "fetch"}
  BY DEF OnlyWorkers
<1>8. p \in OnlyWorkers \ {"recv", "close", "received"} => r \in {"recv", "close"}
  BY <1>5
<1> QED BY ZenonT(60), <1>1, <1>2, <1>4, <1>5, <1>6, <1>7, <1>8, WorkerQuiet

LEMMA FetchEffect ==
  ASSUME Types, NEW t \in Threads, NEW b \in Boxes, NEW h \in Words
  PROVE  /\ FetchFrom(t, b, h) \in [Threads -> ThreadRecs]
         /\ Edited(thr, FetchFrom(t, b, h), t, "fetch", h, thr[t].ret, b, thr[t].fd, thr[t].c, "null")
<1>1. "fetch" \in Words /\ "null" \in Items /\ thr \in [Threads -> ThreadRecs]
  BY ZenonT(60), ItemValues, ThreadTyped DEF Words
<1>2. Edited(thr, FetchFrom(t, b, h), t, "fetch", h, thr[t].ret, b, thr[t].fd, thr[t].c, "null")
  BY <1>1, SetFetch DEF FetchFrom
<1> QED BY <1>2 DEF Edited

LEMMA FetchThenC ==
  ASSUME Types, NEW t \in Threads, NEW b \in Boxes, NEW h \in Words, NEW c \in Netconns \cup {NoConn},
         NEW g, g = [FetchFrom(t, b, h) EXCEPT ![t].c = c]
  PROVE  Edited(thr, g, t, "fetch", h, thr[t].ret, b, thr[t].fd, c, "null")
<1>1. PICK e : e = FetchFrom(t, b, h)
  OBVIOUS
<1>2. e \in [Threads -> ThreadRecs]
      /\ Edited(thr, e, t, "fetch", h, thr[t].ret, b, thr[t].fd, thr[t].c, "null")
  BY <1>1, FetchEffect
<1>3. g = [e EXCEPT ![t].c = c]
  BY <1>1
<1>4. Edited(e, g, t, e[t].pc, e[t].then, e[t].ret, e[t].on, e[t].fd, c, e[t].got)
  BY <1>2, <1>3, SetC
<1> QED BY <1>2, <1>4 DEF Edited

LEMMA FetchThenLen ==
  ASSUME Types, NEW t \in Threads, NEW b \in Boxes, NEW h \in Words, NEW l \in Int,
         NEW g, g = [FetchFrom(t, b, h) EXCEPT ![t].len = l]
  PROVE  Edited(thr, g, t, "fetch", h, thr[t].ret, b, thr[t].fd, thr[t].c, "null")
<1>1. PICK e : e = FetchFrom(t, b, h)
  OBVIOUS
<1>2. e \in [Threads -> ThreadRecs]
      /\ Edited(thr, e, t, "fetch", h, thr[t].ret, b, thr[t].fd, thr[t].c, "null")
  BY <1>1, FetchEffect
<1>3. g = [e EXCEPT ![t].len = l]
  BY <1>1
<1>4. Edited(e, g, t, e[t].pc, e[t].then, e[t].ret, e[t].on, e[t].fd, e[t].c, e[t].got)
  BY <1>2, <1>3, SetLen
<1> QED BY <1>2, <1>4 DEF Edited

LEMMA FetchThenFdC ==
  ASSUME Types, NEW t \in Threads, NEW b \in Boxes, NEW h \in Words,
         NEW i \in 0 .. NumSockets, NEW c \in Netconns \cup {NoConn},
         NEW g, g = [FetchFrom(t, b, h) EXCEPT ![t].fd = i, ![t].c = c]
  PROVE  Edited(thr, g, t, "fetch", h, thr[t].ret, b, i, c, "null")
<1>1. PICK e : e = FetchFrom(t, b, h)
  OBVIOUS
<1>2. e \in [Threads -> ThreadRecs]
      /\ Edited(thr, e, t, "fetch", h, thr[t].ret, b, thr[t].fd, thr[t].c, "null")
  BY <1>1, FetchEffect
<1>3. g = [e EXCEPT ![t].fd = i, ![t].c = c]
  BY <1>1
<1>4. Edited(e, g, t, e[t].pc, e[t].then, e[t].ret, e[t].on, i, c, e[t].got)
  BY <1>2, <1>3, SetFdC
<1> QED BY <1>2, <1>4 DEF Edited

(* The same, when the table of sockets and the netconns stay. *)
LEMMA WorkerReturns ==
  ASSUME Types, Sound, NEW t \in Threads, thr[t].pc \in OnlyWorkers,
         Return(t, 0) \/ Return(t, 1),
         UNCHANGED <<mbox, tp, tcp, net, resets, www, sock>>,
         conn' \in [Netconns -> ConnRecs],
         \A d \in Netconns \ {Mine(t)} : conn'[d] = conn[d],
         conn'[Mine(t)].st = conn[Mine(t)].st, conn'[Mine(t)].pcb = conn[Mine(t)].pcb
  PROVE  Types' /\ Sound'
<1>5. PICK p \in {"recv", "close", "send"}, r \in Words :
           /\ Edited(thr, thr', t, p, thr[t].then, r, thr[t].on, thr[t].fd, NoConn, "null")
           /\ p = "send" => r \in {"recv", "close"}
  BY ReturnEffect
<1>7. p \in (OnlyWorkers \ {"taken"}) \cup {"del", "fetch"}
  BY DEF OnlyWorkers
<1>8. p \in OnlyWorkers \ {"recv", "close", "received"} => r \in {"recv", "close"}
  BY <1>5
<1>9. \E n \in 2 .. NumSockets : sock' \in [0 .. n - 1 -> SockRecs]
  BY DEF Types
<1> QED BY <1>5, <1>7, <1>8, <1>9, WorkerQuiet

LEMMA NetconnRecvStep ==
  ASSUME Types, Sound, NEW t \in Threads, NetconnRecv(t)
  PROVE  Types' /\ Sound'
<1>1. PICK c : c = sock[thr[t].fd].conn
  BY SMTT(40)
<1>2. thr[t].pc = "recv" /\ thr[t].pc \in OnlyWorkers
  BY DEF NetconnRecv, OnlyWorkers
<1>3. c = Mine(t) /\ c \in Netconns /\ c \in Conns
  BY SMTT(40), <1>1, <1>2, WorkerAt
<1>4. UNCHANGED <<mbox, tcp, sock, tp, www, net, resets>>
  BY DEF NetconnRecv
<1>t. conn \in [Netconns -> ConnRecs] /\ "conn" \in Errs
  BY DEF Types, Errs
<1>5. CASE mbox[Recv(c)].st = "null"
  <2>1. conn' = [conn EXCEPT ![c].err = "conn"] /\ Return(t, 0)
    BY <1>1, <1>5 DEF NetconnRecv
  <2>2. ConnEdited(conn, conn', c, "conn", conn[c].pcb, conn[c].sem, conn[c].state)
    BY <1>3, <1>t, <2>1, ConnErr
  <2> QED BY <1>2, <1>3, <1>4, <2>1, <2>2, WorkerReturns DEF ConnEdited
<1>6. CASE mbox[Recv(c)].st # "null" /\ conn[c].err # "ok"
  <2>1. conn' = conn /\ Return(t, 0)
    BY <1>1, <1>6 DEF NetconnRecv
  <2> QED BY <1>2, <1>3, <1>4, <1>t, <2>1, WorkerReturns
<1>7. CASE mbox[Recv(c)].st # "null" /\ conn[c].err = "ok"
  <2>1. conn' = conn /\ thr' = [FetchFrom(t, Recv(c), "taken") EXCEPT ![t].c = c]
    BY <1>1, <1>7 DEF NetconnRecv
  <2>2. Recv(c) \in Boxes /\ "taken" \in Words /\ c \in Netconns \cup {NoConn}
    BY <1>3, BoxNames, WordIn
  <2>3. Edited(thr, thr', t, "fetch", "taken", thr[t].ret, Recv(c), thr[t].fd, c, "null")
    BY <2>1, <2>2, FetchThenC
  <2>4. \E n \in 2 .. NumSockets : sock' \in [0 .. n - 1 -> SockRecs]
    BY <1>4 DEF Types
  <2>5. PICK p : p = "fetch"
    OBVIOUS
  <2>6. /\ p \in (OnlyWorkers \ {"taken"}) \cup {"del", "fetch"}
        /\ ~(p \in OnlyWorkers \ {"recv", "close", "received"})
        /\ p # "del" /\ p \notin {"loop", "full", "woken", "chunk", "wrote", "clear", "nomem"}
    BY <2>5 DEF OnlyWorkers
  <2>7. Edited(thr, thr', t, p, "taken", thr[t].ret, Recv(Mine(t)), thr[t].fd, Mine(t), "null")
    BY <2>3, <2>5, <1>3
  <2>8. conn' \in [Netconns -> ConnRecs] /\ (\A d \in Netconns \ {Mine(t)} : conn'[d] = conn[d])
        /\ conn'[Mine(t)].st = conn[Mine(t)].st /\ conn'[Mine(t)].pcb = conn[Mine(t)].pcb
    BY <1>t, <2>1
  <2> QED BY <1>2, <1>4, <2>4, <2>6, <2>7, <2>8, WorkerQuiet
<1> QED BY <1>5, <1>6, <1>7

WritePcs == {"loop", "full", "woken", "chunk", "wrote", "clear", "nomem"}

LEMMA WriterAt ==
  ASSUME Types, Sound, NEW t \in Threads, thr[t].pc \in WritePcs
  PROVE  /\ thr[t].pc \in OnlyWorkers /\ thr[t].c = Mine(t) /\ Mine(t) \in Conns /\ Mine(t) \in Netconns
         /\ thr[t].ret \in {"recv", "close"}
         /\ conn[Mine(t)].state = "write" /\ conn[Mine(t)].sem # "null"
         /\ thr[t].pc \notin {"loop", "woken", "chunk"} =>
              \/ conn[Mine(t)].sem = "1" \/ tcp[Mine(t)].cb
              \/ tp.pc \in {"err", "tell"} /\ tp.m.c = Mine(t)
         /\ conn \in [Netconns -> ConnRecs] /\ conn[Mine(t)] \in ConnRecs
<1>1. thr[t].pc \in OnlyWorkers
  BY DEF WritePcs, OnlyWorkers
<1>2. Writing(t)
  BY DEF WritePcs, Writing
<1>3. t \in Workers /\ thr[t].c = Mine(t) /\ thr[t].c \in Conns
  BY <1>2, WriterOf
<1>4. WorkerCtl(t) /\ thr[t].pc # Home(t) /\ Mine(t) \in Netconns /\ conn[Mine(t)] \in ConnRecs
  BY <1>1, WorkerAt
<1>5. thr[t].ret \in {"recv", "close"}
  BY <1>2, <1>4 DEF WorkerCtl
<1>6. WriterOK(t)
  BY <1>3 DEF Sound, Writers
<1> QED BY <1>1, <1>2, <1>3, <1>4, <1>5, <1>6 DEF WriterOK, Types

LEMMA OpenCallsBack ==
  ASSUME Types, Sound, NEW t \in Threads, Mine(t) \in Conns, ~Deleting(t),
         conn[Mine(t)].pcb # "null"
  PROVE  Mine(t) \notin resets /\ tcp[Mine(t)].cb
<1>1. conn[Mine(t)].st = "live" /\ Mine(t) # NoConn
  BY Names DEF Sound, Places, Alive
<1>2. \A u \in Threads : Mine(u) = Mine(t) => u = t
  BY <1>1 DEF Sound, Places, Exclusive
<1> QED BY <1>1, <1>2 DEF Sound, Callbacks

LEMMA WriterMoves ==
  ASSUME Types, Sound, NEW t \in Threads, thr[t].pc \in OnlyWorkers,
         NEW p \in WritePcs, NEW r \in {"recv", "close"}, NEW v, NEW e, NEW s,
         Edited(thr, thr', t, p, thr[t].then, r, thr[t].on, thr[t].fd, Mine(t), v),
         UNCHANGED <<mbox, tp, tcp, net, resets, www, sock>>,
         ConnEdited(conn, conn', Mine(t), e, conn[Mine(t)].pcb, s, "write"),
         s # "null",
         p \notin {"loop", "woken", "chunk"} =>
                \/ s = "1" \/ tcp[Mine(t)].cb
                \/ tp.pc \in {"err", "tell"} /\ tp.m.c = Mine(t)
  PROVE  Types' /\ Sound'
<1>1. \E n \in 2 .. NumSockets : sock' \in [0 .. n - 1 -> SockRecs]
  BY DEF Types
<1>2. /\ p \in (OnlyWorkers \ {"taken"}) \cup {"del", "fetch"}
      /\ p # "del" /\ p # "fetch"
  BY DEF OnlyWorkers, WritePcs
<1>3. /\ conn' \in [Netconns -> ConnRecs] /\ (\A d \in Netconns \ {Mine(t)} : conn'[d] = conn[d])
      /\ conn'[Mine(t)].st = conn[Mine(t)].st /\ conn'[Mine(t)].pcb = conn[Mine(t)].pcb
      /\ conn'[Mine(t)].state = "write" /\ conn'[Mine(t)].sem = s
  BY DEF ConnEdited
<1> QED BY <1>1, <1>2, <1>3, WorkerQuiet

LEMMA WriterEnds ==
  ASSUME Types, Sound, NEW t \in Threads, thr[t].pc \in OnlyWorkers, thr[t].ret \in {"recv", "close"},
         WriteReturns(t),
         UNCHANGED <<mbox, tp, tcp, net, resets, www, sock>>,
         conn' \in [Netconns -> ConnRecs],
         \A d \in Netconns \ {Mine(t)} : conn'[d] = conn[d],
         conn'[Mine(t)].st = conn[Mine(t)].st, conn'[Mine(t)].pcb = conn[Mine(t)].pcb
  PROVE  Types' /\ Sound'
<1>0. PICK p : p = thr[t].ret
  OBVIOUS
<1>1. \E n \in 2 .. NumSockets : sock' \in [0 .. n - 1 -> SockRecs]
  BY DEF Types
<1>2. /\ p \in (OnlyWorkers \ {"taken"}) \cup {"del", "fetch"}
      /\ ~(p \in OnlyWorkers \ {"recv", "close", "received"})
      /\ p # "del" /\ p # "fetch" /\ p \notin {"loop", "full", "woken", "chunk", "wrote", "clear", "nomem"}
      /\ p \in {"recv", "close"}
  BY <1>0 DEF OnlyWorkers
<1>3. Edited(thr, thr', t, p, thr[t].then, "", thr[t].on, thr[t].fd, NoConn, "null")
  BY <1>0, WriteEnds
<1> QED BY <1>1, <1>2, <1>3, WorkerQuiet

LEMMA SameConn ==
  ASSUME Types, NEW c \in Netconns, conn' = conn
  PROVE  ConnEdited(conn, conn', c, conn[c].err, conn[c].pcb, conn[c].sem, conn[c].state)
  BY DEF ConnEdited, Types

LEMMA GotoEffect ==
  ASSUME Types, NEW t \in Threads, NEW p \in Words, Goto(t, p)
  PROVE  Edited(thr, thr', t, p, thr[t].then, thr[t].ret, thr[t].on, thr[t].fd, thr[t].c, thr[t].got)
  BY ThreadTyped, SetGoto DEF Goto

LEMMA NetconnWriteStep ==
  ASSUME Types, Sound, NEW t \in Threads, NetconnWrite(t)
  PROVE  Types' /\ Sound'
<1>1. PICK c : c = sock[thr[t].fd].conn
  OBVIOUS
<1>2. thr[t].pc = "send" /\ thr[t].pc \in OnlyWorkers
      /\ UNCHANGED <<mbox, tcp, sock, tp, www, net, resets>>
  BY DEF NetconnWrite, OnlyWorkers
<1>3. c = Mine(t) /\ c \in Netconns /\ c \in Conns /\ WorkerCtl(t) /\ thr[t].pc # Home(t)
      /\ conn[c] \in ConnRecs
  BY <1>1, <1>2, WorkerAt
<1>4. thr[t].ret \in {"recv", "close"}
  BY <1>2, <1>3 DEF WorkerCtl
<1>5. conn \in [Netconns -> ConnRecs]
  BY DEF Types
<1>6. CASE conn[c].err # "ok"
  <2>1. WriteReturns(t) /\ conn' = conn
    BY <1>1, <1>6 DEF NetconnWrite
  <2> QED BY <1>2, <1>3, <1>4, <1>5, <2>1, WriterEnds
<1>7. CASE conn[c].err = "ok"
  <2>1. PICK s : s = IF conn[c].sem = "null" THEN "0" ELSE conn[c].sem
    OBVIOUS
  <2>2. conn' = [conn EXCEPT ![c].sem = s, ![c].state = "write"]
        /\ thr' = [thr EXCEPT ![t].pc = "loop", ![t].c = c, ![t].size = MaxSize]
    BY <1>1, <1>7, <2>1 DEF NetconnWrite
  <2>3. s \in Sems /\ s # "null"
    BY <2>1, <1>3 DEF ConnRecs, Sems
  <2>4. "write" \in States /\ "loop" \in WritePcs /\ "loop" \in {"loop", "woken", "chunk"}
    BY DEF States, WritePcs
  <2>5. ConnEdited(conn, conn', c, conn[c].err, conn[c].pcb, s, "write")
    BY <2>2, <2>3, <2>4, <1>3, <1>5, ConnSemState
  <2>w. "loop" \in Words
    BY WordIn
  <2>s. MaxSize \in Int
    BY NetconnAssumption
  <2>6. "loop" \in Words /\ c \in Netconns \cup {NoConn} /\ MaxSize \in Int
        /\ thr \in [Threads -> ThreadRecs]
    BY <1>3, <2>w, <2>s, ThreadTyped
  <2>7. Edited(thr, thr', t, "loop", thr[t].then, thr[t].ret, thr[t].on, thr[t].fd, c, thr[t].got)
    BY <2>2, <2>6, SetPcCSize
  <2> QED BY <1>2, <1>3, <1>4, <2>3, <2>4, <2>5, <2>7, WriterMoves
<1> QED BY <1>6, <1>7

LEMMA WriteLoopStep ==
  ASSUME Types, Sound, NEW t \in Threads, WriteLoop(t), fault' = "none"
  PROVE  Types' /\ Sound'
<1>1. PICK c : c = thr[t].c
  OBVIOUS
<1>2. thr[t].pc = "loop" /\ thr[t].pc \in WritePcs
      /\ UNCHANGED <<mbox, conn, tcp, sock, tp, www, net, resets>>
  BY DEF WriteLoop, WritePcs
<1>3. /\ thr[t].pc \in OnlyWorkers /\ c = Mine(t) /\ c \in Conns /\ c \in Netconns
      /\ thr[t].ret \in {"recv", "close"} /\ conn[c].state = "write" /\ conn[c].sem # "null"
      /\ conn \in [Netconns -> ConnRecs]
  BY <1>1, <1>2, WriterAt
<1>4. CASE conn[c].err # "ok" \/ thr[t].size = 0
  <2>1. WriteReturns(t)
    BY <1>1, <1>4 DEF WriteLoop
  <2> QED BY <1>2, <1>3, <2>1, WriterEnds
<1>5. CASE ~(conn[c].err # "ok" \/ thr[t].size = 0)
  <2>1. conn[c].pcb # "null" /\ Goto(t, IF tcp[c].room = 0 THEN "full" ELSE "chunk")
    BY <1>1, <1>5 DEF WriteLoop
  <2>2. PICK p : p = IF tcp[c].room = 0 THEN "full" ELSE "chunk"
    OBVIOUS
  <2>3. p \in WritePcs /\ p \in Words
    BY <2>2, WordIn DEF WritePcs
  <2>4. Edited(thr, thr', t, p, thr[t].then, thr[t].ret, thr[t].on, thr[t].fd, c, thr[t].got)
    BY <1>1, <2>1, <2>2, <2>3, GotoEffect
  <2>5. ConnEdited(conn, conn', c, conn[c].err, conn[c].pcb, conn[c].sem, "write")
    BY <1>2, <1>3, SameConn
  <2>6. ~Deleting(t)
    BY <1>3, WorkerAt
  <2>7. tcp[c].cb
    BY <1>3, <2>1, <2>6, OpenCallsBack
  <2> QED BY <1>2, <1>3, <2>3, <2>4, <2>5, <2>7, WriterMoves
<1> QED BY <1>4, <1>5

LEMMA SemWaitStep ==
  ASSUME Types, Sound, NEW t \in Threads,
         SemWait(t, "full", "woken") \/ SemWait(t, "nomem", "loop")
  PROVE  Types' /\ Sound'
<1>1. PICK c : c = thr[t].c
  OBVIOUS
<1>2. thr[t].pc \in {"full", "nomem"} /\ thr[t].pc \in WritePcs
      /\ UNCHANGED <<mbox, tcp, sock, tp, www, net, resets>>
      /\ conn' = [conn EXCEPT ![c].sem = "0"]
  BY <1>1 DEF SemWait, WritePcs
<1>3. /\ thr[t].pc \in OnlyWorkers /\ c = Mine(t) /\ c \in Conns /\ c \in Netconns
      /\ thr[t].ret \in {"recv", "close"} /\ conn[c].state = "write" /\ conn[c].sem # "null"
      /\ conn \in [Netconns -> ConnRecs]
  BY <1>1, <1>2, WriterAt
<1>4. PICK p \in {"woken", "loop"} : Goto(t, p)
  BY DEF SemWait
<1>5. p \in Words /\ p \in WritePcs /\ p \in {"loop", "woken", "chunk"} /\ "0" \in Sems /\ "0" # "null"
  BY WordIn DEF WritePcs, Sems
<1>6. Edited(thr, thr', t, p, thr[t].then, thr[t].ret, thr[t].on, thr[t].fd, c, thr[t].got)
  BY <1>1, <1>4, <1>5, GotoEffect
<1>7. ConnEdited(conn, conn', c, conn[c].err, conn[c].pcb, "0", "write")
  BY <1>2, <1>3, <1>5, ConnSem
<1> QED BY <1>2, <1>3, <1>5, <1>6, <1>7, WriterMoves

LEMMA BigTroubleStep ==
  ASSUME Types, Sound, NEW t \in Threads, thr[t].pc \in WritePcs, BigTrouble(t),
         UNCHANGED <<mbox, tcp, sock, tp, www, net, resets>>
  PROVE  Types' /\ Sound'
<1>1. PICK c : c = thr[t].c
  OBVIOUS
<1>3. /\ thr[t].pc \in OnlyWorkers /\ c = Mine(t) /\ c \in Conns /\ c \in Netconns
      /\ thr[t].ret \in {"recv", "close"} /\ conn \in [Netconns -> ConnRecs]
  BY <1>1, WriterAt
<1>4. conn' = [conn EXCEPT ![c].state = "none", ![c].sem = "null"] /\ WriteReturns(t)
  BY <1>1 DEF BigTrouble
<1>5. "null" \in Sems /\ "none" \in States
  BY DEF Sems, States
<1>6. ConnEdited(conn, conn', c, conn[c].err, conn[c].pcb, "null", "none")
  BY <1>3, <1>4, <1>5, ConnSemState
<1> QED BY <1>3, <1>4, <1>6, WriterEnds DEF ConnEdited

LEMMA WriteWokenStep ==
  ASSUME Types, Sound, NEW t \in Threads, WriteWoken(t)
  PROVE  Types' /\ Sound'
<1>1. PICK c : c = thr[t].c
  OBVIOUS
<1>2. thr[t].pc = "woken" /\ thr[t].pc \in WritePcs
      /\ UNCHANGED <<mbox, tcp, sock, tp, www, net, resets>>
  BY DEF WriteWoken, WritePcs
<1>3. /\ thr[t].pc \in OnlyWorkers /\ c = Mine(t) /\ c \in Conns /\ c \in Netconns
      /\ thr[t].ret \in {"recv", "close"} /\ conn[c].state = "write" /\ conn[c].sem # "null"
      /\ conn \in [Netconns -> ConnRecs]
  BY <1>1, <1>2, WriterAt
<1>4. CASE conn[c].err # "ok"
  BY <1>1, <1>2, <1>4, BigTroubleStep DEF WriteWoken
<1>5. CASE conn[c].err = "ok"
  <2>1. Goto(t, "chunk") /\ conn' = conn
    BY <1>1, <1>5 DEF WriteWoken
  <2>2. "chunk" \in WritePcs /\ "chunk" \in Words /\ "chunk" \in {"loop", "woken", "chunk"}
    BY WordIn DEF WritePcs
  <2>3. Edited(thr, thr', t, "chunk", thr[t].then, thr[t].ret, thr[t].on, thr[t].fd, c, thr[t].got)
    BY <1>1, <2>1, <2>2, GotoEffect
  <2>4. ConnEdited(conn, conn', c, conn[c].err, conn[c].pcb, conn[c].sem, "write")
    BY <1>3, <2>1, SameConn
  <2> QED BY <1>2, <1>3, <2>2, <2>3, <2>4, WriterMoves
<1> QED BY <1>4, <1>5

LEMMA WriteAnsweredStep ==
  ASSUME Types, Sound, NEW t \in Threads, WriteAnswered(t)
  PROVE  Types' /\ Sound'
<1>1. PICK c : c = thr[t].c
  OBVIOUS
<1>2. thr[t].pc = "wrote" /\ thr[t].pc \in WritePcs
      /\ UNCHANGED <<mbox, tcp, sock, tp, www, net, resets>>
  BY DEF WriteAnswered, WritePcs
<1>3. /\ thr[t].pc \in OnlyWorkers /\ c = Mine(t) /\ c \in Conns /\ c \in Netconns
      /\ thr[t].ret \in {"recv", "close"} /\ conn[c].state = "write" /\ conn[c].sem # "null"
      /\ conn \in [Netconns -> ConnRecs]
      /\ \/ conn[c].sem = "1" \/ tcp[c].cb
         \/ tp.pc \in {"err", "tell"} /\ tp.m.c = c
  BY <1>1, <1>2, WriterAt
<1>4. CASE conn[c].err = "ok"
  <2>1. thr' = [thr EXCEPT ![t].pc = "loop", ![t].size = @ - thr[t].len, ![t].len = 0] /\ conn' = conn
    BY <1>1, <1>4 DEF WriteAnswered
  <2>2. PICK z : z = thr[t].size - thr[t].len
    OBVIOUS
  <2>3. thr' = [thr EXCEPT ![t].pc = "loop", ![t].size = z, ![t].len = 0]
    BY <2>1, <2>2, ThreadTyped DEF ThreadRecs
  <2>4. z \in Int /\ 0 \in Int /\ thr \in [Threads -> ThreadRecs]
    BY <2>2, ThreadTyped
  <2>5. "loop" \in WritePcs /\ "loop" \in Words /\ "loop" \in {"loop", "woken", "chunk"}
    BY ZenonT(60), WordIn DEF WritePcs
  <2>6. Edited(thr, thr', t, "loop", thr[t].then, thr[t].ret, thr[t].on, thr[t].fd, c, thr[t].got)
    BY <1>1, <2>3, <2>4, <2>5, SetPcSizeLen
  <2>7. ConnEdited(conn, conn', c, conn[c].err, conn[c].pcb, conn[c].sem, "write")
    BY <1>3, <2>1, SameConn
  <2> QED BY <1>2, <1>3, <2>5, <2>6, <2>7, WriterMoves
<1>5. CASE conn[c].err = "mem"
  <2>1. Goto(t, "clear") /\ conn' = conn
    BY <1>1, <1>5 DEF WriteAnswered
  <2>2. "clear" \in WritePcs /\ "clear" \in Words
    BY WordIn DEF WritePcs
  <2>3. Edited(thr, thr', t, "clear", thr[t].then, thr[t].ret, thr[t].on, thr[t].fd, c, thr[t].got)
    BY <1>1, <2>1, <2>2, GotoEffect
  <2>4. ConnEdited(conn, conn', c, conn[c].err, conn[c].pcb, conn[c].sem, "write")
    BY <1>3, <2>1, SameConn
  <2> QED BY <1>2, <1>3, <2>2, <2>3, <2>4, WriterMoves
<1>6. CASE conn[c].err # "ok" /\ conn[c].err # "mem"
  <2>1. BigTrouble(t)
    BY <1>1, <1>6 DEF WriteAnswered
  <2> QED BY <1>2, <2>1, BigTroubleStep
<1> QED BY <1>4, <1>5, <1>6

LEMMA WriteClearStep ==
  ASSUME Types, Sound, NEW t \in Threads, WriteClear(t)
  PROVE  Types' /\ Sound'
<1>1. PICK c : c = thr[t].c
  OBVIOUS
<1>2. thr[t].pc = "clear" /\ thr[t].pc \in WritePcs
      /\ UNCHANGED <<mbox, tcp, sock, tp, www, net, resets>>
      /\ conn' = [conn EXCEPT ![c].err = "ok"]
      /\ thr' = [thr EXCEPT ![t].pc = "nomem", ![t].len = 0, ![t].got = "null"]
  BY <1>1 DEF WriteClear, WritePcs
<1>3. /\ thr[t].pc \in OnlyWorkers /\ c = Mine(t) /\ c \in Conns /\ c \in Netconns
      /\ thr[t].ret \in {"recv", "close"} /\ conn[c].state = "write" /\ conn[c].sem # "null"
      /\ conn \in [Netconns -> ConnRecs]
      /\ \/ conn[c].sem = "1" \/ tcp[c].cb
         \/ tp.pc \in {"err", "tell"} /\ tp.m.c = c
  BY <1>1, <1>2, WriterAt
<1>w. "nomem" \in WritePcs /\ "nomem" \in Words /\ "ok" \in Errs
  BY WordIn DEF WritePcs, Errs
<1>4. "nomem" \in WritePcs /\ "nomem" \in Words /\ 0 \in Int /\ "null" \in Items /\ "ok" \in Errs
      /\ thr \in [Threads -> ThreadRecs]
  BY SMTT(40), <1>w, ItemValues, ThreadTyped
<1>5. Edited(thr, thr', t, "nomem", thr[t].then, thr[t].ret, thr[t].on, thr[t].fd, c, "null")
  BY <1>1, <1>2, <1>4, SetPcLenGot
<1>6. ConnEdited(conn, conn', c, "ok", conn[c].pcb, conn[c].sem, "write")
  BY <1>2, <1>3, <1>4, ConnErr
<1> QED BY <1>2, <1>3, <1>4, <1>5, <1>6, WriterMoves

LEMMA LwipCloseStep ==
  ASSUME Types, Sound, NEW t \in Threads, LwipClose(t)
  PROVE  Types' /\ Sound'
<1>1. PICK r : r = IF t \in Pool THEN "idle" ELSE "off"
  OBVIOUS
<1>2. /\ thr[t].pc = "close" /\ thr[t].pc \in OnlyWorkers
      /\ UNCHANGED <<mbox, conn, tcp, sock, tp, www, net, resets>>
      /\ thr' = [thr EXCEPT ![t].pc = "del", ![t].c = sock[thr[t].fd].conn, ![t].ret = r]
  BY <1>1 DEF LwipClose, OnlyWorkers
<1>3. sock[thr[t].fd].conn = Mine(t) /\ Mine(t) \in Netconns
  BY <1>2, WorkerAt
<1>4. r = Home(t) /\ r \in Words /\ "del" \in Words /\ thr \in [Threads -> ThreadRecs]
      /\ Mine(t) \in Netconns \cup {NoConn}
  BY <1>1, <1>3, WordIn, ThreadTyped DEF Home
<1>5. PICK p : p = "del"
  BY SMTT(40)
<1>6. Edited(thr, thr', t, p, thr[t].then, r, thr[t].on, thr[t].fd, Mine(t), thr[t].got)
  BY <1>2, <1>3, <1>4, <1>5, SetPcCRet
<1>7. /\ p \in (OnlyWorkers \ {"taken"}) \cup {"del", "fetch"}
      /\ ~(p \in OnlyWorkers \ {"recv", "close", "received"})
      /\ p # "fetch" /\ p \notin {"loop", "full", "woken", "chunk", "wrote", "clear", "nomem"}
  BY <1>5 DEF OnlyWorkers
<1>8. /\ \E n \in 2 .. NumSockets : sock' \in [0 .. n - 1 -> SockRecs]
      /\ conn' \in [Netconns -> ConnRecs]
  BY <1>2 DEF Types
<1> QED BY <1>2, <1>4, <1>6, <1>7, <1>8, WorkerQuiet

OnlyServers == {"socket", "slot", "take", "bind", "bound", "listen", "accept", "peer", "spawn"}

LEMMA ServerAt ==
  ASSUME Types, Sound, NEW t \in Threads, thr[t].pc \in OnlyServers
  PROVE  /\ t \in Servers /\ t \notin Workers /\ ServerCtl(t) /\ t \in Netconns /\ t # NoConn
         /\ ~Caller(t) /\ ~Deleting(t) /\ ~Fetching(t) /\ ~Writing(t)
         /\ thr \in [Threads -> ThreadRecs]
<1>1. t \in Servers
  <2>1. CASE t \in Workers
    <3>1. thr[t].pc # Home(t) /\ WorkerCtl(t)
      BY <2>1, Homes DEF OnlyServers, Sound, Control
    <3> QED BY <3>1 DEF WorkerCtl, OnlyServers
  <2> QED BY <2>1, Names
<1>2. ServerCtl(t)
  BY <1>1 DEF Sound, Control
<1>3. ~Caller(t) /\ ~Deleting(t) /\ ~Fetching(t) /\ ~Writing(t)
  BY DEF Caller, Deleting, Fetching, Writing, OnlyServers
<1> QED BY <1>1, <1>2, <1>3, Names DEF Types

LEMMA AllocFindStep ==
  ASSUME Types, Sound, NEW t \in Threads, AllocFind(t)
  PROVE  Types' /\ Sound'
<1>1. PICK free : free = {i \in DOMAIN sock : sock[i].conn = NoConn}
  OBVIOUS
<1>2. PICK p, i : /\ p = IF free = {} THEN "del" ELSE "take"
                  /\ i = IF free = {} THEN NoFd ELSE Min(free)
  OBVIOUS
<1>3. /\ thr[t].pc = "slot" /\ thr[t].pc \in OnlyServers
      /\ thr' = [thr EXCEPT ![t].pc = p, ![t].fd = i]
      /\ UNCHANGED <<mbox, conn, tcp, sock, tp, www, net, resets, fault>>
  BY <1>1, <1>2 DEF AllocFind, OnlyServers
<1>4. /\ t \in Servers /\ t \notin Workers /\ ServerCtl(t) /\ ~Caller(t) /\ ~Deleting(t)
      /\ thr \in [Threads -> ThreadRecs]
  BY <1>3, ServerAt
<1>5. \/ p = "del" /\ i = NoFd
      \/ p = "take" /\ i \in DOMAIN sock
  <2>1. CASE free = {}
    BY <1>2, <2>1
  <2>2. CASE free # {}
    <3>1. \A j \in DOMAIN sock : j \in Nat
      BY SockFacts, NetconnAssumption
    <3>2. free \in SUBSET Nat
      BY <1>1, <3>1
    <3>3. Min(free) \in free
      BY <2>2, <3>2, MinIn
    <3> QED BY <1>1, <1>2, <2>2, <3>3
  <2> QED BY <2>1, <2>2
<1>6. i \in 0 .. NumSockets
  BY <1>5, SockFacts, NetconnAssumption DEF NoFd
<1>7. p \in Words
  BY <1>5, WordIn
<1>8. Edited(thr, thr', t, p, thr[t].then, thr[t].ret, thr[t].on, i, thr[t].c, thr[t].got)
  BY <1>3, <1>4, <1>6, <1>7, SetPcFd
<1>e. /\ thr' \in [Threads -> ThreadRecs] /\ (\A u \in Threads \ {t} : thr'[u] = thr[u])
      /\ thr'[t].pc = p /\ thr'[t].fd = i /\ thr'[t].c = thr[t].c /\ thr'[t].ret = thr[t].ret
  BY <1>8 DEF Edited
<1>9. Mine(t)' = Mine(t)
  BY <1>e, <1>3, <1>4, <1>5 DEF Mine
<1>10. OfServer(t, thr[t].c, thr[t].ret)
  BY <1>3, <1>4 DEF ServerCtl
<1>11. ServerCtl(t)'
  BY <1>e, <1>3, <1>5, <1>10 DEF ServerCtl, OfServer, Fetching
<1>12. Busy(t)' /\ Unplaced(t)
  BY <1>3, <1>e, <1>5 DEF Busy, Caller, Fetching, Deleting, Unplaced
<1>13. Ctl(t)'
  BY <1>4, <1>11 DEF Ctl
<1>14. Types'
  BY <1>3, <1>e DEF Types
<1>15. Sound'
  BY <1>3, <1>4, <1>e, <1>9, <1>12, <1>13, QuietStep
<1> QED BY <1>14, <1>15

LEMMA NetconnPeerStep ==
  ASSUME Types, Sound, NEW t \in Servers, NetconnPeer(t)
  PROVE  Types' /\ Sound'
<1>0. t \in Threads
  BY Names
<1>1. PICK c : c = thr[t].got
  OBVIOUS
<1>3. /\ thr[t].pc = "peer" /\ thr[t].pc \in OnlyServers
      /\ conn' = [conn EXCEPT ![c].err = "ok"]
      /\ thr' = [thr EXCEPT ![t].pc = "slot", ![t].c = c, ![t].got = "null", ![t].ret = "spawn"]
      /\ UNCHANGED <<mbox, tcp, sock, tp, www, net, resets>>
  BY <1>1 DEF NetconnPeer, OnlyServers
<1>4. /\ t \notin Workers /\ ServerCtl(t) /\ ~Caller(t) /\ ~Deleting(t)
      /\ thr \in [Threads -> ThreadRecs]
  BY <1>0, <1>3, ServerAt
<1>5. c \in Conns /\ net[c].port = t /\ c \in Netconns
  BY <1>1, <1>3, <1>4, Names DEF ServerCtl
<1>6. "slot" \in Words /\ "spawn" \in Words
  BY WordIn
<1>7. "null" \in Items /\ c \in Netconns \cup {NoConn}
  BY SMTT(40), <1>5, ItemValues
<1>8. Edited(thr, thr', t, "slot", thr[t].then, "spawn", thr[t].on, thr[t].fd, c, "null")
  BY <1>0, <1>3, <1>4, <1>6, <1>7, SetPcCGotRet
<1>e. /\ thr' \in [Threads -> ThreadRecs] /\ (\A u \in Threads \ {t} : thr'[u] = thr[u])
      /\ thr'[t].pc = "slot" /\ thr'[t].c = c /\ thr'[t].ret = "spawn"
  BY <1>8 DEF Edited
<1>9. Mine(t)' = c /\ Mine(t) = c
  BY <1>e, <1>1, <1>3 DEF Mine
<1>11. ServerCtl(t)'
  BY <1>e, <1>3, <1>5 DEF ServerCtl, OfServer, Fetching
<1>12. Busy(t)' /\ Unplaced(t)
  BY <1>3, <1>e DEF Busy, Caller, Fetching, Deleting, Unplaced
<1>13. Ctl(t)'
  BY <1>4, <1>11 DEF Ctl
<1>c. "ok" \in Errs /\ conn \in [Netconns -> ConnRecs]
  BY DEF Errs, Types
<1>d. ConnEdited(conn, conn', c, "ok", conn[c].pcb, conn[c].sem, conn[c].state)
  BY <1>3, <1>5, <1>c, ConnErr
<1>14. Types'
  BY <1>3, <1>e, <1>d DEF Types, ConnEdited
<1>f. /\ \A d \in Netconns : conn'[d].st = conn[d].st /\ conn'[d].pcb = conn[d].pcb
      /\ \A d \in Conns : d # Mine(t)
            => conn'[d].sem = conn[d].sem /\ conn'[d].state = conn[d].state
  BY <1>d, <1>9, Names DEF ConnEdited
<1>15. Sound'
  BY <1>0, <1>3, <1>4, <1>e, <1>9, <1>12, <1>13, <1>f, QuietStep
<1> QED BY <1>14, <1>15

LEMMA AllocTakeStep ==
  ASSUME Types, Sound, NEW t \in Threads, AllocTake(t), fault' = "none"
  PROVE  Types' /\ Sound'
<1>1. PICK i, c : i = thr[t].fd /\ c = thr[t].c
  OBVIOUS
<1>2. /\ thr[t].pc = "take" /\ thr[t].pc \in OnlyServers
      /\ sock' = [sock EXCEPT ![i] = [conn |-> c, last |-> FALSE]]
      /\ sock[i].conn = NoConn
      /\ thr' = [thr EXCEPT ![t].pc = thr[t].ret, ![t].ret = ""]
      /\ UNCHANGED <<mbox, conn, tcp, tp, www, net, resets>>
  BY <1>1 DEF AllocTake, OnlyServers
<1>3. /\ t \in Servers /\ t \notin Workers /\ ServerCtl(t) /\ ~Caller(t) /\ ~Deleting(t)
      /\ thr \in [Threads -> ThreadRecs]
  BY <1>2, ServerAt
<1>4. i \in DOMAIN sock /\ OfServer(t, c, thr[t].ret) /\ thr[t].ret \in {"bind", "spawn"} /\ i # NoFd
  BY <1>1, <1>2, <1>3, SockFacts DEF ServerCtl, OfServer
<1>5. c \in Netconns /\ c # NoConn
  BY <1>4, <1>3, Names DEF OfServer
<1>6. "" \in Words /\ thr[t].ret \in Words
  BY WordIn, ThreadTyped
<1>7. Edited(thr, thr', t, thr[t].ret, thr[t].then, "", thr[t].on, i, c, thr[t].got)
  BY <1>1, <1>2, <1>3, <1>6, SetPcRet
<1>e. /\ thr' \in [Threads -> ThreadRecs] /\ (\A u \in Threads \ {t} : thr'[u] = thr[u])
      /\ thr'[t].pc = thr[t].ret /\ thr'[t].c = c /\ thr'[t].fd = i
  BY <1>7 DEF Edited
<1>8. /\ DOMAIN sock' = DOMAIN sock /\ sock'[i].conn = c
      /\ \A j \in DOMAIN sock : j # i => sock'[j] = sock[j]
  BY <1>2, <1>4
<1>9. \E n \in 2 .. NumSockets : sock' \in [0 .. n - 1 -> SockRecs]
  <2>1. [conn |-> c, last |-> FALSE] \in SockRecs
    BY <1>5 DEF SockRecs
  <2>2. PICK n \in 2 .. NumSockets : sock \in [0 .. n - 1 -> SockRecs]
    BY DEF Types
  <2> QED BY <1>2, <2>1, <2>2
<1>10. Types'
  BY <1>2, <1>e, <1>9 DEF Types
<1>11. Mine(t) = c /\ Mine(t)' = c
  BY <1>e, <1>1, <1>2, <1>3, <1>4 DEF Mine
<1>12. PICK T \in SUBSET Threads : T = {t}
  OBVIOUS
<1>13. KeepThreads(T)
  BY <1>12, <1>2, <1>8, <1>e DEF KeepThreads
<1>14. \A u \in Threads \ T : SameView(u)
  BY <1>13, OthersKeep
<1>15. \A u \in Threads : Mine(u)' = Mine(u)
  BY <1>11, <1>12, <1>14 DEF SameView
<1>16. Places'
  <2>1. Exclusive'
    BY <1>15 DEF Sound, Places, Exclusive
  <2>2. \A d \in Netconns : InTable(d)' <=> InTable(d) \/ d = c
    BY <1>2, <1>4, <1>8, Names DEF InTable
  <2>3. ~InTable(c) /\ conn[c].st = "live"
    <3>1. Unplaced(t)
      BY <1>2 DEF Unplaced
    <3> QED BY <1>3, <1>5, <1>11, <3>1 DEF Sound, Places, Table, Alive
  <2>4. Alive'
    <3>1. \A j \in DOMAIN sock' : sock'[j].conn # NoConn => conn'[sock'[j].conn].st = "live"
      BY <1>2, <1>8, <2>3 DEF Sound, Places, Alive
    <3>2. \A u \in Threads : Mine(u)' # NoConn => conn'[Mine(u)'].st = "live"
      BY <1>2, <1>15 DEF Sound, Places, Alive
    <3> QED BY <1>2, <3>1, <3>2 DEF Sound, Places, Alive
  <2>5. AcceptQueues'
    <3> SUFFICES ASSUME NEW s \in Servers PROVE AcceptOK(s)'
      BY DEF AcceptQueues
    <3>1. AcceptOK(s)
      BY DEF Sound, Places, AcceptQueues
    <3>2. \A d : Waits(s, d) => Waits(s, d)'
      BY <1>2, <1>11, <1>15, <2>2, Names DEF Waits
    <3> QED BY <1>2, <3>1, <3>2 DEF AcceptOK
  <2>6. Table'
    <3>1. \A j, k \in DOMAIN sock' : sock'[j].conn = sock'[k].conn /\ sock'[j].conn # NoConn => j = k
      <4>1. \A j \in DOMAIN sock : sock[j].conn # c
        BY <2>3 DEF InTable
      <4> QED BY <4>1, <1>8 DEF Sound, Places, Table
    <3>2. ASSUME NEW s \in Servers, Unplaced(s)' PROVE ~InTable(Mine(s))'
      <4>1. s # t
        BY <3>2, <1>e, <1>4 DEF Unplaced, Fetching
      <4>2. Unplaced(s) /\ s \in Threads
        BY <3>2, <4>1, <1>12, <1>14, Names DEF SameView
      <4>3. Mine(s) # c
        BY <4>1, <4>2, <1>5, <1>11 DEF Sound, Places, Exclusive
      <4>4. ~InTable(Mine(s))
        BY <4>2 DEF Sound, Places, Table
      <4>5. \A j \in DOMAIN sock' : sock'[j].conn # Mine(s)
        BY <4>3, <4>4, <1>8 DEF InTable
      <4> QED BY <4>2, <4>5, <1>15 DEF InTable
    <3> QED BY <3>1, <3>2 DEF Table
  <2>7. WwwQueue'
    <3>1. \A j : Parked(j) => Parked(j)'
      <4> SUFFICES ASSUME NEW j, Parked(j) PROVE Parked(j)'
        OBVIOUS
      <4>1. j # i /\ j \in DOMAIN sock
        BY <1>2, Names DEF Parked
      <4>2. sock'[j] = sock[j]
        BY <1>8, <4>1
      <4> QED BY <1>2, <1>8, <1>15, <4>1, <4>2 DEF Parked
    <3> QED BY <1>2, <3>1 DEF Sound, Places, WwwQueue
  <2> QED BY <2>1, <2>4, <2>5, <2>6, <2>7 DEF Places
<1>17. ServerCtl(t)'
  BY <1>e, <1>2, <1>4, <1>8, Names DEF ServerCtl, OfServer, Fetching
<1>18. Ctl(t)'
  BY <1>3, <1>17 DEF Ctl
<1>19. Busy(t)'
  BY <1>e, <1>4 DEF Busy, Caller, Fetching, Deleting
<1>20. Sound'
  BY <1>2, <1>3, <1>12, <1>13, <1>16, <1>18, <1>19, QuietSound
<1> QED BY <1>10, <1>20

(* A netconn changes hands: it was somebody's, or in the table of sockets. *)
LEMMA PlacesMoved ==
  ASSUME Types, Sound, UNCHANGED <<sock, net>>, Exclusive', WwwQueue',
         \A c \in Netconns : conn'[c].st = conn[c].st /\ mbox'[Ans(c)].st = mbox[Ans(c)].st,
         \A s \in Servers : mbox'[Accept(s)].q = mbox[Accept(s)].q,
         \A u \in Threads : Mine(u)' # NoConn =>
            (\E v \in Threads : Mine(v) = Mine(u)') \/ InTable(Mine(u)'),
         \A s \in Servers : Unplaced(s)' => Unplaced(s) /\ Mine(s)' = Mine(s)
  PROVE  Places'
<1>1. \A c : InTable(c)' <=> InTable(c)
  BY DEF InTable
<1>c. \A c \in Netconns : conn[c].st = "live" => conn'[c].st = "live"
  OBVIOUS
<1>2. Alive'
  <2>1. ASSUME NEW u \in Threads, Mine(u)' # NoConn PROVE conn'[Mine(u)'].st = "live"
    <3>1. CASE \E v \in Threads : Mine(v) = Mine(u)'
      <4>1. PICK v \in Threads : Mine(v) = Mine(u)'
        BY <3>1
      <4>2. Mine(v) \in Netconns /\ conn[Mine(v)].st = "live"
        BY <2>1, <4>1, MineTyped DEF Sound, Places, Alive
      <4> QED BY <1>c, <4>1, <4>2
    <3>2. CASE InTable(Mine(u)')
      <4>1. PICK i \in DOMAIN sock : sock[i].conn = Mine(u)'
        BY <3>2 DEF InTable
      <4>2. sock[i].conn \in Netconns
        BY <2>1, <4>1, SockFacts DEF SockRecs
      <4>3. conn[sock[i].conn].st = "live"
        BY <2>1, <4>1 DEF Sound, Places, Alive
      <4> QED BY <1>c, <4>1, <4>2, <4>3
    <3> QED BY <2>1, <3>1, <3>2
  <2>2. ASSUME NEW i \in DOMAIN sock, sock[i].conn # NoConn PROVE conn'[sock[i].conn].st = "live"
    <3>1. sock[i].conn \in Netconns
      BY <2>2, SockFacts DEF SockRecs
    <3> QED BY <1>c, <2>2, <3>1 DEF Sound, Places, Alive
  <2>3. \A c \in Netconns : conn'[c].st = "live" => mbox'[Ans(c)].st = "live"
    BY DEF Sound, Places, Alive
  <2> QED BY <2>1, <2>2, <2>3 DEF Alive
<1>3. AcceptQueues'
  <2> SUFFICES ASSUME NEW s \in Servers PROVE AcceptOK(s)'
    BY DEF AcceptQueues
  <2>1. AcceptOK(s)
    BY DEF Sound, Places, AcceptQueues
  <2>2. ASSUME NEW d, Waits(s, d) PROVE Waits(s, d)'
    <3>1. d # NoConn /\ conn'[d].st = "live"
      BY <2>2, <1>c, Names DEF Waits
    <3>2. \A u \in Threads : Mine(u)' # d
      BY <2>2, <3>1 DEF Waits
    <3> QED BY <2>2, <3>1, <3>2, <1>1 DEF Waits
  <2>3. mbox'[Accept(s)].q = mbox[Accept(s)].q
    OBVIOUS
  <2> QED BY <2>1, <2>2, <2>3 DEF AcceptOK
<1>4. Table'
  BY <1>1, Names DEF Sound, Places, Table
<1> QED BY <1>2, <1>3, <1>4 DEF Places

(* The place of a server between two connections. *)
LEMMA ServerAccepts ==
  ASSUME NEW s \in Servers, thr'[s].pc = "accept"
  PROVE  Mine(s)' = NoConn /\ ServerCtl(s)' /\ Busy(s)' /\ ~Unplaced(s)'
<1>1. Mine(s)' = NoConn
  BY DEF Mine
<1>2. ServerCtl(s)'
  BY DEF ServerCtl, Fetching
<1>3. Busy(s)' /\ ~Unplaced(s)'
  BY DEF Busy, Caller, Fetching, Deleting, Unplaced
<1> QED BY <1>1, <1>2, <1>3

LEMMA AtRest ==
  ASSUME NEW p \in Words
  PROVE  /\ Thread(p) \in ThreadRecs /\ Thread(p).pc = p /\ Thread(p).fd = NoFd
         /\ Thread(p).c = NoConn
<1>1. NoFd \in 0 .. NumSockets
  BY NetconnAssumption DEF NoFd
<1>2. "" \in Words
  BY WordIn
<1>3. "null" \in Items /\ Transport \in Boxes /\ NoConn \in Netconns \cup {NoConn} /\ 0 \in Int
  BY ItemValues, BoxNames
<1> QED BY <1>1, <1>2, <1>3 DEF Thread, ThreadRecs

LEMMA SpawnCliStep ==
  ASSUME Types, Sound, SpawnCli, fault' = "none"
  PROVE  Types' /\ Sound'
<1>1. PICK fd, c, s : fd = thr["cli"].fd /\ c = thr["cli"].c /\ s = "cli"
  OBVIOUS
<1>2. /\ thr[s].pc = "spawn" /\ thr[s].pc \in OnlyServers /\ fd # NoFd
      /\ thr' = [thr EXCEPT ![s].pc = "accept", ![c] = [Thread("send") EXCEPT !.fd = fd, !.ret = "recv"]]
      /\ UNCHANGED <<mbox, conn, tcp, sock, tp, www, net, resets>>
  BY <1>1 DEF SpawnCli, FdFault, OnlyServers
<1>3. s \in Servers /\ s \in Threads
  BY <1>1, Names
<1>4. ServerCtl(s) /\ ~Caller(s) /\ ~Deleting(s) /\ thr \in [Threads -> ThreadRecs] /\ s \notin Workers
  BY <1>2, <1>3, ServerAt
<1>5. c \in Conns /\ net[c].port = s /\ fd \in DOMAIN sock /\ sock[fd].conn = c
  BY <1>1, <1>2, <1>4 DEF ServerCtl
<1>6. c \in Threads /\ c \in Workers /\ c # s /\ c # NoConn /\ c \notin Pool /\ c \notin Servers
  BY <1>3, <1>5, Names
<1>7. Mine(s) = c
  BY <1>1, <1>2, <1>3, MineServer
<1>8. thr[c].pc = "off"
  <2>1. ASSUME thr[c].pc # "off" PROVE FALSE
    <3>1. WorkerCtl(c) /\ thr[c].pc # Home(c)
      BY <1>5, <1>6, <2>1, Homes DEF Sound, Control
    <3>2. Mine(c) = c
      BY <1>6, <3>1, MineWorker DEF WorkerCtl
    <3> QED BY <1>3, <1>6, <1>7, <3>2 DEF Sound, Places, Exclusive
  <2> QED BY <2>1
<1>9. [Thread("send") EXCEPT !.fd = fd, !.ret = "recv"] \in ThreadRecs
  <2>1. "send" \in Words /\ "recv" \in Words /\ "" \in Words
    BY WordIn
  <2>2. fd \in 0 .. NumSockets
    BY <1>5, SockFacts
  <2>4. PICK x \in ThreadRecs : x = Thread("send")
    BY <2>1, AtRest
  <2>5. [x EXCEPT !.fd = fd, !.ret = "recv"] \in ThreadRecs
    BY <2>1, <2>2 DEF ThreadRecs
  <2> QED BY <2>4, <2>5
<1>10. PICK r : r = [Thread("send") EXCEPT !.fd = fd, !.ret = "recv"]
  OBVIOUS
<1>11. r \in ThreadRecs /\ r.pc = "send" /\ r.fd = fd /\ r.ret = "recv"
  BY <1>9, <1>10 DEF Thread
<1>12. PICK g : g = [thr EXCEPT ![s].pc = "accept"]
  OBVIOUS
<1>13. Edited(thr, g, s, "accept", thr[s].then, thr[s].ret, thr[s].on, thr[s].fd, thr[s].c, thr[s].got)
  <2>1. "accept" \in Words
    BY WordIn
  <2> QED BY <1>3, <1>4, <1>12, <2>1, SetGoto
<1>14. thr' = [g EXCEPT ![c] = r]
  BY <1>2, <1>10, <1>12
<1>e. /\ thr' \in [Threads -> ThreadRecs] /\ thr'[c] = r /\ thr'[s].pc = "accept"
      /\ \A u \in Threads : u # c /\ u # s => thr'[u] = thr[u]
  BY <1>3, <1>6, <1>11, <1>13, <1>14 DEF Edited
<1>15. Types'
  BY <1>2, <1>e DEF Types
<1>16. PICK T \in SUBSET Threads : T = {s, c}
  BY <1>3, <1>6
<1>17. KeepThreads(T)
  BY <1>2, <1>e, <1>16 DEF KeepThreads
<1>18. \A u \in Threads \ T : SameView(u)
  BY <1>17, OthersKeep
<1>19. Mine(s)' = NoConn /\ ServerCtl(s)' /\ Busy(s)' /\ ~Unplaced(s)'
  BY <1>3, <1>e, ServerAccepts
<1>20. thr'[c].pc = "send" /\ thr'[c].fd = fd /\ thr'[c].ret = "recv" /\ Home(c) = "off"
  BY <1>5, <1>e, <1>11, Homes
<1>21. Mine(c)' = c
  BY <1>2, <1>5, <1>6, <1>20 DEF Mine
<1>22. Exclusive'
  BY <1>3, <1>6, <1>7, <1>16, <1>18, <1>19, <1>21 DEF Sound, Places, Exclusive, SameView
<1>23. \A u \in Threads : Mine(u)' # NoConn => Mine(u)' = c \/ Mine(u)' = Mine(u)
  BY <1>16, <1>18, <1>19, <1>21 DEF SameView
<1>24. \A u \in Threads : Mine(u)' # NoConn => \E v \in Threads : Mine(v) = Mine(u)'
  BY <1>3, <1>7, <1>23
<1>25. WwwQueue'
  <2>1. ASSUME NEW i, Parked(i) PROVE Parked(i)'
    <3>1. sock[i].conn # c /\ sock[i].conn # NoConn
      BY <2>1, <1>3, <1>7, Names DEF Parked
    <3> QED BY <2>1, <3>1, <1>2, <1>23 DEF Parked
  <2> QED BY <1>2, <2>1 DEF Sound, Places, WwwQueue
<1>26. \A u \in Servers : Unplaced(u)' => Unplaced(u) /\ Mine(u)' = Mine(u)
  BY <1>6, <1>16, <1>18, <1>19, Names DEF SameView
<1>27. Places'
  BY <1>2, <1>22, <1>24, <1>25, <1>26, PlacesMoved
<1>28. WorkerCtl(c)'
  <2>1. ~Writing(c)' /\ ~Fetching(c)'
    BY <1>20 DEF Writing, Fetching
  <2> QED BY <2>1, <1>1, <1>2, <1>5, <1>6, <1>20 DEF WorkerCtl
<1>29. Busy(c)' /\ WriterOK(c)'
  BY <1>20 DEF Busy, Caller, Fetching, Deleting, WriterOK, Writing
<1>30. ~Caller(c) /\ ~Deleting(c)
  BY <1>8 DEF Caller, Deleting, Fetching
<1>31. \A u \in T : ~Caller(u) /\ ~Deleting(u) /\ Busy(u)' /\ Ctl(u)' /\ (u \in Workers => WriterOK(u)')
  BY <1>4, <1>6, <1>16, <1>19, <1>28, <1>29, <1>30 DEF Ctl
<1>32. Sound'
  BY <1>2, <1>17, <1>27, <1>31, QuietSound
<1> QED BY <1>15, <1>32

LEMMA QueueWwwStep ==
  ASSUME Types, Sound, QueueWww, fault' = "none"
  PROVE  Types' /\ Sound'
<1>1. PICK fd, c, s : fd = thr["www"].fd /\ c = thr["www"].c /\ s = "www"
  OBVIOUS
<1>2. /\ thr[s].pc = "spawn" /\ thr[s].pc \in OnlyServers /\ fd # NoFd
      /\ Goto(s, "accept") /\ www' = Append(www, fd)
      /\ UNCHANGED <<mbox, conn, tcp, sock, tp, net, resets>>
  BY <1>1 DEF QueueWww, FdFault, OnlyServers
<1>3. s \in Servers /\ s \in Threads
  BY <1>1, Names
<1>4. ServerCtl(s) /\ ~Caller(s) /\ ~Deleting(s) /\ thr \in [Threads -> ThreadRecs] /\ s \notin Workers
  BY <1>2, <1>3, ServerAt
<1>5. c \in Conns /\ net[c].port = s /\ fd \in DOMAIN sock /\ sock[fd].conn = c
  BY <1>1, <1>2, <1>4 DEF ServerCtl
<1>7. Mine(s) = c /\ c # NoConn
  BY <1>1, <1>2, <1>3, <1>5, MineServer, Names
<1>8. "accept" \in Words
  BY WordIn
<1>9. Edited(thr, thr', s, "accept", thr[s].then, thr[s].ret, thr[s].on, thr[s].fd, thr[s].c, thr[s].got)
  BY <1>2, <1>3, <1>8, GotoEffect
<1>e. /\ thr' \in [Threads -> ThreadRecs] /\ thr'[s].pc = "accept"
      /\ \A u \in Threads \ {s} : thr'[u] = thr[u]
  BY <1>9 DEF Edited
<1>10. fd \in 0 .. NumSockets /\ www \in Seq(0 .. NumSockets)
  BY <1>5, SockFacts DEF Types
<1>11. /\ www' \in Seq(0 .. NumSockets)
       /\ \A j \in DOMAIN www : j \in DOMAIN www' /\ www'[j] = www[j]
       /\ \A j \in DOMAIN www' : j \in DOMAIN www \/ j = Len(www) + 1
       /\ www'[Len(www) + 1] = fd
  <2>1. PICK S : S = 0 .. NumSockets
    OBVIOUS
  <2> QED BY <1>2, <1>10, <2>1, AppendFacts
<1>15. Types'
  BY <1>2, <1>e, <1>11 DEF Types
<1>16. PICK T \in SUBSET Threads : T = {s}
  BY <1>3
<1>17. KeepThreads(T)
  BY <1>2, <1>e, <1>16 DEF KeepThreads
<1>18. \A u \in Threads \ T : SameView(u)
  BY <1>17, OthersKeep
<1>19. Mine(s)' = NoConn /\ ServerCtl(s)' /\ Busy(s)' /\ ~Unplaced(s)'
  BY <1>3, <1>e, ServerAccepts
<1>20. \A u \in Threads : Mine(u)' # NoConn => u # s /\ Mine(u)' = Mine(u)
  BY <1>16, <1>18, <1>19 DEF SameView
<1>22. Exclusive'
  BY <1>20 DEF Sound, Places, Exclusive
<1>25. WwwQueue'
  <2>1. ASSUME NEW i, Parked(i) PROVE Parked(i)' /\ i # fd
    <3>1. sock[i].conn # c /\ sock[i].conn # NoConn
      BY <2>1, <1>3, <1>7, Names DEF Parked
    <3> QED BY <2>1, <3>1, <1>2, <1>5, <1>20 DEF Parked
  <2>2. Parked(fd)'
    <3>1. \A u \in Threads : Mine(u)' # c
      BY <1>3, <1>7, <1>20 DEF Sound, Places, Exclusive
    <3> QED BY <1>1, <1>2, <1>5, <3>1 DEF Parked
  <2>3. \A j \in DOMAIN www : Parked(www[j])
    BY DEF Sound, Places, WwwQueue
  <2>4. ASSUME NEW j \in DOMAIN www' PROVE Parked(www[j])'
    <3>1. PICK i : i = www'[j]
      OBVIOUS
    <3>2. Parked(i) \/ i = fd
      BY <1>11, <2>3, <3>1
    <3>3. Parked(i)'
      BY <2>1, <2>2, <3>2
    <3> QED BY <3>1, <3>3
  <2>5. \A i, j \in DOMAIN www' : www'[i] = www'[j] => i = j
    <3>1. \A j \in DOMAIN www : www[j] # fd
      BY <2>1, <2>3
    <3>2. \A i, j \in DOMAIN www : www[i] = www[j] => i = j
      BY DEF Sound, Places, WwwQueue
    <3>3. ASSUME NEW i \in DOMAIN www', NEW j \in DOMAIN www', www'[i] = www'[j] PROVE i = j
      <4>1. PICK n : n = Len(www) + 1
        OBVIOUS
      <4>2. (i \in DOMAIN www \/ i = n) /\ (j \in DOMAIN www \/ j = n) /\ www'[n] = fd
        BY <1>11, <4>1
      <4>3. \A k \in DOMAIN www : www'[k] = www[k]
        BY <1>11
      <4> QED BY <3>1, <3>2, <3>3, <4>2, <4>3
    <3> QED BY <3>3
  <2> QED BY <2>4, <2>5 DEF WwwQueue
<1>26. \A u \in Servers : Unplaced(u)' => Unplaced(u) /\ Mine(u)' = Mine(u)
  BY <1>16, <1>18, <1>19, Names DEF SameView
<1>27. Places'
  BY <1>2, <1>20, <1>22, <1>25, <1>26, PlacesMoved
<1>31. \A u \in T : ~Caller(u) /\ ~Deleting(u) /\ Busy(u)' /\ Ctl(u)' /\ (u \in Workers => WriterOK(u)')
  BY <1>4, <1>16, <1>19 DEF Ctl
<1>32. Sound'
  BY <1>2, <1>17, <1>27, <1>31, QuietSound
<1> QED BY <1>15, <1>32

LEMMA ServeNextStep ==
  ASSUME Types, Sound, NEW p \in Pool, ServeNext(p)
  PROVE  Types' /\ Sound'
<1>1. PICK fd : fd = Head(www)
  OBVIOUS
<1>2. /\ thr[p].pc = "idle" /\ www # << >> /\ www' = Tail(www)
      /\ thr' = [thr EXCEPT ![p].pc = "recv", ![p].fd = fd]
      /\ UNCHANGED <<mbox, conn, tcp, sock, tp, net, resets>>
  BY <1>1 DEF ServeNext
<1>3. p \in Threads /\ p \in Workers /\ p \notin Servers /\ p \notin Conns /\ Home(p) = "idle"
      /\ thr \in [Threads -> ThreadRecs]
  BY Names, Homes DEF Types
<1>4. /\ Tail(www) \in Seq(0 .. NumSockets) /\ 1 \in DOMAIN www /\ fd = www[1] /\ fd \in 0 .. NumSockets
      /\ \A i \in DOMAIN Tail(www) : i + 1 \in DOMAIN www /\ Tail(www)[i] = www[i + 1] /\ i + 1 # 1
      /\ \A i, j \in DOMAIN Tail(www) : i + 1 = j + 1 => i = j
  <2>1. PICK S : S = 0 .. NumSockets
    OBVIOUS
  <2>2. www \in Seq(S)
    BY <2>1 DEF Types
  <2> QED BY <1>1, <1>2, <2>1, <2>2, TailFacts
<1>5. PICK c : c = sock[fd].conn
  OBVIOUS
<1>6. Parked(fd) /\ \A j \in DOMAIN www : Parked(www[j]) /\ (www[j] = fd => j = 1)
  BY <1>4 DEF Sound, Places, WwwQueue
<1>7. fd \in DOMAIN sock /\ c \in Conns /\ net[c].port = "www" /\ (\A u \in Threads : Mine(u) # c)
      /\ c # NoConn /\ InTable(c)
  BY <1>5, <1>6, Names DEF Parked, InTable
<1>8. "recv" \in Words
  BY WordIn
<1>9. Edited(thr, thr', p, "recv", thr[p].then, thr[p].ret, thr[p].on, fd, thr[p].c, thr[p].got)
  BY <1>2, <1>3, <1>4, <1>8, SetPcFd
<1>e. /\ thr' \in [Threads -> ThreadRecs] /\ thr'[p].pc = "recv" /\ thr'[p].fd = fd
      /\ \A u \in Threads \ {p} : thr'[u] = thr[u]
  BY <1>9 DEF Edited
<1>15. Types'
  BY <1>2, <1>4, <1>e DEF Types
<1>16. PICK T \in SUBSET Threads : T = {p}
  BY <1>3
<1>17. KeepThreads(T)
  BY <1>2, <1>e, <1>16 DEF KeepThreads
<1>18. \A u \in Threads \ T : SameView(u)
  BY <1>17, OthersKeep
<1>19. Mine(p)' = c
  BY <1>2, <1>3, <1>5, <1>e DEF Mine
<1>20. \A u \in Threads : u # p => Mine(u)' = Mine(u)
  BY <1>16, <1>18 DEF SameView
<1>22. Exclusive'
  BY <1>7, <1>19, <1>20 DEF Sound, Places, Exclusive
<1>25. WwwQueue'
  <2>1. ASSUME NEW i, Parked(i), i # fd PROVE Parked(i)'
    <3>1. sock[i].conn # c
      BY <2>1, <1>5, <1>7 DEF Sound, Places, Table, Parked
    <3> QED BY <2>1, <3>1, <1>2, <1>19, <1>20 DEF Parked
  <2>2. ASSUME NEW j \in DOMAIN www' PROVE Parked(www[j])'
    <3>1. j + 1 \in DOMAIN www /\ www'[j] = www[j + 1] /\ j + 1 # 1
      BY <1>2, <1>4
    <3>2. Parked(www[j + 1]) /\ www[j + 1] # fd
      BY <1>6, <3>1
    <3>3. PICK i : i = www'[j]
      OBVIOUS
    <3>4. Parked(i)'
      BY <2>1, <3>1, <3>2, <3>3
    <3> QED BY <3>3, <3>4
  <2>3. \A i, j \in DOMAIN www' : www'[i] = www'[j] => i = j
    <3>1. \A i, j \in DOMAIN www : www[i] = www[j] => i = j
      BY DEF Sound, Places, WwwQueue
    <3>2. ASSUME NEW i \in DOMAIN www', NEW j \in DOMAIN www', www'[i] = www'[j] PROVE i = j
      <4>1. /\ i + 1 \in DOMAIN www /\ j + 1 \in DOMAIN www
            /\ www[i + 1] = www[j + 1] /\ (i + 1 = j + 1 => i = j)
        BY <1>2, <1>4, <3>2
      <4> QED BY <3>1, <4>1
    <3> QED BY <3>2
  <2> QED BY <2>2, <2>3 DEF WwwQueue
<1>26. \A u \in Servers : Unplaced(u)' => Unplaced(u) /\ Mine(u)' = Mine(u)
  BY <1>3, <1>16, <1>18, Names DEF SameView
<1>27. Places'
  <2>1. \A u \in Threads : Mine(u)' # NoConn =>
            (\E v \in Threads : Mine(v) = Mine(u)') \/ InTable(Mine(u)')
    BY <1>7, <1>19, <1>20
  <2> QED BY <1>2, <1>22, <1>25, <1>26, <2>1, PlacesMoved
<1>28. WorkerCtl(p)'
  <2>1. ~Writing(p)' /\ ~Fetching(p)'
    BY <1>e DEF Writing, Fetching
  <2> QED BY <2>1, <1>2, <1>3, <1>5, <1>7, <1>e DEF WorkerCtl
<1>29. Busy(p)' /\ WriterOK(p)'
  BY <1>e DEF Busy, Caller, Fetching, Deleting, WriterOK, Writing
<1>30. ~Caller(p) /\ ~Deleting(p)
  BY <1>2 DEF Caller, Deleting, Fetching
<1>31. \A u \in T : ~Caller(u) /\ ~Deleting(u) /\ Busy(u)' /\ Ctl(u)' /\ (u \in Workers => WriterOK(u)')
  BY <1>3, <1>16, <1>28, <1>29, <1>30 DEF Ctl
<1>32. Sound'
  BY <1>2, <1>17, <1>27, <1>31, QuietSound
<1> QED BY <1>15, <1>32

-----------------------------------------------------------------------------
(* The mailboxes of a thread: nobody else fetches from them.               *)

LEMMA OwnServer ==
  ASSUME Types, Sound, NEW u \in Threads, Mine(u) \in Servers
  PROVE  Mine(u) = u /\ u \in Servers
<1>1. CASE u \in Servers
  <2>1. ServerCtl(u)
    BY <1>1 DEF Sound, Control
  <2>2. Mine(u) # NoConn /\ Mine(u) \notin Conns
    BY Names
  <2>3. CASE Fetching(u)
    <3>1. Mine(u) = thr[u].c
      BY <1>1, <2>3 DEF Mine, Fetching
    <3> QED BY <1>1, <2>1, <2>2, <2>3, <3>1 DEF ServerCtl, OfServer
  <2>4. CASE thr[u].pc \in {"slot", "take", "del", "drain", "free"}
    <3>1. Mine(u) = thr[u].c
      BY <1>1, <2>4 DEF Mine
    <3> QED BY <1>1, <2>1, <2>2, <2>4, <3>1 DEF ServerCtl, OfServer
  <2>5. CASE thr[u].pc \in {"socket", "accept", "peer", "spawn"}
    BY <1>1, <2>1, <2>2, <2>5 DEF ServerCtl, Mine
  <2>6. CASE thr[u].pc \in {"bind", "bound", "listen", "stop"}
    BY <1>1, <2>1, <2>2, <2>6 DEF ServerCtl, Mine
  <2> QED BY <2>1, <2>3, <2>4, <2>5, <2>6 DEF ServerCtl, Fetching
<1>2. CASE u \in Workers
  BY <1>2, MineWorker, Names DEF Sound, Control, WorkerCtl
<1> QED BY <1>1, <1>2, Names

LEMMA FetchBox ==
  ASSUME Types, Sound, NEW t \in Threads, Fetching(t)
  PROVE  \/ /\ thr[t].then = "peer" /\ t \in Servers /\ thr[t].on = Accept(t) /\ Mine(t) = NoConn
            /\ ~Caller(t)
         \/ /\ thr[t].then = "taken" /\ t \in Workers /\ thr[t].c = Mine(t) /\ Mine(t) \in Conns
            /\ thr[t].on = Recv(Mine(t)) /\ ~Caller(t)
         \/ /\ Caller(t) /\ thr[t].c = Mine(t) /\ Mine(t) \in Netconns /\ thr[t].on = Ans(Mine(t))
<1>1. CASE t \in Servers
  <2>1. ServerCtl(t) /\ Mine(t) = thr[t].c
    BY <1>1 DEF Sound, Control, Mine, Fetching
  <2> QED BY <1>1, <2>1, Names DEF ServerCtl, OfServer, Caller
<1>2. CASE t \in Workers
  <2>1. WorkerCtl(t) /\ thr[t].pc # Home(t)
    BY <1>2, Homes DEF Sound, Control, Fetching
  <2>2. thr[t].pc \notin {"recv", "send", "close"}
    BY DEF Fetching
  <2>3. Mine(t) = sock[thr[t].fd].conn /\ thr[t].c = Mine(t) /\ Mine(t) \in Conns
    BY <1>2, <2>1, <2>2, MineWorker DEF WorkerCtl
  <2> QED BY <1>2, <2>1, <2>3, Names DEF WorkerCtl, Caller
<1> QED BY <1>1, <1>2, Names

LEMMA CallersMine ==
  ASSUME Types, Sound, NEW t \in Threads, NEW c \in Netconns, CallerOf(t, c)
  PROVE  Mine(t) = c /\ thr[t].on = Ans(c)
<1>1. Fetching(t) /\ Caller(t) /\ thr[t].c = c
  BY DEF CallerOf, Caller
<1> QED BY <1>1, FetchBox

LEMMA DeletersMine ==
  ASSUME Types, Sound, NEW t \in Threads, thr[t].pc \in {"taken", "received", "del", "drain", "free"}
  PROVE  thr[t].c = Mine(t) /\ Mine(t) \in Netconns
<1>1. CASE t \in Servers
  <2>1. ServerCtl(t) /\ Mine(t) = thr[t].c
    BY <1>1 DEF Sound, Control, Mine
  <2> QED BY <1>1, <2>1, Names DEF ServerCtl, OfServer
<1>2. CASE t \in Workers
  <2>1. WorkerCtl(t) /\ thr[t].pc # Home(t)
    BY <1>2, Homes DEF Sound, Control
  <2> QED BY <1>2, <2>1, MineWorker, Names DEF WorkerCtl
<1> QED BY <1>1, <1>2, Names

Own(t) == {Ans(Mine(t)), Recv(Mine(t))} \cup (IF t \in Servers THEN {Accept(t), Ans(t)} ELSE {})

LEMMA OwnBox ==
  ASSUME Types, Sound, NEW t \in Threads, NEW u \in Threads, u # t, Fetching(u)
  PROVE  thr[u].on \in Boxes \ Own(t)
<1>1. thr[u].on \in Boxes
  BY ThreadTyped
<1>2. Mine(t) \in Netconns \cup {NoConn}
  BY MineTyped
<1>3. CASE u \in Servers /\ thr[u].on = Accept(u)
  <2>1. thr[u].on # Ans(Mine(t)) /\ thr[u].on # Recv(Mine(t))
    BY <1>3 DEF Accept, Ans, Recv
  <2>2. t \in Servers => thr[u].on # Accept(t) /\ thr[u].on # Ans(t)
    BY <1>3 DEF Accept, Ans, Recv
  <2> QED BY <1>1, <2>1, <2>2 DEF Own
<1>4. CASE Mine(u) \in Netconns /\ thr[u].on \in {Ans(Mine(u)), Recv(Mine(u))}
  <2>1. Mine(u) # Mine(t)
    BY <1>4, Names DEF Sound, Places, Exclusive
  <2>2. t \in Servers => Mine(u) # t
    BY OwnServer
  <2>3. thr[u].on # Ans(Mine(t)) /\ thr[u].on # Recv(Mine(t))
    BY <1>4, <2>1 DEF Ans, Recv
  <2>4. t \in Servers => thr[u].on # Accept(t) /\ thr[u].on # Ans(t)
    BY <1>4, <2>2 DEF Accept, Ans, Recv
  <2> QED BY <1>1, <2>3, <2>4 DEF Own
<1> QED BY <1>3, <1>4, FetchBox, Names

(* A step of one thread that touches no mailbox but its own and the transport thread's. *)
LEMMA LocalRest ==
  ASSUME Types, Sound, NEW t \in Threads, KeepThreads({t}),
         UNCHANGED <<tp, tcp, net, resets>>,
         \A b \in Boxes \ (Own(t) \cup {Transport}) : mbox'[b] = mbox[b],
         \A d \in Conns : conn'[d].pcb = conn[d].pcb,
         \A d \in Conns : \/ conn'[d].st = conn[d].st
                          \/ conn[d].st # "none" /\ conn'[d].st = "freed" /\ ~tcp[d].cb,
         \A d \in Conns : d # Mine(t) => conn'[d].sem = conn[d].sem /\ conn'[d].state = conn[d].state,
         Ctl(t)', t \in Workers => WriterOK(t)',
         Deleting(t) => (Deleting(t)' /\ Mine(t)' = Mine(t)) \/ conn'[Mine(t)].st = "freed",
         thr'[t].pc \in {"drain", "free"} /\ thr'[t].c \in Conns => ~tcp[thr'[t].c].cb,
         \A d \in Conns : d = Mine(t) => ReadOK(d)',
         thr'[t].pc = "taken" /\ thr'[t].got = "null"
            => tcp[thr'[t].c].gotfin \/ thr'[t].c \in resets,
         thr'[t].pc = "asleep" /\ mbox'[thr'[t].on].q # << >> => mbox'[thr'[t].on].mail
  PROVE  /\ Control' /\ Callbacks' /\ Reading' /\ Writers'
         /\ \A u \in Threads : thr'[u].pc = "asleep" /\ mbox'[thr'[u].on].q # << >>
                                 => mbox'[thr'[u].on].mail
<1>T. PICK T \in SUBSET Threads : T = {t}
  OBVIOUS
<1>K. KeepThreads(T)
  BY <1>T
<1>0. \A u \in Threads : u # t => SameView(u) /\ Ctl(u)'
  BY <1>T, <1>K, OthersKeep
<1>1. Control'
  <2>1. \A u \in Threads : Ctl(u)'
    BY <1>0
  <2> QED BY <2>1, Names DEF Control, Ctl
<1>2. Callbacks'
  <2> SUFFICES ASSUME NEW c \in Conns
               PROVE  /\ tcp'[c].cb => conn'[c].st = "live"
                      /\ conn'[c].st = "none" => c \notin resets'
                      /\ c \in resets' => ~tcp'[c].cb /\ conn'[c].pcb = "null"
                      /\ conn'[c].st = "live" /\ c \notin resets' =>
                           /\ conn'[c].pcb = "open"
                           /\ tcp'[c].cb \/ \E u \in Threads : Mine(u)' = c /\ Deleting(u)'
                      /\ \A u \in Threads : thr'[u].pc \in {"drain", "free"} /\ thr'[u].c = c => ~tcp'[c].cb
    BY DEF Callbacks
  <2>0. /\ tcp[c].cb => conn[c].st = "live"
        /\ conn[c].st = "none" => c \notin resets
        /\ c \in resets => ~tcp[c].cb /\ conn[c].pcb = "null"
        /\ conn[c].st = "live" /\ c \notin resets =>
             /\ conn[c].pcb = "open"
             /\ tcp[c].cb \/ \E u \in Threads : Mine(u) = c /\ Deleting(u)
        /\ \A u \in Threads : thr[u].pc \in {"drain", "free"} /\ thr[u].c = c => ~tcp[c].cb
    BY DEF Sound, Callbacks
  <2>1. ASSUME NEW u \in Threads, Mine(u) = c, Deleting(u), conn'[c].st = "live"
        PROVE  Mine(u)' = c /\ Deleting(u)'
    <3>1. CASE u = t
      BY <2>1, <3>1
    <3>2. CASE u # t
      BY <2>1, <3>2, <1>0 DEF SameView
    <3> QED BY <3>1, <3>2
  <2>2. \A u \in Threads : thr'[u].pc \in {"drain", "free"} /\ thr'[u].c = c => ~tcp[c].cb
    BY <1>0, <2>0 DEF SameView
  <2>3. conn'[c].st = "live" => conn[c].st = "live"
    OBVIOUS
  <2>4. conn'[c].st = "live" /\ c \notin resets' =>
          tcp'[c].cb \/ \E u \in Threads : Mine(u)' = c /\ Deleting(u)'
    BY <2>0, <2>1, <2>3
  <2> QED BY <2>0, <2>2, <2>3, <2>4
<1>3. Reading'
  <2>1. ASSUME NEW c \in Conns PROVE ReadOK(c)'
    <3>1. CASE c = Mine(t)
      BY <3>1
    <3>2. CASE c # Mine(t)
      <4>1. Recv(c) \in Boxes \ (Own(t) \cup {Transport})
        BY <3>2, Names, BoxNames DEF Own, Recv, Ans, Accept
      <4> QED BY <4>1 DEF Sound, Reading, ReadOK
    <3> QED BY <3>1, <3>2
  <2>2. \A u \in Threads : thr'[u].pc = "taken" /\ thr'[u].got = "null"
                          => tcp'[thr'[u].c].gotfin \/ thr'[u].c \in resets'
    BY <1>0 DEF SameView, Sound, Reading
  <2> QED BY <2>1, <2>2 DEF Reading
<1>4. Writers'
  <2>1. \A c \in Conns : (\A u \in T : c # Mine(u))
            => conn'[c].sem = conn[c].sem /\ conn'[c].state = conn[c].state
    BY <1>T
  <2>2. \A u \in Workers : u \notin T => WriterOK(u)'
    BY <1>K, <2>1, OtherWriters
  <2> QED BY <1>T, <2>2 DEF Writers
<1>5. ASSUME NEW u \in Threads, thr'[u].pc = "asleep", mbox'[thr'[u].on].q # << >>
      PROVE  mbox'[thr'[u].on].mail
  <2>1. CASE u = t
    BY <1>5, <2>1
  <2>2. CASE u # t
    <3>1. thr'[u] = thr[u] /\ Fetching(u)
      BY <1>0, <1>5, <2>2 DEF SameView, Fetching
    <3>2. thr[u].on \in Boxes \ Own(t)
      BY <2>2, <3>1, OwnBox
    <3>3. thr[u].on # Transport
      BY <3>1, FetchBox, BoxNames, Names
    <3> QED BY <1>5, <3>1, <3>2, <3>3 DEF Sound, Mail
  <2> QED BY <2>1, <2>2
<1> QED BY <1>1, <1>2, <1>3, <1>4, <1>5

LEMMA AnsweredKeep ==
  ASSUME NEW c, Answered(c), UNCHANGED <<tp, resets>>, Q' = Q,
         mbox'[Ans(c)].q = mbox[Ans(c)].q,
         c \in Conns => (tcp'[c].cb => tcp[c].cb),
         \A u \in Threads : (CallerOf(u, c)' <=> CallerOf(u, c))
                             /\ (CallerOf(u, c) => thr'[u].then = thr[u].then)
  PROVE  Answered(c)'
<1>1. (Asked(c)' <=> Asked(c)) /\ (Hand(c)' <=> Hand(c)) /\ (Told(c)' <=> Told(c))
      /\ \A i : ReqAt(i, c)' <=> ReqAt(i, c)
  BY DEF Asked, Hand, Told, ReqAt
<1> QED BY <1>1 DEF Answered

(* One that posts nothing to the transport thread. *)
LEMMA LocalSound ==
  ASSUME Types, Sound, NEW t \in Threads, KeepThreads({t}),
         UNCHANGED <<tp, tcp, net, resets>>,
         \A b \in Boxes \ Own(t) : mbox'[b] = mbox[b],
         \A d \in Conns : conn'[d].pcb = conn[d].pcb,
         \A d \in Conns : \/ conn'[d].st = conn[d].st
                          \/ conn[d].st # "none" /\ conn'[d].st = "freed" /\ ~tcp[d].cb,
         \A d \in Conns : d # Mine(t) => conn'[d].sem = conn[d].sem /\ conn'[d].state = conn[d].state,
         Ctl(t)', t \in Workers => WriterOK(t)',
         Deleting(t) => (Deleting(t)' /\ Mine(t)' = Mine(t)) \/ conn'[Mine(t)].st = "freed",
         thr'[t].pc \in {"drain", "free"} /\ thr'[t].c \in Conns => ~tcp[thr'[t].c].cb,
         \A d \in Conns : d = Mine(t) => ReadOK(d)',
         thr'[t].pc = "taken" /\ thr'[t].got = "null"
            => tcp[thr'[t].c].gotfin \/ thr'[t].c \in resets,
         thr'[t].pc = "asleep" /\ mbox'[thr'[t].on].q # << >> => mbox'[thr'[t].on].mail,
         \A s \in Servers : /\ s # t => conn'[s] = conn[s]
                            /\ conn'[s].pcb = "listen" => conn[s].pcb = "listen"
                            /\ mbox'[Accept(s)].st = mbox[Accept(s)].st,
         Caller(t)' => thr'[t].c = Mine(t),
         \A d \in Netconns : d = Mine(t) \/ mbox'[Ans(d)].q # mbox[Ans(d)].q => Answered(d)',
         Places'
  PROVE  Sound'
<1>1. /\ Control' /\ Callbacks' /\ Reading' /\ Writers'
      /\ \A u \in Threads : thr'[u].pc = "asleep" /\ mbox'[thr'[u].on].q # << >>
                              => mbox'[thr'[u].on].mail
  BY LocalRest
<1>t. mbox'[Transport] = mbox[Transport]
  <2>1. Mine(t) \in Netconns \cup {NoConn}
    BY MineTyped
  <2>2. Transport \in Boxes \ Own(t)
    BY BoxNames DEF Own, Transport, Ans, Recv, Accept
  <2> QED BY <2>2
<1>q. Q' = Q
  BY <1>t DEF Q
<1>2. SynOnce'
  <2>1. \A c \in Conns : conn[c].st = "none" => conn'[c].st = "none"
    OBVIOUS
  <2>2. \A c \in Conns : (SynInHand(c)' <=> SynInHand(c)) /\ \A i : SynAt(i, c)' <=> SynAt(i, c)
    BY <1>q DEF SynInHand, SynAt
  <2> QED BY <1>q, <2>1, <2>2 DEF Sound, SynOnce
<1>3. Messages'
  <2>1. \A m \in Msgs : ApiOK(m) => ApiOK(m)'
    BY DEF ApiOK
  <2>2. \A i \in DOMAIN Q : Q[i] \in Msgs /\ ApiOK(Q[i])
    BY DEF Sound, Messages
  <2>3. \A i \in DOMAIN Q' : Q'[i] \in Msgs /\ ApiOK(Q[i])'
    BY <1>q, <2>1, <2>2
  <2>4. tp'.pc = "run" => tp'.m \in Msgs /\ ApiOK(tp.m)'
    BY <2>1 DEF Sound, Messages
  <2> QED BY <1>t, <2>3, <2>4 DEF Sound, Messages
<1>4. Answers'
  <2> SUFFICES ASSUME NEW c \in Netconns PROVE Answered(c)'
    BY DEF Answers
  <2>1. CASE c = Mine(t) \/ mbox'[Ans(c)].q # mbox[Ans(c)].q
    BY <2>1
  <2>3. CASE c # Mine(t) /\ mbox'[Ans(c)].q = mbox[Ans(c)].q
    <3>2. ~CallerOf(t, c) /\ ~CallerOf(t, c)'
      BY <2>3, CallersMine DEF CallerOf
    <3>3. \A u \in Threads : u # t => SameView(u)
      <4>1. PICK T \in SUBSET Threads : T = {t}
        OBVIOUS
      <4> QED BY <4>1, OthersKeep
    <3>4. \A u \in Threads : (CallerOf(u, c)' <=> CallerOf(u, c))
                             /\ (CallerOf(u, c) => thr'[u].then = thr[u].then)
      BY <3>2, <3>3 DEF SameView, CallerOf
    <3>5. Answered(c)
      BY DEF Sound, Answers
    <3> QED BY <1>q, <2>3, <3>4, <3>5, AnsweredKeep
  <2> QED BY <2>1, <2>3
<1>5. Mail'
  BY <1>1, <1>t DEF Sound, Mail
<1> QED BY <1>1, <1>2, <1>3, <1>4, <1>5 DEF Sound

(* One after which everybody has what he had, and every answer is where it was. *)
LEMMA LocalStay ==
  ASSUME Types, Sound, NEW t \in Threads, \A u \in Threads \ {t} : thr'[u] = thr[u],
         UNCHANGED <<conn, tcp, sock, tp, www, net, resets>>,
         \A b \in Boxes \ Own(t) : mbox'[b] = mbox[b],
         \A d \in Netconns : /\ mbox'[Ans(d)].st = mbox[Ans(d)].st /\ mbox'[Ans(d)].q = mbox[Ans(d)].q
                             /\ mbox'[Accept(d)].st = mbox[Accept(d)].st
                             /\ mbox'[Accept(d)].q = mbox[Accept(d)].q,
         Mine(t)' = Mine(t), t \in Servers => (Unplaced(t)' => Unplaced(t)),
         Ctl(t)', t \in Workers => WriterOK(t)',
         Caller(t)' <=> Caller(t), Caller(t) => thr'[t].c = thr[t].c /\ thr'[t].then = thr[t].then,
         Deleting(t) => Deleting(t)',
         thr'[t].pc \in {"drain", "free"} /\ thr'[t].c \in Conns => ~tcp[thr'[t].c].cb,
         \A d \in Conns : d = Mine(t) => ReadOK(d)',
         thr'[t].pc = "taken" /\ thr'[t].got = "null"
            => tcp[thr'[t].c].gotfin \/ thr'[t].c \in resets,
         thr'[t].pc = "asleep" /\ mbox'[thr'[t].on].q # << >> => mbox'[thr'[t].on].mail
  PROVE  Sound'
<1>1. PICK T \in SUBSET Threads : T = {t}
  OBVIOUS
<1>2. KeepThreads({t})
  BY Names DEF KeepThreads
<1>3. \A u \in Threads : u # t => SameView(u)
  BY <1>1, <1>2, OthersKeep
<1>4. Places'
  <2>1. SamePlaces
    BY <1>3, Names DEF SamePlaces, SameView
  <2> QED BY <2>1, PlacesKeep
<1>t. mbox'[Transport] = mbox[Transport]
  <2>1. Mine(t) \in Netconns \cup {NoConn}
    BY MineTyped
  <2>2. Transport \in Boxes \ Own(t)
    BY BoxNames DEF Own, Transport, Ans, Recv, Accept
  <2> QED BY <2>2
<1>5. ASSUME NEW c \in Netconns PROVE Answered(c)'
  <2>1. \A u \in Threads : (CallerOf(u, c)' <=> CallerOf(u, c))
                             /\ (CallerOf(u, c) => thr'[u].then = thr[u].then)
    BY <1>3 DEF SameView, CallerOf
  <2>2. Answered(c) /\ Q' = Q
    BY <1>t DEF Sound, Answers, Q
  <2> QED BY <2>1, <2>2, AnsweredKeep
<1>6. Caller(t)' => thr'[t].c = Mine(t)
  BY FetchBox DEF Caller
<1>7. \A s \in Servers : /\ s # t => conn'[s] = conn[s]
                         /\ conn'[s].pcb = "listen" => conn[s].pcb = "listen"
                         /\ mbox'[Accept(s)].st = mbox[Accept(s)].st
  BY Names
<1>a. \A d \in Conns : conn'[d].pcb = conn[d].pcb
  OBVIOUS
<1>b. \A d \in Conns : \/ conn'[d].st = conn[d].st
                       \/ conn[d].st # "none" /\ conn'[d].st = "freed" /\ ~tcp[d].cb
  OBVIOUS
<1>c. \A d \in Conns : d # Mine(t) => conn'[d].sem = conn[d].sem /\ conn'[d].state = conn[d].state
  OBVIOUS
<1>9. Deleting(t) => (Deleting(t)' /\ Mine(t)' = Mine(t)) \/ conn'[Mine(t)].st = "freed"
  OBVIOUS
<1>10. \A d \in Netconns : d = Mine(t) \/ mbox'[Ans(d)].q # mbox[Ans(d)].q => Answered(d)'
  BY <1>5
<1>11. UNCHANGED <<tp, tcp, net, resets>>
  OBVIOUS
<1> QED BY <1>2, <1>4, <1>6, <1>7, <1>a, <1>b, <1>c, <1>9, <1>10, <1>11, LocalSound

(* Between the two tests of a fetch. *)
LEMMA FetchMoves ==
  ASSUME Types, Sound, NEW t \in Threads, Fetching(t), NEW p \in {"fetch", "asleep"},
         Edited(thr, thr', t, p, thr[t].then, thr[t].ret, thr[t].on, thr[t].fd, thr[t].c, thr[t].got),
         UNCHANGED <<conn, tcp, sock, tp, www, net, resets>>,
         mbox' \in [Boxes -> BoxRecs],
         \A b \in Boxes : /\ mbox'[b].st = mbox[b].st /\ mbox'[b].q = mbox[b].q
                          /\ b # thr[t].on => mbox'[b] = mbox[b],
         p = "asleep" /\ mbox'[thr[t].on].q # << >> => mbox'[thr[t].on].mail
  PROVE  Types' /\ Sound'
<1>e. /\ thr' \in [Threads -> ThreadRecs] /\ (\A u \in Threads \ {t} : thr'[u] = thr[u])
      /\ thr'[t].pc = p /\ thr'[t].then = thr[t].then /\ thr'[t].ret = thr[t].ret
      /\ thr'[t].on = thr[t].on /\ thr'[t].fd = thr[t].fd /\ thr'[t].c = thr[t].c
  BY DEF Edited
<1>1. Types'
  BY <1>e DEF Types
<1>2. Fetching(t)' /\ (Caller(t)' <=> Caller(t)) /\ (Deleting(t)' <=> Deleting(t))
      /\ (Writing(t)' <=> Writing(t)) /\ (Unplaced(t)' <=> Unplaced(t))
  BY <1>e DEF Fetching, Caller, Deleting, Writing, Unplaced
<1>3. Mine(t)' = Mine(t) /\ Ctl(t)'
  <2>1. CASE t \in Servers
    <3>1. ServerCtl(t) /\ t \notin Workers
      BY <2>1, Names DEF Sound, Control
    <3>2. Mine(t)' = Mine(t)
      BY <1>e, <2>1 DEF Mine, Fetching
    <3>3. ServerCtl(t)'
      BY <1>e, <1>2, <3>1 DEF ServerCtl, OfServer
    <3> QED BY <3>1, <3>2, <3>3 DEF Ctl
  <2>2. CASE t \in Workers
    <3>1. WorkerCtl(t) /\ t \notin Servers /\ thr[t].pc # Home(t) /\ p # Home(t)
      BY <2>2, Names, Homes DEF Sound, Control, Fetching
    <3>2. Mine(t)' = Mine(t)
      BY <1>e, <3>1 DEF Mine
    <3>p. thr[t].pc \notin {"recv", "send", "close"} /\ p \notin {"recv", "send", "close"}
          /\ p \notin {"del", "drain", "free"}
      BY DEF Fetching
    <3>3. WorkerCtl(t)'
      BY <1>e, <1>2, <3>1, <3>p DEF WorkerCtl
    <3> QED BY <3>1, <3>2, <3>3 DEF Ctl
  <2> QED BY <2>1, <2>2, Names
<1>4. t \in Workers => WriterOK(t)'
  <2>1. ASSUME t \in Workers PROVE WriterOK(t)'
    <3>1. WriterOK(t) /\ thr[t].pc \notin {"loop", "woken", "chunk"}
      BY <2>1 DEF Sound, Writers, Fetching
    <3> QED BY <1>e, <1>2, <3>1 DEF WriterOK
  <2> QED BY <2>1
<1>5. \A b \in Boxes \ Own(t) : mbox'[b] = mbox[b]
  <2>1. thr[t].on \in Own(t)
    BY FetchBox DEF Own
  <2> QED BY <2>1
<1>6. \A d \in Conns : ReadOK(d)'
  BY BoxNames, Names DEF Sound, Reading, ReadOK
<1>7. \A d \in Netconns : /\ mbox'[Ans(d)].st = mbox[Ans(d)].st /\ mbox'[Ans(d)].q = mbox[Ans(d)].q
                         /\ mbox'[Accept(d)].st = mbox[Accept(d)].st
                         /\ mbox'[Accept(d)].q = mbox[Accept(d)].q
  BY BoxNames
<1>8. /\ ~(thr'[t].pc \in {"drain", "free"}) /\ thr'[t].pc # "taken"
      /\ Caller(t) => thr'[t].c = thr[t].c /\ thr'[t].then = thr[t].then
      /\ thr'[t].pc = "asleep" /\ mbox'[thr'[t].on].q # << >> => mbox'[thr'[t].on].mail
  BY <1>e
<1>9. Sound'
  BY <1>e, <1>2, <1>3, <1>4, <1>5, <1>6, <1>7, <1>8, LocalStay
<1> QED BY <1>1, <1>9

(* A thread may let go of its netconn. *)
LEMMA PlacesLeft ==
  ASSUME Types, Sound, UNCHANGED <<sock, net, www>>,
         \A c \in Netconns : conn'[c].st = conn[c].st /\ mbox'[Ans(c)].st = mbox[Ans(c)].st,
         \A s \in Servers : mbox'[Accept(s)].q = mbox[Accept(s)].q,
         \A u \in Threads : Mine(u)' \in {Mine(u), NoConn},
         \A s \in Servers : Unplaced(s)' => Unplaced(s) /\ Mine(s)' = Mine(s)
  PROVE  Places'
<1>1. Exclusive'
  BY DEF Sound, Places, Exclusive
<1>2. WwwQueue'
  <2>1. \A i : Parked(i) => Parked(i)'
    BY Names DEF Parked
  <2> QED BY <2>1 DEF Sound, Places, WwwQueue
<1>3. \A u \in Threads : Mine(u)' # NoConn =>
            (\E v \in Threads : Mine(v) = Mine(u)') \/ InTable(Mine(u)')
  OBVIOUS
<1> QED BY <1>1, <1>2, <1>3, PlacesMoved

LEMMA TakeFrom ==
  ASSUME Types, NEW b \in Boxes, mbox[b].q # << >>, mbox' = [mbox EXCEPT ![b].q = Tail(@)]
  PROVE  /\ mbox' \in [Boxes -> BoxRecs] /\ mbox'[b].st = mbox[b].st /\ mbox'[b].mail = mbox[b].mail
         /\ mbox'[b].q = Tail(mbox[b].q) /\ \A a \in Boxes : a # b => mbox'[a] = mbox[a]
         /\ mbox[b].q \in Seq(Items)
<1>1. mbox \in [Boxes -> BoxRecs]
  BY DEF Types
<1>2. mbox[b].q \in Seq(Items)
  BY <1>1 DEF BoxRecs
<1>3. PICK q : q = Tail(mbox[b].q)
  OBVIOUS
<1>4. q \in Seq(Items)
  BY <1>2, <1>3, TailFacts
<1>5. mbox' = [mbox EXCEPT ![b].q = q]
  BY <1>3
<1>6. /\ mbox' \in [Boxes -> BoxRecs] /\ mbox'[b].st = mbox[b].st /\ mbox'[b].q = q
      /\ mbox'[b].mail = mbox[b].mail /\ \A a \in Boxes : a # b => mbox'[a] = mbox[a]
  <2>1. PICK Z : Z = Seq(Items)
    OBVIOUS
  <2>2. BoxRecs = [st : {"null", "live", "freed"}, q : Z, mail : BOOLEAN] /\ q \in Z
    BY <1>4, <2>1 DEF BoxRecs
  <2> QED BY ZenonT(60), <1>1, <1>5, <2>2
<1> QED BY <1>2, <1>3, <1>6

LEMMA MailEdit ==
  ASSUME Types, NEW b \in Boxes, NEW w \in BOOLEAN, mbox' = [mbox EXCEPT ![b].mail = w]
  PROVE  /\ mbox' \in [Boxes -> BoxRecs] /\ mbox'[b].st = mbox[b].st /\ mbox'[b].q = mbox[b].q
         /\ \A a \in Boxes : a # b => mbox'[a] = mbox[a]
<1>1. mbox \in [Boxes -> BoxRecs]
  BY DEF Types
<1>2. PICK Z : Z = Seq(Items)
  OBVIOUS
<1>3. BoxRecs = [st : {"null", "live", "freed"}, q : Z, mail : BOOLEAN]
  BY <1>2 DEF BoxRecs
<1> QED BY <1>1, <1>3

LEMMA FetchWakeStep ==
  ASSUME Types, Sound, NEW t \in Threads, FetchWake(t)
  PROVE  Types' /\ Sound'
<1>1. PICK b : b = thr[t].on
  OBVIOUS
<1>2. /\ thr[t].pc = "asleep" /\ Fetching(t) /\ Goto(t, "fetch")
      /\ mbox' = [mbox EXCEPT ![b].mail = FALSE]
      /\ UNCHANGED <<conn, tcp, sock, tp, www, net, resets, fault>>
  BY <1>1 DEF FetchWake, Fetching
<1>3. b \in Boxes /\ FALSE \in BOOLEAN
  BY <1>1, ThreadTyped
<1>4. /\ mbox' \in [Boxes -> BoxRecs] /\ mbox'[b].st = mbox[b].st /\ mbox'[b].q = mbox[b].q
      /\ \A a \in Boxes : a # b => mbox'[a] = mbox[a]
  BY <1>2, <1>3, MailEdit
<1>5. "fetch" \in Words
  BY WordIn
<1>6. PICK p : p = "fetch"
  OBVIOUS
<1>7. Edited(thr, thr', t, p, thr[t].then, thr[t].ret, thr[t].on, thr[t].fd, thr[t].c, thr[t].got)
  BY <1>2, <1>5, <1>6, GotoEffect
<1>8. \A a \in Boxes : /\ mbox'[a].st = mbox[a].st /\ mbox'[a].q = mbox[a].q
                       /\ a # thr[t].on => mbox'[a] = mbox[a]
  BY <1>1, <1>4
<1>9. p \in {"fetch", "asleep"} /\ p # "asleep"
  BY <1>6
<1> QED BY <1>2, <1>4, <1>7, <1>8, <1>9, FetchMoves

LEMMA FetchSleeps ==
  ASSUME Types, Sound, NEW t \in Threads, thr[t].pc = "fetch", mbox[thr[t].on].q = << >>,
         Goto(t, "asleep"), UNCHANGED <<mbox, conn, tcp, sock, tp, www, net, resets>>
  PROVE  Types' /\ Sound'
<1>1. Fetching(t)
  BY DEF Fetching
<1>5. "asleep" \in Words
  BY WordIn
<1>6. PICK p : p = "asleep"
  OBVIOUS
<1>7. Edited(thr, thr', t, p, thr[t].then, thr[t].ret, thr[t].on, thr[t].fd, thr[t].c, thr[t].got)
  BY <1>5, <1>6, GotoEffect
<1>8. /\ mbox' \in [Boxes -> BoxRecs] /\ mbox'[thr[t].on].q = << >>
      /\ \A a \in Boxes : /\ mbox'[a].st = mbox[a].st /\ mbox'[a].q = mbox[a].q
                          /\ a # thr[t].on => mbox'[a] = mbox[a]
  BY DEF Types
<1>9. p \in {"fetch", "asleep"}
  BY <1>6
<1> QED BY <1>1, <1>7, <1>8, <1>9, FetchMoves

(* The answer to a request is fetched. *)
LEMMA FetchAnswer ==
  ASSUME Types, Sound, NEW t \in Threads, Caller(t), NEW p, p = thr[t].then, NEW v,
         mbox[thr[t].on].q # << >>, mbox' = [mbox EXCEPT ![thr[t].on].q = Tail(@)],
         Edited(thr, thr', t, p, "", thr[t].ret, Transport, thr[t].fd, thr[t].c, v),
         UNCHANGED <<conn, tcp, sock, tp, www, net, resets>>
  PROVE  Types' /\ Sound'
<1>e. /\ thr' \in [Threads -> ThreadRecs] /\ (\A u \in Threads \ {t} : thr'[u] = thr[u])
      /\ thr'[t].pc = p /\ thr'[t].ret = thr[t].ret /\ thr'[t].fd = thr[t].fd /\ thr'[t].c = thr[t].c
  BY DEF Edited
<1>0. PICK c : c = Mine(t)
  OBVIOUS
<1>1. Fetching(t) /\ p \in {"bound", "accept", "received", "wrote", "drain"}
  BY DEF Caller
<1>2. c \in Netconns /\ thr[t].c = c /\ thr[t].on = Ans(c) /\ Ans(c) \in Boxes /\ CallerOf(t, c)
      /\ thr[t].c = Mine(t)
  BY <1>0, <1>1, FetchBox, BoxNames DEF CallerOf
<1>3. /\ mbox' \in [Boxes -> BoxRecs] /\ mbox'[Ans(c)].st = mbox[Ans(c)].st
      /\ mbox'[Ans(c)].q = Tail(mbox[Ans(c)].q) /\ \A a \in Boxes : a # Ans(c) => mbox'[a] = mbox[a]
      /\ mbox[Ans(c)].q \in Seq(Items)
  BY <1>2, TakeFrom
<1>4. Types'
  BY <1>3, <1>e DEF Types
<1>5. ~Fetching(t)' /\ ~Caller(t)' /\ thr'[t].pc \notin {"taken", "asleep"} /\ (Deleting(t) => Deleting(t)')
      /\ (Unplaced(t)' => Unplaced(t) /\ p = "drain")
  BY <1>e, <1>1 DEF Fetching, Caller, Deleting, Unplaced
<1>6. KeepThreads({t})
  BY <1>e, Names DEF KeepThreads
<1>7. \A u \in Threads : u # t => SameView(u)
  <2>1. PICK T \in SUBSET Threads : T = {t}
    OBVIOUS
  <2> QED BY <1>6, <2>1, OthersKeep
<1>8. Mine(t)' \in {Mine(t), NoConn} /\ (p = "drain" => Mine(t)' = Mine(t)) /\ Ctl(t)'
  <2>1. CASE t \in Servers
    <3>1. ServerCtl(t) /\ t \notin Workers
      BY <2>1, Names DEF Sound, Control
    <3>2. \/ p \in {"bound", "accept"} /\ thr[t].c = t
          \/ p = "drain" /\ thr[t].fd = NoFd /\ OfServer(t, thr[t].c, thr[t].ret)
      BY <1>1, <3>1 DEF ServerCtl
    <3>3. Mine(t)' \in {thr[t].c, NoConn} /\ (p = "drain" => Mine(t)' = thr[t].c)
      BY <1>e, <2>1, <3>2 DEF Mine
    <3>4. ServerCtl(t)'
      BY <1>e, <1>5, <3>2 DEF ServerCtl, OfServer
    <3> QED BY <1>2, <3>1, <3>3, <3>4 DEF Ctl
  <2>2. CASE t \in Workers
    <3>1. WorkerCtl(t) /\ t \notin Servers /\ thr[t].pc # Home(t) /\ p # Home(t)
      BY <1>1, <2>2, Names, Homes DEF Sound, Control, Fetching
    <3>2. \/ p \in {"received", "wrote"}
          \/ p = "drain" /\ thr[t].ret = Home(t)
      BY <1>1, <3>1 DEF WorkerCtl
    <3>3. Mine(t)' = Mine(t)
      BY <1>e, <3>1 DEF Mine
    <3>4. Writing(t)' => Writing(t)
      BY <1>e, <1>1, <1>5 DEF Writing
    <3>p. thr[t].pc \notin {"recv", "send", "close"} /\ p \notin {"recv", "send", "close"}
          /\ p \in {"received", "wrote", "drain"}
      BY <1>1, <3>2 DEF Fetching
    <3>5. WorkerCtl(t)'
      BY <1>e, <1>5, <3>1, <3>2, <3>4, <3>p DEF WorkerCtl
    <3> QED BY <3>1, <3>3, <3>5 DEF Ctl
  <2> QED BY <2>1, <2>2, Names
<1>9. t \in Workers => WriterOK(t)'
  <2>1. ASSUME t \in Workers PROVE WriterOK(t)'
    <3>1. WriterOK(t) /\ thr[t].pc \notin {"loop", "woken", "chunk"}
      BY ZenonT(60), <1>1, <2>1 DEF Sound, Writers, Fetching
    <3>2. Writing(t)' => Writing(t)
      BY <1>e, <1>1, <1>5 DEF Writing
    <3> QED BY <1>e, <3>1, <3>2 DEF WriterOK
  <2> QED BY <2>1
<1>10. \A b \in Boxes \ Own(t) : mbox'[b] = mbox[b]
  BY ZenonT(60), <1>0, <1>3 DEF Own
<1>11. \A d \in Netconns : /\ mbox'[Accept(d)] = mbox[Accept(d)] /\ mbox'[Recv(d)] = mbox[Recv(d)]
                           /\ mbox'[Ans(d)].st = mbox[Ans(d)].st
                           /\ d # c => mbox'[Ans(d)] = mbox[Ans(d)]
  <2> SUFFICES ASSUME NEW d \in Netconns
               PROVE  /\ mbox'[Accept(d)] = mbox[Accept(d)] /\ mbox'[Recv(d)] = mbox[Recv(d)]
                      /\ mbox'[Ans(d)].st = mbox[Ans(d)].st
                      /\ d # c => mbox'[Ans(d)] = mbox[Ans(d)]
    OBVIOUS
  <2>1. /\ Accept(d) \in Boxes /\ Recv(d) \in Boxes /\ Ans(d) \in Boxes
        /\ Accept(d) # Ans(c) /\ Recv(d) # Ans(c) /\ (d # c => Ans(d) # Ans(c))
    BY BoxNames DEF Accept, Recv, Ans
  <2> QED BY <1>3, <2>1
<1>12. Places'
  <2>1. \A u \in Threads : Mine(u)' \in {Mine(u), NoConn}
    BY <1>7, <1>8 DEF SameView
  <2>2. \A s \in Servers : Unplaced(s)' => Unplaced(s) /\ Mine(s)' = Mine(s)
    BY <1>5, <1>7, <1>8, Names DEF SameView
  <2>3. \A s \in Servers : mbox'[Accept(s)].q = mbox[Accept(s)].q
    BY <1>11, Names
  <2>4. \A d \in Netconns : conn'[d].st = conn[d].st /\ mbox'[Ans(d)].st = mbox[Ans(d)].st
    BY <1>11
  <2> QED BY <2>1, <2>2, <2>3, <2>4, PlacesLeft
<1>13. \A d \in Conns : ReadOK(d)'
  BY <1>11, Names DEF Sound, Reading, ReadOK
<1>14. Answered(c)'
  <2>0. Answered(c)
    BY <1>2 DEF Sound, Answers
  <2>1. \A u \in Threads : ~CallerOf(u, c)'
    <3> SUFFICES ASSUME NEW u \in Threads, CallerOf(u, c)' PROVE FALSE
      OBVIOUS
    <3>1. u # t
      BY <1>5 DEF CallerOf
    <3>2. CallerOf(u, c)
      BY <1>7, <3>1 DEF SameView, CallerOf
    <3> QED BY <1>0, <1>2, <3>1, <3>2, CallersMine, Names DEF Sound, Places, Exclusive
  <2>2. ASSUME c \notin resets PROVE ~Asked(c)' /\ ~Hand(c)' /\ ~Told(c)'
    <3>1. Told(c)
      BY <1>2 DEF Told
    <3>2. ~Asked(c) /\ ~Hand(c) /\ Len(mbox[Ans(c)].q) <= 1
      BY <2>0, <2>2, <3>1 DEF Answered
    <3>q. PICK q : q = mbox[Ans(c)].q
      OBVIOUS
    <3>3. q \in Seq(Items) /\ q # << >> /\ Len(q) <= 1
      BY <1>2, <1>3, <3>2, <3>q
    <3>4. Tail(q) = << >>
      BY <3>3, ShortTail
    <3>5. mbox'[Transport] = mbox[Transport]
      BY ZenonT(60), <1>2, <1>3, BoxNames
    <3>6. Asked(c)' <=> Asked(c)
      BY <3>5 DEF Asked, Q, ReqAt
    <3>7. Hand(c)' <=> Hand(c)
      BY DEF Hand
    <3> QED BY <1>3, <3>2, <3>q, <3>4, <3>6, <3>7 DEF Told
  <2>3. ASSUME c \notin resets
        PROVE  /\ \A i, j \in DOMAIN Q' : ReqAt(i, c)' /\ ReqAt(j, c)' => i = j
               /\ \A i \in DOMAIN Q' : ~ReqAt(i, c)'
               /\ mbox'[Ans(c)].q = << >>
    <3>1. \A i \in DOMAIN Q' : ~ReqAt(i, c)'
      BY <2>2, <2>3 DEF Asked
    <3>2. mbox'[Ans(c)].q = << >>
      BY <2>2, <2>3 DEF Told
    <3> QED BY <3>1, <3>2
  <2>4. CASE c \in resets
    BY <2>1, <2>4 DEF Answered
  <2>5. CASE c \notin resets
    <3>1. Len(mbox'[Ans(c)].q) <= 1
      BY <2>3, <2>5, ShortEmpty
    <3> QED BY <2>1, <2>2, <2>3, <2>5, <3>1 DEF Answered
  <2> QED BY <2>4, <2>5
<1>15. thr'[t].pc \in {"drain", "free"} /\ thr'[t].c \in Conns => ~tcp[thr'[t].c].cb
  <2>1. ASSUME p = "drain", c \in Conns PROVE ~tcp[c].cb
    <3>1. CASE c \in resets
      BY <2>1, <3>1 DEF Sound, Callbacks
    <3>2. CASE c \notin resets
      <4>1. Told(c) /\ Answered(c)
        BY <1>2 DEF Told, Sound, Answers
      <4> QED BY <1>2, <2>1, <3>2, <4>1 DEF Answered
    <3> QED BY <3>1, <3>2
  <2> QED BY <1>e, <1>1, <1>2, <2>1
<1>16. \A d \in Netconns : d = Mine(t) \/ mbox'[Ans(d)].q # mbox[Ans(d)].q => Answered(d)'
  BY <1>0, <1>11, <1>14
<1>17. Deleting(t) => (Deleting(t)' /\ Mine(t)' = Mine(t)) \/ conn'[Mine(t)].st = "freed"
  <2>1. Deleting(t) => p = "drain"
    BY <1>1 DEF Deleting, Fetching
  <2> QED BY <1>5, <1>8, <2>1
<1>18. /\ \A d \in Conns : conn'[d].pcb = conn[d].pcb
       /\ \A d \in Conns : \/ conn'[d].st = conn[d].st
                           \/ conn[d].st # "none" /\ conn'[d].st = "freed" /\ ~tcp[d].cb
       /\ \A d \in Conns : d # Mine(t) => conn'[d].sem = conn[d].sem /\ conn'[d].state = conn[d].state
       /\ \A s \in Servers : /\ s # t => conn'[s] = conn[s]
                             /\ conn'[s].pcb = "listen" => conn[s].pcb = "listen"
                             /\ mbox'[Accept(s)].st = mbox[Accept(s)].st
  BY ZenonT(60), <1>11, Names
<1>19. Sound'
  BY <1>5, <1>6, <1>8, <1>9, <1>10, <1>12, <1>13, <1>15, <1>16, <1>17, <1>18, LocalSound
<1> QED BY <1>4, <1>19

(* A buffer, or the end of the stream, is fetched from recvmbox. *)
LEMMA FetchTaken ==
  ASSUME Types, Sound, NEW t \in Threads, Fetching(t), thr[t].then = "taken", NEW v,
         mbox[thr[t].on].q # << >>, mbox' = [mbox EXCEPT ![thr[t].on].q = Tail(@)],
         v = Head(mbox[thr[t].on].q),
         Edited(thr, thr', t, "taken", "", thr[t].ret, Transport, thr[t].fd, thr[t].c, v),
         UNCHANGED <<conn, tcp, sock, tp, www, net, resets>>
  PROVE  Types' /\ Sound'
<1>e. /\ thr' \in [Threads -> ThreadRecs] /\ (\A u \in Threads \ {t} : thr'[u] = thr[u])
      /\ thr'[t].pc = "taken" /\ thr'[t].ret = thr[t].ret /\ thr'[t].fd = thr[t].fd
      /\ thr'[t].c = thr[t].c /\ thr'[t].got = v
  BY DEF Edited
<1>0. PICK c : c = Mine(t)
  OBVIOUS
<1>1. ~Caller(t)
  BY DEF Caller
<1>2. /\ c \in Conns /\ c \in Netconns /\ thr[t].c = c /\ thr[t].on = Recv(c) /\ Recv(c) \in Boxes
      /\ t \in Workers
  BY <1>0, <1>1, FetchBox, BoxNames, Names
<1>3. /\ mbox' \in [Boxes -> BoxRecs] /\ mbox'[Recv(c)].st = mbox[Recv(c)].st
      /\ mbox'[Recv(c)].q = Tail(mbox[Recv(c)].q) /\ \A a \in Boxes : a # Recv(c) => mbox'[a] = mbox[a]
      /\ mbox[Recv(c)].q \in Seq(Items)
  BY <1>2, TakeFrom
<1>4. Types'
  BY <1>3, <1>e DEF Types
<1>5. /\ ~Fetching(t)' /\ ~Caller(t)' /\ ~Deleting(t) /\ ~Writing(t)'
  BY <1>e DEF Fetching, Caller, Deleting, Writing
<1>8. Mine(t)' = Mine(t) /\ Ctl(t)'
  <2>1. WorkerCtl(t) /\ t \notin Servers /\ thr[t].pc # Home(t) /\ "taken" # Home(t)
    BY <1>2, Names, Homes DEF Sound, Control, Fetching
  <2>3. Mine(t)' = Mine(t)
    BY <1>e, <2>1 DEF Mine
  <2>p. thr[t].pc \notin {"recv", "send", "close"}
    BY DEF Fetching
  <2>5. WorkerCtl(t)'
    BY <1>e, <1>5, <2>1, <2>p DEF WorkerCtl
  <2> QED BY <2>1, <2>3, <2>5 DEF Ctl
<1>9. WriterOK(t)' /\ t \notin Servers
  BY ZenonT(60), <1>2, <1>5, Names DEF WriterOK
<1>10. \A b \in Boxes \ Own(t) : mbox'[b] = mbox[b]
  BY ZenonT(60), <1>0, <1>3 DEF Own
<1>11. \A d \in Netconns : /\ mbox'[Accept(d)] = mbox[Accept(d)] /\ mbox'[Ans(d)] = mbox[Ans(d)]
  BY <1>3, BoxNames DEF Ans, Recv, Accept
<1>12. PICK q : q = mbox[Recv(c)].q
  OBVIOUS
<1>q. q \in Seq(Items) /\ q # << >>
  BY <1>2, <1>3, <1>12
<1>13. /\ \A i \in DOMAIN Tail(q) : i + 1 \in DOMAIN q /\ Tail(q)[i] = q[i + 1]
       /\ 1 \in DOMAIN q /\ Head(q) = q[1]
  BY <1>q, TailFacts
<1>14. ReadOK(c)
  BY <1>2 DEF Sound, Reading
<1>15. \A i \in DOMAIN q : q[i] = "null" => tcp[c].gotfin \/ c \in resets
  BY ZenonT(60), <1>12, <1>14 DEF ReadOK
<1>16. ReadOK(c)'
  <2>1. \A i \in DOMAIN Tail(q) : Tail(q)[i] = "null" => tcp[c].gotfin \/ c \in resets
    BY <1>13, <1>15
  <2> QED BY <1>3, <1>12, <1>14, <2>1 DEF ReadOK
<1>17. v = "null" => tcp[c].gotfin \/ c \in resets
  BY <1>2, <1>12, <1>13, <1>15
<1>18. Sound'
  BY <1>e, <1>0, <1>1, <1>2, <1>5, <1>8, <1>9, <1>10, <1>11, <1>16, <1>17, LocalStay
<1> QED BY <1>4, <1>18

(* A server takes a connection from acceptmbox. *)
LEMMA FetchPeer ==
  ASSUME Types, Sound, NEW t \in Threads, Fetching(t), thr[t].then = "peer", NEW v,
         mbox[thr[t].on].q # << >>, mbox' = [mbox EXCEPT ![thr[t].on].q = Tail(@)],
         v = Head(mbox[thr[t].on].q),
         Edited(thr, thr', t, "peer", "", thr[t].ret, Transport, thr[t].fd, thr[t].c, v),
         UNCHANGED <<conn, tcp, sock, tp, www, net, resets>>
  PROVE  Types' /\ Sound'
<1>e. /\ thr' \in [Threads -> ThreadRecs] /\ (\A u \in Threads \ {t} : thr'[u] = thr[u])
      /\ thr'[t].pc = "peer" /\ thr'[t].c = thr[t].c /\ thr'[t].got = v
  BY DEF Edited
<1>1. ~Caller(t)
  BY DEF Caller
<1>2. t \in Servers /\ thr[t].on = Accept(t) /\ Mine(t) = NoConn /\ Accept(t) \in Boxes
      /\ t \in Netconns /\ t \notin Workers
  BY <1>1, FetchBox, BoxNames, Names
<1>3. /\ mbox' \in [Boxes -> BoxRecs] /\ mbox'[Accept(t)].st = mbox[Accept(t)].st
      /\ mbox'[Accept(t)].q = Tail(mbox[Accept(t)].q) /\ \A a \in Boxes : a # Accept(t) => mbox'[a] = mbox[a]
      /\ mbox[Accept(t)].q \in Seq(Items)
  BY <1>2, TakeFrom
<1>4. Types'
  BY <1>3, <1>e DEF Types
<1>5. /\ ~Fetching(t)' /\ ~Caller(t)' /\ ~Deleting(t) /\ ~Writing(t)'
  BY <1>e DEF Fetching, Caller, Deleting, Writing
<1>6. KeepThreads({t})
  BY <1>e, Names DEF KeepThreads
<1>7. \A u \in Threads : u # t => SameView(u)
  <2>1. PICK T \in SUBSET Threads : T = {t}
    OBVIOUS
  <2> QED BY <1>6, <2>1, OthersKeep
<1>12. PICK q : q = mbox[Accept(t)].q
  OBVIOUS
<1>q. q \in Seq(Items) /\ q # << >> /\ v = Head(q)
  BY <1>2, <1>3, <1>12
<1>13. /\ \A i \in DOMAIN Tail(q) : i + 1 \in DOMAIN q /\ Tail(q)[i] = q[i + 1] /\ i + 1 # 1
       /\ \A i, j \in DOMAIN Tail(q) : i + 1 = j + 1 => i = j
       /\ 1 \in DOMAIN q /\ v = q[1]
  BY <1>q, TailFacts
<1>14. AcceptOK(t)
  BY <1>2 DEF Sound, Places, AcceptQueues
<1>15. /\ Waits(t, v)
       /\ \A i \in DOMAIN q : Waits(t, q[i])
       /\ \A i, j \in DOMAIN q : q[i] = q[j] => i = j
  BY ZenonT(60), <1>12, <1>13, <1>14 DEF AcceptOK
<1>16. v \in Conns /\ v \in Netconns /\ v # NoConn /\ net[v].port = t /\ conn[v].st = "live" /\ ~InTable(v)
       /\ \A u \in Threads : Mine(u) # v
  BY <1>15, Names DEF Waits
<1>17. Mine(t)' = v
  BY <1>e, <1>2 DEF Mine
<1>18. Ctl(t)'
  <2>1. thr[t].c = NoConn
    BY ZenonT(60), <1>2 DEF Sound, Control, ServerCtl
  <2>2. ServerCtl(t)'
    BY ZenonT(60), <1>e, <1>5, <1>16, <2>1 DEF ServerCtl
  <2> QED BY <1>2, <2>2 DEF Ctl
<1>19. \A d \in Netconns : /\ mbox'[Ans(d)] = mbox[Ans(d)] /\ mbox'[Recv(d)] = mbox[Recv(d)]
                           /\ d # t => mbox'[Accept(d)] = mbox[Accept(d)]
  BY <1>3, BoxNames DEF Ans, Recv, Accept
<1>20. Places'
  <2>1. \A u \in Threads : u # t => Mine(u)' = Mine(u)
    BY ZenonT(60), <1>7 DEF SameView
  <2>2. Exclusive'
    BY ZenonT(60), <1>16, <1>17, <2>1 DEF Sound, Places, Exclusive
  <2>3. Alive'
    BY <1>16, <1>17, <1>19, <2>1 DEF Sound, Places, Alive
  <2>4. \A d : InTable(d)' <=> InTable(d)
    BY DEF InTable
  <2>5. ASSUME NEW s \in Servers, NEW d, Waits(s, d), d # v PROVE Waits(s, d)'
    BY <2>1, <2>4, <2>5, <1>17 DEF Waits
  <2>6. AcceptQueues'
    <3> SUFFICES ASSUME NEW s \in Servers PROVE AcceptOK(s)'
      BY DEF AcceptQueues
    <3>0. AcceptOK(s)
      BY ZenonT(60) DEF Sound, Places, AcceptQueues
    <3>1. CASE s = t
      <4>1. ASSUME NEW i \in DOMAIN Tail(q) PROVE Waits(t, Tail(q)[i]) /\ Tail(q)[i] # v
        <5>1. i + 1 \in DOMAIN q /\ Tail(q)[i] = q[i + 1] /\ i + 1 # 1
          BY <1>13
        <5> QED BY <5>1, <1>13, <1>15
      <4>2. PICK r : r = Tail(q)
        OBVIOUS
      <4>3. \A i \in DOMAIN r : Waits(t, r[i])'
        BY <1>2, <2>5, <4>1, <4>2
      <4>4. ASSUME NEW i \in DOMAIN r, NEW j \in DOMAIN r, r[i] = r[j] PROVE i = j
        <5>1. i + 1 \in DOMAIN q /\ j + 1 \in DOMAIN q /\ q[i + 1] = q[j + 1] /\ (i + 1 = j + 1 => i = j)
          BY ZenonT(60), <1>13, <4>2, <4>4
        <5> QED BY <5>1, <1>15
      <4>5. mbox'[Accept(t)].q = r
        BY ZenonT(60), <1>3, <1>12, <4>2
      <4> QED BY ZenonT(60), <3>1, <4>3, <4>4, <4>5 DEF AcceptOK
    <3>2. CASE s # t
      <4>1. mbox'[Accept(s)].q = mbox[Accept(s)].q
        BY ZenonT(60), <1>19, <3>2, Names
      <4>2. \A d : Waits(s, d) => d # v
        BY <1>16, <3>2 DEF Waits
      <4>3. \A d : Waits(s, d) => Waits(s, d)'
        BY <2>5, <4>2
      <4> QED BY <3>0, <4>1, <4>3 DEF AcceptOK
    <3> QED BY <3>1, <3>2
  <2>7. Table'
    <3>1. ASSUME NEW s \in Servers, Unplaced(s)' PROVE ~InTable(Mine(s))'
      <4>1. CASE s = t
        <5>1. ~InTable(v)'
          BY <1>16, <2>4
        <5> QED BY ZenonT(60), <4>1, <5>1, <1>17 DEF InTable
      <4>2. CASE s # t
        <5>1. Unplaced(s) /\ Mine(s)' = Mine(s)
          BY <3>1, <4>2, <1>7, Names DEF SameView
        <5>2. ~InTable(Mine(s))
          BY <5>1 DEF Sound, Places, Table
        <5> QED BY <5>1, <5>2 DEF InTable
      <4> QED BY <4>1, <4>2
    <3> QED BY <3>1 DEF Sound, Places, Table
  <2>8. WwwQueue'
    <3>1. ASSUME NEW i, Parked(i) PROVE Parked(i)'
      <4>1. sock[i].conn # v
        BY ZenonT(60), <3>1, <1>16 DEF Parked, InTable
      <4> QED BY ZenonT(60), <3>1, <4>1, <2>1, <1>17 DEF Parked
    <3> QED BY <3>1 DEF Sound, Places, WwwQueue
  <2> QED BY <2>2, <2>3, <2>6, <2>7, <2>8 DEF Places
<1>21. /\ \A b \in Boxes \ Own(t) : mbox'[b] = mbox[b]
       /\ \A d \in Conns : conn'[d].pcb = conn[d].pcb
       /\ \A d \in Conns : \/ conn'[d].st = conn[d].st
                           \/ conn[d].st # "none" /\ conn'[d].st = "freed" /\ ~tcp[d].cb
       /\ \A d \in Conns : d # Mine(t) => conn'[d].sem = conn[d].sem /\ conn'[d].state = conn[d].state
       /\ \A s \in Servers : /\ s # t => conn'[s] = conn[s]
                             /\ conn'[s].pcb = "listen" => conn[s].pcb = "listen"
                             /\ mbox'[Accept(s)].st = mbox[Accept(s)].st
  <2>1. Accept(t) \in Own(t)
    BY ZenonT(60), <1>2 DEF Own
  <2>2. \A s \in Servers : mbox'[Accept(s)].st = mbox[Accept(s)].st
    BY <1>3, <1>19, Names
  <2> QED BY <1>3, <2>1, <2>2
<1>22. \A d \in Netconns : d = Mine(t) \/ mbox'[Ans(d)].q # mbox[Ans(d)].q => Answered(d)'
  BY <1>2, <1>19, Names
<1>23. \A d \in Conns : d = Mine(t) => ReadOK(d)'
  BY <1>2, Names
<1>24. thr'[t].pc \notin {"drain", "free", "taken", "asleep"}
  BY <1>e
<1>25. Sound'
  BY <1>2, <1>5, <1>6, <1>18, <1>20, <1>21, <1>22, <1>23, <1>24, LocalSound
<1> QED BY <1>4, <1>25

LEMMA FetchTestStep ==
  ASSUME Types, Sound, NEW t \in Threads, FetchTest(t)
  PROVE  Types' /\ Sound'
<1>1. thr[t].pc = "fetch" /\ Fetching(t) /\ UNCHANGED <<conn, tcp, sock, tp, www, net, resets>>
  BY DEF FetchTest, Fetching
<1>2. CASE mbox[thr[t].on].q = << >>
  <2>1. Goto(t, "asleep") /\ mbox' = mbox
    BY <1>2 DEF FetchTest
  <2> QED BY <1>1, <1>2, <2>1, FetchSleeps
<1>3. CASE mbox[thr[t].on].q # << >>
  <2>1. PICK b, p, v : b = thr[t].on /\ p = thr[t].then /\ v = Head(mbox[b].q)
    OBVIOUS
  <2>2. /\ thr' = [thr EXCEPT ![t].pc = p, ![t].then = "", ![t].on = Transport, ![t].got = v]
        /\ mbox' = [mbox EXCEPT ![b].q = Tail(@)]
    BY <1>3, <2>1 DEF FetchTest
  <2>3. b \in Boxes /\ p \in Words /\ thr \in [Threads -> ThreadRecs]
    BY <2>1, ThreadTyped
  <2>4. v \in Items
    <3>1. mbox[b].q \in Seq(Items)
      BY <2>3 DEF Types, BoxRecs
    <3> QED BY <1>3, <2>1, <3>1, TailFacts
  <2>5. "" \in Words /\ Transport \in Boxes
    BY ZenonT(60), WordIn, BoxNames
  <2>6. Edited(thr, thr', t, p, "", thr[t].ret, Transport, thr[t].fd, thr[t].c, v)
    BY <2>2, <2>3, <2>4, <2>5, SetTaken
  <2>7. mbox' = [mbox EXCEPT ![thr[t].on].q = Tail(@)]
    BY ZenonT(60), <2>1, <2>2
  <2>8. CASE Caller(t)
    BY ZenonT(60), <1>1, <1>3, <2>1, <2>6, <2>7, <2>8, FetchAnswer
  <2>9. CASE thr[t].then = "taken"
    BY ZenonT(60), <1>1, <1>3, <2>1, <2>6, <2>7, <2>9, FetchTaken
  <2>10. CASE thr[t].then = "peer"
    BY <1>1, <1>3, <2>1, <2>6, <2>7, <2>10, FetchPeer
  <2> QED BY <1>1, <2>8, <2>9, <2>10, FetchBox
<1> QED BY <1>2, <1>3

LEMMA BoundStep ==
  ASSUME Types, Sound, NEW t \in Servers, Bound(t)
  PROVE  Types' /\ Sound'
<1>0. t \in Threads /\ t \in Netconns
  BY Names
<1>1. PICK p, w : /\ p = IF conn[t].err = "ok" THEN "listen" ELSE "stop"
                  /\ w = (mbox[Ans(t)].mail /\ conn[t].err = "ok")
  OBVIOUS
<1>b. mbox[Ans(t)] \in BoxRecs /\ Ans(t) \in Boxes
  BY <1>0, BoxNames DEF Types
<1>w. w \in BOOLEAN
  BY <1>1
<1>2. /\ thr[t].pc = "bound" /\ thr[t].pc \in OnlyServers /\ Goto(t, p)
      /\ mbox' = [mbox EXCEPT ![Ans(t)].mail = w]
      /\ UNCHANGED <<conn, tcp, sock, tp, www, net, resets>>
  BY <1>1 DEF Bound, OnlyServers
<1>3. /\ t \notin Workers /\ ServerCtl(t) /\ ~Caller(t) /\ ~Deleting(t)
  BY <1>0, <1>2, ServerAt
<1>4. /\ mbox' \in [Boxes -> BoxRecs] /\ mbox'[Ans(t)].st = mbox[Ans(t)].st
      /\ mbox'[Ans(t)].q = mbox[Ans(t)].q /\ \A a \in Boxes : a # Ans(t) => mbox'[a] = mbox[a]
  BY <1>2, <1>b, <1>w, MailEdit
<1>5. p \in Words /\ p \in {"listen", "stop"}
  BY <1>1, WordIn
<1>6. Edited(thr, thr', t, p, thr[t].then, thr[t].ret, thr[t].on, thr[t].fd, thr[t].c, thr[t].got)
  BY <1>0, <1>2, <1>5, GotoEffect
<1>e. /\ thr' \in [Threads -> ThreadRecs] /\ (\A u \in Threads \ {t} : thr'[u] = thr[u])
      /\ thr'[t].pc = p /\ thr'[t].c = thr[t].c
  BY <1>6 DEF Edited
<1>7. Types'
  BY <1>2, <1>4, <1>e DEF Types
<1>8. thr[t].c = t
  BY <1>2, <1>3 DEF ServerCtl
<1>9. Mine(t)' = Mine(t)
  BY <1>e, <1>2, <1>5 DEF Mine
<1>10. ServerCtl(t)' /\ ~Caller(t)' /\ ~Unplaced(t)'
  BY <1>e, <1>5, <1>8 DEF ServerCtl, Fetching, Caller, Unplaced
<1>11. Ctl(t)'
  BY <1>3, <1>10 DEF Ctl
<1>12. \A b \in Boxes \ Own(t) : mbox'[b] = mbox[b]
  BY <1>4 DEF Own
<1>13. \A d \in Netconns : /\ mbox'[Ans(d)].st = mbox[Ans(d)].st /\ mbox'[Ans(d)].q = mbox[Ans(d)].q
                           /\ mbox'[Accept(d)].st = mbox[Accept(d)].st
                           /\ mbox'[Accept(d)].q = mbox[Accept(d)].q
                           /\ mbox'[Recv(d)] = mbox[Recv(d)]
  BY <1>4, BoxNames DEF Ans, Recv, Accept
<1>14. \A d \in Conns : ReadOK(d)'
  BY <1>2, <1>13, Names DEF Sound, Reading, ReadOK
<1>15. thr'[t].pc \notin {"drain", "free", "taken", "asleep"}
  BY <1>e, <1>5
<1>16. Sound'
  BY <1>0, <1>e, <1>2, <1>3, <1>9, <1>10, <1>11, <1>12, <1>13, <1>14, <1>15, LocalStay
<1> QED BY <1>7, <1>16

LEMMA NetconnAcceptStep ==
  ASSUME Types, Sound, NEW t \in Servers, NetconnAccept(t)
  PROVE  Types' /\ Sound'
<1>0. t \in Threads /\ t \in Netconns /\ Ans(t) \in Boxes /\ Accept(t) \in Boxes /\ FALSE \in BOOLEAN
  BY Names, BoxNames
<1>2. /\ thr[t].pc = "accept" /\ thr[t].pc \in OnlyServers
      /\ mbox' = [mbox EXCEPT ![Ans(t)].mail = FALSE]
      /\ thr' = [FetchFrom(t, Accept(t), "peer") EXCEPT ![t].fd = NoFd, ![t].c = NoConn]
      /\ UNCHANGED <<conn, tcp, sock, tp, www, net, resets>>
  BY DEF NetconnAccept, OnlyServers
<1>3. /\ t \notin Workers /\ ServerCtl(t) /\ ~Caller(t) /\ ~Deleting(t)
  BY <1>0, <1>2, ServerAt
<1>4. /\ mbox' \in [Boxes -> BoxRecs] /\ mbox'[Ans(t)].st = mbox[Ans(t)].st
      /\ mbox'[Ans(t)].q = mbox[Ans(t)].q /\ \A a \in Boxes : a # Ans(t) => mbox'[a] = mbox[a]
  BY <1>0, <1>2, MailEdit
<1>w. "peer" \in Words
  BY WordIn
<1>n. NoFd \in 0 .. NumSockets
  BY NetconnAssumption DEF NoFd
<1>5. "peer" \in Words /\ NoFd \in 0 .. NumSockets /\ NoConn \in Netconns \cup {NoConn}
  BY <1>w, <1>n
<1>6. Edited(thr, thr', t, "fetch", "peer", thr[t].ret, Accept(t), NoFd, NoConn, "null")
  BY <1>0, <1>2, <1>5, FetchThenFdC
<1>e. /\ thr' \in [Threads -> ThreadRecs] /\ (\A u \in Threads \ {t} : thr'[u] = thr[u])
      /\ thr'[t].pc = "fetch" /\ thr'[t].then = "peer" /\ thr'[t].on = Accept(t) /\ thr'[t].c = NoConn
  BY <1>6 DEF Edited
<1>7. Types'
  BY <1>2, <1>4, <1>e DEF Types
<1>9. Mine(t)' = Mine(t)
  BY <1>e, <1>2 DEF Mine
<1>10. ServerCtl(t)' /\ ~Caller(t)' /\ ~Unplaced(t)'
  BY <1>e DEF ServerCtl, Fetching, Caller, Unplaced
<1>11. Ctl(t)'
  BY <1>3, <1>10 DEF Ctl
<1>12. \A b \in Boxes \ Own(t) : mbox'[b] = mbox[b]
  BY <1>4 DEF Own
<1>13. \A d \in Netconns : /\ mbox'[Ans(d)].st = mbox[Ans(d)].st /\ mbox'[Ans(d)].q = mbox[Ans(d)].q
                           /\ mbox'[Accept(d)].st = mbox[Accept(d)].st
                           /\ mbox'[Accept(d)].q = mbox[Accept(d)].q
                           /\ mbox'[Recv(d)] = mbox[Recv(d)]
  BY <1>4, BoxNames DEF Ans, Recv, Accept
<1>14. \A d \in Conns : ReadOK(d)'
  BY <1>2, <1>13, Names DEF Sound, Reading, ReadOK
<1>15. thr'[t].pc \notin {"drain", "free", "taken", "asleep"}
  BY <1>e
<1>16. Sound'
  BY <1>0, <1>e, <1>2, <1>3, <1>9, <1>10, <1>11, <1>12, <1>13, <1>14, <1>15, LocalStay
<1> QED BY <1>7, <1>16

(* The end of the stream: recvmbox is given back. *)
LEMMA RecvEnds ==
  ASSUME Types, Sound, NEW t \in Threads, thr[t].pc = "taken", thr[t].got = "null",
         mbox' = [mbox EXCEPT ![Recv(thr[t].c)] = NullBox], Return(t, 0),
         UNCHANGED <<conn, tcp, sock, tp, www, net, resets>>
  PROVE  Types' /\ Sound'
<1>1. thr[t].pc \in OnlyWorkers
  BY DEF OnlyWorkers
<1>0. PICK c : c = Mine(t)
  OBVIOUS
<1>2. /\ t \in Workers /\ t \notin Servers /\ thr[t].c = c /\ c \in Netconns /\ ~Caller(t) /\ ~Deleting(t)
      /\ c \in Conns /\ c = Mine(t)
  BY <1>0, <1>1, WorkerAt
<1>3. Recv(c) \in Boxes /\ NullBox \in BoxRecs /\ mbox \in [Boxes -> BoxRecs]
  BY <1>2, BoxNames, BoxValues DEF Types
<1>4. /\ mbox' \in [Boxes -> BoxRecs] /\ mbox'[Recv(c)] = NullBox
      /\ \A a \in Boxes : a # Recv(c) => mbox'[a] = mbox[a]
  BY <1>2, <1>3
<1>5. PICK p \in {"recv", "close", "send"}, r \in Words :
           /\ Edited(thr, thr', t, p, thr[t].then, r, thr[t].on, thr[t].fd, NoConn, "null")
           /\ p = "send" => r \in {"recv", "close"}
  BY ReturnEffect
<1>e. /\ thr' \in [Threads -> ThreadRecs] /\ (\A u \in Threads \ {t} : thr'[u] = thr[u])
      /\ thr'[t].pc = p /\ thr'[t].ret = r /\ thr'[t].fd = thr[t].fd
  BY <1>5 DEF Edited
<1>6. Types'
  BY <1>4, <1>e DEF Types
<1>7. /\ Ctl(t)' /\ Mine(t)' = Mine(t) /\ ~Deleting(t)'
      /\ Fetching(t)' = (thr'[t].pc = "fetch")
  <2>1. thr'[t].pc \in OnlyWorkers \cup {"del", "fetch"}
    BY <1>e DEF OnlyWorkers
  <2>2. thr'[t].pc \in {"recv", "send", "close"} /\ thr'[t].pc # "del" /\ thr'[t].pc # "fetch"
    BY <1>e
  <2>3. thr'[t].pc \in OnlyWorkers \ {"recv", "close", "taken", "received"}
          => thr'[t].ret \in {"recv", "close"}
    BY <1>e, <1>5
  <2> QED BY <1>1, <1>e, <2>1, <2>2, <2>3, WorkerMoves
<1>8. ~Caller(t)' /\ WriterOK(t)'
  BY <1>7, <1>e DEF Caller, WriterOK, Writing
<1>12. \A b \in Boxes \ Own(t) : mbox'[b] = mbox[b]
  BY <1>2, <1>4 DEF Own
<1>13. \A d \in Netconns : /\ mbox'[Ans(d)].st = mbox[Ans(d)].st /\ mbox'[Ans(d)].q = mbox[Ans(d)].q
                           /\ mbox'[Accept(d)].st = mbox[Accept(d)].st
                           /\ mbox'[Accept(d)].q = mbox[Accept(d)].q
  BY <1>4, BoxNames DEF Ans, Recv, Accept
<1>14. ReadOK(c)'
  <2>1. tcp[c].gotfin \/ c \in resets
    BY <1>2 DEF Sound, Reading
  <2>2. tcp[c].cb => tcp[c].gotfin
    BY <1>2, <2>1 DEF Sound, Callbacks
  <2>3. DOMAIN mbox'[Recv(c)].q = {}
    BY <1>4, BoxValues, NoItems
  <2> QED BY <2>2, <2>3 DEF ReadOK
<1>15. thr'[t].pc \notin {"drain", "free", "taken", "asleep"}
  BY <1>e
<1>16. Sound'
  BY <1>e, <1>2, <1>7, <1>8, <1>12, <1>13, <1>14, <1>15, LocalStay
<1> QED BY <1>6, <1>16

(* netconn_delete, once the transport thread has answered. *)
LEMMA DeleteDrainStep ==
  ASSUME Types, Sound, NEW t \in Threads, DeleteDrain(t)
  PROVE  Types' /\ Sound'
<1>1. PICK c : c = thr[t].c
  OBVIOUS
<1>2. /\ thr[t].pc = "drain" /\ UNCHANGED <<conn, tcp, sock, tp, www, net, resets>>
  BY DEF DeleteDrain
<1>3. c = Mine(t) /\ c \in Netconns /\ thr[t].c = c
  BY <1>1, <1>2, DeletersMine
<1>4. Recv(c) \in Boxes /\ mbox \in [Boxes -> BoxRecs] /\ mbox[Recv(c)] \in BoxRecs
  BY <1>3, BoxNames DEF Types
<1>5. /\ mbox' \in [Boxes -> BoxRecs] /\ (\A a \in Boxes : a # Recv(c) => mbox'[a] = mbox[a])
      /\ \A i \in DOMAIN mbox'[Recv(c)].q :
             \E j \in DOMAIN mbox[Recv(c)].q : mbox'[Recv(c)].q[i] = mbox[Recv(c)].q[j]
  <2>1. CASE mbox[Recv(c)].q # << >>
    <3>1. mbox' = [mbox EXCEPT ![Recv(c)].q = Tail(@)]
      BY <1>1, <2>1 DEF DeleteDrain
    <3>2. PICK q : q = mbox[Recv(c)].q
      OBVIOUS
    <3>3. /\ mbox' \in [Boxes -> BoxRecs] /\ (\A a \in Boxes : a # Recv(c) => mbox'[a] = mbox[a])
          /\ mbox'[Recv(c)].q = Tail(q) /\ q \in Seq(Items) /\ q # << >>
      BY <1>4, <2>1, <3>1, <3>2, TakeFrom
    <3>4. \A i \in DOMAIN Tail(q) : i + 1 \in DOMAIN q /\ Tail(q)[i] = q[i + 1]
      BY <3>3, TailFacts
    <3> QED BY <3>2, <3>3, <3>4
  <2>2. CASE mbox[Recv(c)].q = << >>
    <3>1. PICK v : v = IF mbox[Recv(c)].st = "live" THEN FreedBox ELSE mbox[Recv(c)]
      OBVIOUS
    <3>2. mbox' = [mbox EXCEPT ![Recv(c)] = v]
      BY <1>1, <2>2, <3>1 DEF DeleteDrain
    <3>3. v \in BoxRecs /\ v.q = << >>
      BY <2>2, <3>1, <1>4, BoxValues
    <3>4. mbox' \in [Boxes -> BoxRecs] /\ mbox'[Recv(c)] = v
          /\ \A a \in Boxes : a # Recv(c) => mbox'[a] = mbox[a]
      BY <1>4, <3>2, <3>3
    <3>5. DOMAIN mbox'[Recv(c)].q = {}
      BY <3>3, <3>4, NoItems
    <3> QED BY <3>4, <3>5
  <2> QED BY <2>1, <2>2
<1>6. PICK p \in {"drain", "free"} :
        Edited(thr, thr', t, p, thr[t].then, thr[t].ret, thr[t].on, thr[t].fd, thr[t].c, thr[t].got)
  <2>1. CASE mbox[Recv(c)].q # << >>
    <3>1. thr' = thr
      BY <1>1, <2>1 DEF DeleteDrain
    <3>2. Edited(thr, thr', t, "drain", thr[t].then, thr[t].ret, thr[t].on, thr[t].fd, thr[t].c, thr[t].got)
      BY <1>2, <3>1 DEF Edited, Types
    <3> QED BY <3>2
  <2>2. CASE mbox[Recv(c)].q = << >>
    <3>1. Goto(t, "free") /\ "free" \in Words
      BY <1>1, <2>2, WordIn DEF DeleteDrain
    <3>2. Edited(thr, thr', t, "free", thr[t].then, thr[t].ret, thr[t].on, thr[t].fd, thr[t].c, thr[t].got)
      BY <3>1, GotoEffect
    <3> QED BY <3>2
  <2> QED BY <2>1, <2>2
<1>e. /\ thr' \in [Threads -> ThreadRecs] /\ (\A u \in Threads \ {t} : thr'[u] = thr[u])
      /\ thr'[t].pc = p /\ thr'[t].ret = thr[t].ret /\ thr'[t].fd = thr[t].fd /\ thr'[t].c = thr[t].c
  BY <1>6 DEF Edited
<1>7. Types'
  BY <1>2, <1>5, <1>e DEF Types
<1>8. /\ ~Caller(t) /\ ~Caller(t)' /\ Deleting(t)' /\ ~Fetching(t) /\ ~Fetching(t)' /\ ~Writing(t)'
      /\ Unplaced(t)
  BY <1>e, <1>2 DEF Caller, Fetching, Deleting, Writing, Unplaced
<1>9. Mine(t)' = Mine(t) /\ Ctl(t)'
  <2>1. CASE t \in Servers
    <3>1. ServerCtl(t) /\ t \notin Workers
      BY <2>1, Names DEF Sound, Control
    <3>2. OfServer(t, thr[t].c, thr[t].ret) /\ thr[t].fd = NoFd
      BY <1>2, <3>1 DEF ServerCtl
    <3>3. ServerCtl(t)'
      BY <1>2, <1>e, <1>8, <3>2 DEF ServerCtl, OfServer
    <3>4. Mine(t)' = Mine(t)
      BY <1>e, <1>2, <2>1 DEF Mine
    <3> QED BY <3>1, <3>3, <3>4 DEF Ctl
  <2>2. CASE t \in Workers
    <3>1. WorkerCtl(t) /\ t \notin Servers /\ thr[t].pc # Home(t) /\ thr'[t].pc # Home(t)
      BY <1>2, <1>e, <2>2, Names, Homes DEF Sound, Control
    <3>2. WorkerCtl(t)'
      BY <1>2, <1>e, <1>8, <3>1 DEF WorkerCtl
    <3>3. Mine(t)' = Mine(t)
      BY <1>e, <1>2, <3>1 DEF Mine
    <3> QED BY <3>1, <3>2, <3>3 DEF Ctl
  <2> QED BY <2>1, <2>2, Names
<1>10. WriterOK(t)'
  BY <1>8 DEF WriterOK
<1>11. c \in Conns => ~tcp[c].cb
  BY <1>2, <1>3 DEF Sound, Callbacks
<1>12. \A b \in Boxes \ Own(t) : mbox'[b] = mbox[b]
  BY <1>3, <1>5 DEF Own
<1>13. \A d \in Netconns : /\ mbox'[Ans(d)].st = mbox[Ans(d)].st /\ mbox'[Ans(d)].q = mbox[Ans(d)].q
                           /\ mbox'[Accept(d)].st = mbox[Accept(d)].st
                           /\ mbox'[Accept(d)].q = mbox[Accept(d)].q
  BY <1>3, <1>5, BoxNames DEF Ans, Recv, Accept
<1>14. \A d \in Conns : d = Mine(t) => ReadOK(d)'
  <2>1. c \in Conns => ReadOK(c)
    BY DEF Sound, Reading
  <2>2. c \in Conns => ReadOK(c)'
    BY <1>2, <1>5, <1>11, <2>1 DEF ReadOK
  <2> QED BY <1>3, <2>2
<1>15. thr'[t].pc \notin {"taken", "asleep"}
  BY <1>e
<1>16. thr'[t].pc \in {"drain", "free"} /\ thr'[t].c \in Conns => ~tcp[thr'[t].c].cb
  BY <1>3, <1>e, <1>11
<1>17. Sound'
  BY <1>e, <1>2, <1>8, <1>9, <1>10, <1>12, <1>13, <1>14, <1>15, <1>16, LocalStay
<1> QED BY <1>7, <1>17

(* Nobody waits for an answer, and nothing is on the way. *)
LEMMA NobodyAsks ==
  ASSUME Types, Sound, NEW c \in Netconns, UNCHANGED <<tp, resets>>, Q' = Q,
         \A u \in Threads : ~CallerOf(u, c), \A u \in Threads : ~CallerOf(u, c)',
         mbox'[Ans(c)].q = << >>
  PROVE  Answered(c)'
<1>1. Answered(c)
  BY DEF Sound, Answers
<1>2. c \notin resets => ~Asked(c) /\ ~Hand(c) /\ ~Told(c)
  BY <1>1 DEF Answered
<1>3. (Asked(c)' <=> Asked(c)) /\ (Hand(c)' <=> Hand(c)) /\ ~Told(c)'
      /\ \A i : ReqAt(i, c)' <=> ReqAt(i, c)
  BY DEF Asked, Hand, Told, ReqAt
<1>4. c \notin resets => \A i \in DOMAIN Q : ~ReqAt(i, c)
  BY <1>2 DEF Asked
<1>5. Len(mbox'[Ans(c)].q) <= 1
  BY ShortEmpty
<1> QED BY <1>2, <1>3, <1>4, <1>5 DEF Answered

LEMMA LwipSocketStep ==
  ASSUME Types, Sound, NEW t \in Servers, LwipSocket(t)
  PROVE  Types' /\ Sound'
<1>0. t \in Threads /\ t \in Netconns /\ Ans(t) \in Boxes /\ t \notin Conns
  BY Names, BoxNames
<1>2. /\ thr[t].pc = "socket" /\ thr[t].pc \in OnlyServers
      /\ conn' = [conn EXCEPT ![t] = FreshNetconn]
      /\ mbox' = [mbox EXCEPT ![Ans(t)] = NewBox]
      /\ thr' = [thr EXCEPT ![t].pc = "slot", ![t].c = t, ![t].ret = "bind"]
      /\ UNCHANGED <<tcp, sock, tp, www, net, resets>>
  BY DEF LwipSocket, OnlyServers
<1>3. /\ t \notin Workers /\ ServerCtl(t) /\ ~Caller(t) /\ ~Deleting(t) /\ thr \in [Threads -> ThreadRecs]
  BY <1>0, <1>2, ServerAt
<1>4. conn[t].st = "none" /\ thr[t].c = NoConn
  BY <1>2, <1>3 DEF ServerCtl
<1>5. /\ conn' \in [Netconns -> ConnRecs] /\ (\A d \in Netconns : d # t => conn'[d] = conn[d])
      /\ conn'[t].st = "live" /\ conn'[t].pcb = "null"
  BY <1>0, <1>2 DEF FreshNetconn, ConnRecs, Types
<1>6. /\ mbox' \in [Boxes -> BoxRecs] /\ (\A b \in Boxes : b # Ans(t) => mbox'[b] = mbox[b])
      /\ mbox'[Ans(t)].st = "live" /\ mbox'[Ans(t)].q = << >>
  <2>1. mbox \in [Boxes -> BoxRecs]
    BY DEF Types
  <2> QED BY <1>0, <1>2, <2>1, BoxValues
<1>w. "slot" \in Words /\ "bind" \in Words
  BY ZenonT(60), WordIn
<1>7. Edited(thr, thr', t, "slot", thr[t].then, "bind", thr[t].on, thr[t].fd, t, thr[t].got)
  BY <1>0, <1>2, <1>3, <1>w, SetPcCRet
<1>e. /\ thr' \in [Threads -> ThreadRecs] /\ (\A u \in Threads \ {t} : thr'[u] = thr[u])
      /\ thr'[t].pc = "slot" /\ thr'[t].ret = "bind" /\ thr'[t].c = t
  BY <1>7 DEF Edited
<1>8. Types'
  BY <1>2, <1>5, <1>6, <1>e DEF Types
<1>9. Mine(t) = NoConn /\ Mine(t)' = t
  BY <1>2, <1>4, <1>e DEF Mine
<1>10. \A u \in Threads : Mine(u) # t
  BY <1>0, <1>4, Names DEF Sound, Places, Alive
<1>11. ~InTable(t)
  BY <1>0, <1>4, Names DEF Sound, Places, Alive, InTable
<1>12. KeepThreads({t})
  BY <1>2, <1>5, <1>e, Names DEF KeepThreads
<1>13. \A u \in Threads : u # t => SameView(u)
  <2>1. PICK T \in SUBSET Threads : T = {t}
    BY <1>0
  <2> QED BY <1>12, <2>1, OthersKeep
<1>14. /\ ServerCtl(t)' /\ ~Caller(t)'
  BY <1>e DEF ServerCtl, Fetching, OfServer, Caller
<1>15. Ctl(t)'
  BY <1>3, <1>14 DEF Ctl
<1>16. \A d \in Netconns : /\ d # t => mbox'[Ans(d)] = mbox[Ans(d)]
                           /\ mbox'[Recv(d)] = mbox[Recv(d)]
                           /\ mbox'[Accept(d)] = mbox[Accept(d)]
  BY <1>0, <1>6, BoxNames DEF Ans, Recv, Accept
<1>17. Places'
  <2>1. \A u \in Threads : u # t => Mine(u)' = Mine(u)
    BY <1>13 DEF SameView
  <2>2. Exclusive'
    BY <1>9, <1>10, <2>1 DEF Sound, Places, Exclusive
  <2>3. Alive'
    <3>1. \A d \in Netconns : conn[d].st = "live" => conn'[d].st = "live"
      BY <1>5
    <3>2. ASSUME NEW u \in Threads, Mine(u)' # NoConn PROVE conn'[Mine(u)'].st = "live"
      BY <3>1, <3>2, <2>1, <1>5, <1>9, MineTyped DEF Sound, Places, Alive
    <3>3. ASSUME NEW i \in DOMAIN sock, sock[i].conn # NoConn PROVE conn'[sock[i].conn].st = "live"
      <4>1. sock[i].conn \in Netconns
        BY <3>3, SockFacts DEF SockRecs
      <4> QED BY <3>1, <3>3, <4>1 DEF Sound, Places, Alive
    <3>4. \A d \in Netconns : conn'[d].st = "live" => mbox'[Ans(d)].st = "live"
      BY <1>5, <1>6, <1>16 DEF Sound, Places, Alive
    <3> QED BY <1>2, <3>2, <3>3, <3>4 DEF Alive
  <2>4. \A d : InTable(d)' <=> InTable(d)
    BY <1>2 DEF InTable
  <2>5. AcceptQueues'
    <3> SUFFICES ASSUME NEW s \in Servers PROVE AcceptOK(s)'
      BY DEF AcceptQueues
    <3>0. AcceptOK(s)
      BY DEF Sound, Places, AcceptQueues
    <3>1. ASSUME NEW d, Waits(s, d) PROVE Waits(s, d)'
      <4>1. d \in Netconns /\ d # t
        BY <3>1, <1>0, Names DEF Waits
      <4> QED BY <3>1, <4>1, <1>2, <1>5, <1>9, <2>1, <2>4 DEF Waits
    <3>2. mbox'[Accept(s)].q = mbox[Accept(s)].q
      BY <1>16, Names
    <3> QED BY <3>0, <3>1, <3>2 DEF AcceptOK
  <2>6. Table'
    <3>1. ASSUME NEW s \in Servers, Unplaced(s)' PROVE ~InTable(Mine(s))'
      <4>1. CASE s = t
        <5>1. ~InTable(t)'
          BY <1>11, <2>4
        <5> QED BY <4>1, <5>1, <1>9 DEF InTable
      <4>2. CASE s # t
        <5>1. Unplaced(s) /\ Mine(s)' = Mine(s)
          BY <3>1, <4>2, <1>13, Names DEF SameView
        <5>2. ~InTable(Mine(s))
          BY <5>1 DEF Sound, Places, Table
        <5> QED BY <5>1, <5>2, <1>2 DEF InTable
      <4> QED BY <4>1, <4>2
    <3> QED BY <3>1, <1>2 DEF Sound, Places, Table
  <2>7. WwwQueue'
    <3>1. ASSUME NEW i, Parked(i) PROVE Parked(i)'
      <4>1. sock[i].conn # t
        BY <3>1, <1>0 DEF Parked
      <4> QED BY <3>1, <4>1, <1>2, <2>1, <1>9 DEF Parked
    <3> QED BY <3>1, <1>2 DEF Sound, Places, WwwQueue
  <2> QED BY <2>2, <2>3, <2>5, <2>6, <2>7 DEF Places
<1>18. \A b \in Boxes \ Own(t) : mbox'[b] = mbox[b]
  BY <1>6 DEF Own
<1>19. /\ \A d \in Conns : conn'[d].pcb = conn[d].pcb
       /\ \A d \in Conns : \/ conn'[d].st = conn[d].st
                           \/ conn[d].st # "none" /\ conn'[d].st = "freed" /\ ~tcp[d].cb
       /\ \A d \in Conns : d # Mine(t) => conn'[d].sem = conn[d].sem /\ conn'[d].state = conn[d].state
       /\ \A s \in Servers : /\ s # t => conn'[s] = conn[s]
                             /\ conn'[s].pcb = "listen" => conn[s].pcb = "listen"
                             /\ mbox'[Accept(s)].st = mbox[Accept(s)].st
  BY <1>0, <1>5, <1>16, Names
<1>20. Q' = Q
  BY <1>6, BoxNames, <1>0 DEF Q
<1>21. \A u \in Threads : ~CallerOf(u, t) /\ ~CallerOf(u, t)'
  <2>1. \A u \in Threads : ~CallerOf(u, t)
    BY <1>0, <1>10, CallersMine
  <2> QED BY <2>1, <1>13, <1>14 DEF SameView, CallerOf
<1>22. Answered(t)'
  BY <1>0, <1>2, <1>6, <1>20, <1>21, NobodyAsks
<1>23. \A d \in Netconns : d = Mine(t) \/ mbox'[Ans(d)].q # mbox[Ans(d)].q => Answered(d)'
  BY <1>9, <1>16, <1>22, Names
<1>24. \A d \in Conns : d = Mine(t) => ReadOK(d)'
  BY <1>9, Names
<1>25. thr'[t].pc \notin {"drain", "free", "taken", "asleep"}
  BY <1>e
<1>26. Sound'
  BY <1>0, <1>2, <1>3, <1>12, <1>14, <1>15, <1>17, <1>18, <1>19, <1>23, <1>24, <1>25, LocalSound
<1> QED BY <1>8, <1>26

(* The netconn goes: whoever deletes it is the only one that had it. *)
LEMMA DeleteFreeStep ==
  ASSUME Types, Sound, NEW t \in Threads, DeleteFree(t)
  PROVE  Types' /\ Sound'
<1>1. PICK c, i, r : c = thr[t].c /\ i = thr[t].fd /\ r = thr[t].ret
  OBVIOUS
<1>2. /\ thr[t].pc = "free" /\ mbox' = [mbox EXCEPT ![Ans(c)] = FreedBox]
      /\ conn' = [conn EXCEPT ![c].st = "freed", ![c].sem = "null"]
      /\ sock' = IF i = NoFd THEN sock ELSE [sock EXCEPT ![i] = [conn |-> NoConn, last |-> FALSE]]
      /\ thr' = [thr EXCEPT ![t] = [Thread(r) EXCEPT !.c = IF t \in Servers THEN c ELSE NoConn]]
      /\ UNCHANGED <<tcp, tp, www, net, resets>>
  BY <1>1 DEF DeleteFree
<1>3. c = Mine(t) /\ c \in Netconns /\ c # NoConn
  BY <1>1, <1>2, DeletersMine, Names
<1>4. /\ ~Caller(t) /\ Deleting(t) /\ Unplaced(t) /\ thr \in [Threads -> ThreadRecs] /\ r \in Words
      /\ c \in Netconns \cup {NoConn}
  BY <1>1, <1>2, ThreadTyped DEF Caller, Fetching, Deleting, Unplaced
<1>5. \/ /\ t \in Servers /\ t \notin Workers /\ i = NoFd /\ ~InTable(c)
         /\ (c = t /\ r = "bind") \/ (c \in Conns /\ net[c].port = t /\ r = "spawn")
      \/ /\ t \in Workers /\ t \notin Servers /\ r = Home(t) /\ i \in DOMAIN sock /\ sock[i].conn = c
         /\ c \in Conns
  <2>1. CASE t \in Servers
    <3>1. ServerCtl(t) /\ t \notin Workers
      BY <2>1, Names DEF Sound, Control
    <3>2. ~InTable(c)
      BY <1>3, <1>4, <2>1 DEF Sound, Places, Table
    <3> QED BY <1>1, <1>2, <2>1, <3>1, <3>2 DEF ServerCtl, OfServer
  <2>2. CASE t \in Workers
    <3>1. WorkerCtl(t) /\ t \notin Servers /\ thr[t].pc # Home(t)
      BY <1>2, <2>2, Names, Homes DEF Sound, Control
    <3> QED BY <1>1, <1>2, <2>2, <3>1 DEF WorkerCtl
  <2> QED BY <2>1, <2>2, Names
<1>n. NoFd \notin DOMAIN sock
  BY SockFacts
<1>6. /\ DOMAIN sock' = DOMAIN sock /\ \E n \in 2 .. NumSockets : sock' \in [0 .. n - 1 -> SockRecs]
  <2>1. PICK n \in 2 .. NumSockets : sock \in [0 .. n - 1 -> SockRecs]
    BY DEF Types
  <2>2. [conn |-> NoConn, last |-> FALSE] \in SockRecs
    BY DEF SockRecs
  <2> QED BY <1>2, <1>5, <2>1, <2>2
<1>7. \A j \in DOMAIN sock : IF sock[j].conn = c THEN sock'[j].conn = NoConn ELSE sock'[j] = sock[j]
  <2>1. CASE i = NoFd
    <3>1. ~InTable(c) /\ sock' = sock
      BY <1>2, <1>5, <1>n, <2>1
    <3> QED BY <3>1 DEF InTable
  <2>2. CASE i # NoFd
    <3>1. i \in DOMAIN sock /\ sock[i].conn = c
      BY <1>5, <2>2
    <3>2. \A j \in DOMAIN sock : sock[j].conn = c => j = i
      BY <3>1, <1>3 DEF Sound, Places, Table
    <3>3. sock' = [sock EXCEPT ![i] = [conn |-> NoConn, last |-> FALSE]]
      BY <1>2, <2>2
    <3> QED BY <3>1, <3>2, <3>3
  <2> QED BY <2>1, <2>2
<1>8. /\ thr' \in [Threads -> ThreadRecs] /\ (\A u \in Threads \ {t} : thr'[u] = thr[u])
      /\ thr'[t].pc = r /\ thr'[t].fd = NoFd /\ thr'[t].c = (IF t \in Servers THEN c ELSE NoConn)
  <2>1. PICK h : h = Thread(r)
    OBVIOUS
  <2>2. h \in ThreadRecs /\ h.pc = r /\ h.fd = NoFd /\ h.c = NoConn
    BY <1>4, <2>1, AtRest
  <2>3. PICK x : x = IF t \in Servers THEN c ELSE NoConn
    OBVIOUS
  <2>4. x \in Netconns \cup {NoConn}
    BY <1>3, <2>3
  <2>5. PICK g : g = [h EXCEPT !.c = x]
    OBVIOUS
  <2>6. g \in ThreadRecs /\ g.pc = r /\ g.fd = NoFd /\ g.c = x
    BY <2>2, <2>4, <2>5 DEF ThreadRecs
  <2>7. thr' = [thr EXCEPT ![t] = g]
    BY <1>2, <2>1, <2>3, <2>5
  <2> QED BY <1>4, <2>3, <2>6, <2>7
<1>9. /\ conn' \in [Netconns -> ConnRecs] /\ (\A d \in Netconns : d # c => conn'[d] = conn[d])
      /\ conn'[c].st = "freed" /\ conn'[c].pcb = conn[c].pcb
  <2>1. PICK h : h = [conn EXCEPT ![c].st = "freed"]
    OBVIOUS
  <2>2. conn' = [h EXCEPT ![c].sem = "null"]
    BY <1>2, <2>1
  <2>3. /\ h \in [Netconns -> ConnRecs] /\ (\A d \in Netconns : d # c => h[d] = conn[d])
        /\ h[c].st = "freed" /\ h[c].pcb = conn[c].pcb
    <3>1. conn \in [Netconns -> ConnRecs]
      BY DEF Types
    <3> QED BY <1>3, <2>1, <3>1 DEF ConnRecs
  <2>4. ConnEdited(h, conn', c, h[c].err, h[c].pcb, "null", h[c].state)
    BY <1>3, <2>2, <2>3, ConnSem DEF Sems
  <2> QED BY <2>3, <2>4 DEF ConnEdited
<1>10. /\ mbox' \in [Boxes -> BoxRecs] /\ (\A b \in Boxes : b # Ans(c) => mbox'[b] = mbox[b])
       /\ mbox'[Ans(c)].q = << >>
  <2>1. mbox \in [Boxes -> BoxRecs] /\ Ans(c) \in Boxes
    BY <1>3, BoxNames DEF Types
  <2> QED BY <1>2, <2>1, BoxValues
<1>11. Types'
  BY <1>2, <1>6, <1>8, <1>9, <1>10 DEF Types
<1>12. Mine(t)' = NoConn
  <2>1. CASE t \in Servers
    BY <1>5, <1>8, <2>1 DEF Mine
  <2>2. CASE t \notin Servers
    BY <1>5, <1>8, <2>2 DEF Mine
  <2> QED BY <2>1, <2>2
<1>13. r \in {"bind", "spawn", "idle", "off"}
  BY <1>5, Homes
<1>14. ~Fetching(t)' /\ ~Caller(t)' /\ ~Writing(t)' /\ ~Unplaced(t)'
  BY <1>8, <1>13 DEF Fetching, Caller, Writing, Unplaced
<1>15. Ctl(t)' /\ WriterOK(t)'
  <2>1. t \in Servers => ServerCtl(t)'
    BY <1>2, <1>5, <1>8, <1>14 DEF ServerCtl
  <2>2. t \in Workers => WorkerCtl(t)'
    BY <1>5, <1>8 DEF WorkerCtl
  <2> QED BY <1>14, <2>1, <2>2 DEF Ctl, WriterOK
<1>16. c \in Servers => c = t
  BY <1>3, OwnServer
<1>17. KeepThreads({t})
  <2>1. \A s \in Servers : s # t => conn'[s].st = conn[s].st
    BY <1>9, <1>16, Names
  <2> QED BY <1>2, <1>3, <1>6, <1>7, <1>8, <2>1 DEF KeepThreads
<1>18. \A u \in Threads : u # t => SameView(u)
  <2>1. PICK T \in SUBSET Threads : T = {t}
    OBVIOUS
  <2> QED BY <1>17, <2>1, OthersKeep
<1>19. \A d \in Netconns : /\ d # c => mbox'[Ans(d)] = mbox[Ans(d)]
                           /\ mbox'[Recv(d)] = mbox[Recv(d)]
                           /\ mbox'[Accept(d)] = mbox[Accept(d)]
  BY <1>3, <1>10, BoxNames DEF Ans, Recv, Accept
<1>20. Places'
  <2>1. \A u \in Threads : u # t => Mine(u)' = Mine(u) /\ Mine(u) # c
    BY <1>3, <1>18 DEF SameView, Sound, Places, Exclusive
  <2>2. Exclusive'
    BY <1>12, <2>1 DEF Sound, Places, Exclusive
  <2>4. \A d : d # NoConn => (InTable(d)' => InTable(d))
    BY <1>6, <1>7 DEF InTable
  <2>3. Alive'
    <3>1. \A d \in Netconns : d # c /\ conn[d].st = "live" => conn'[d].st = "live"
      BY <1>9
    <3>2. ASSUME NEW u \in Threads, Mine(u)' # NoConn PROVE conn'[Mine(u)'].st = "live"
      <4>1. Mine(u)' = Mine(u) /\ Mine(u) # c
        BY <3>2, <2>1, <1>12
      <4> QED BY <3>1, <3>2, <4>1, MineTyped DEF Sound, Places, Alive
    <3>3. ASSUME NEW k \in DOMAIN sock', sock'[k].conn # NoConn PROVE conn'[sock'[k].conn].st = "live"
      <4>1. k \in DOMAIN sock /\ sock'[k] = sock[k] /\ sock[k].conn # c
        BY <3>3, <1>6, <1>7
      <4>2. sock[k].conn \in Netconns
        BY <3>3, <4>1, SockFacts DEF SockRecs
      <4> QED BY <3>1, <3>3, <4>1, <4>2 DEF Sound, Places, Alive
    <3>4. \A d \in Netconns : conn'[d].st = "live" => mbox'[Ans(d)].st = "live"
      BY <1>9, <1>19 DEF Sound, Places, Alive
    <3> QED BY <3>2, <3>3, <3>4 DEF Alive
  <2>5. AcceptQueues'
    <3> SUFFICES ASSUME NEW s \in Servers PROVE AcceptOK(s)'
      BY DEF AcceptQueues
    <3>0. AcceptOK(s)
      BY DEF Sound, Places, AcceptQueues
    <3>1. ASSUME NEW d, Waits(s, d) PROVE Waits(s, d)'
      <4>1. d \in Netconns /\ d # c /\ d # NoConn
        BY <3>1, <1>3, Names DEF Waits
      <4> QED BY <3>1, <4>1, <1>2, <1>9, <1>12, <2>1, <2>4 DEF Waits
    <3>2. mbox'[Accept(s)].q = mbox[Accept(s)].q
      BY <1>19, Names
    <3> QED BY <3>0, <3>1, <3>2 DEF AcceptOK
  <2>6. Table'
    <3>1. ASSUME NEW s \in Servers, Unplaced(s)' PROVE ~InTable(Mine(s))'
      <4>2. s # t
        BY <3>1, <1>14
      <4>3. Unplaced(s) /\ Mine(s)' = Mine(s)
        BY <3>1, <4>2, <1>18, Names DEF SameView
      <4>4. ~InTable(Mine(s)) /\ Mine(s) # NoConn
        <5>1. ServerCtl(s)
          BY DEF Sound, Control
        <5>2. Mine(s) # NoConn
          BY <4>3, <5>1, Names DEF Unplaced, ServerCtl, Mine, OfServer, Fetching
        <5> QED BY <4>3, <5>2 DEF Sound, Places, Table
      <4> QED BY <4>3, <4>4, <2>4 DEF InTable
    <3>2. \A j, k \in DOMAIN sock' : sock'[j].conn = sock'[k].conn /\ sock'[j].conn # NoConn => j = k
      <4>1. \A j \in DOMAIN sock' : sock'[j].conn # NoConn => j \in DOMAIN sock /\ sock'[j].conn = sock[j].conn
        BY <1>6, <1>7
      <4> QED BY <4>1 DEF Sound, Places, Table
    <3> QED BY <3>1, <3>2 DEF Table
  <2>7. WwwQueue'
    <3>1. ASSUME NEW j, Parked(j) PROVE Parked(j)'
      <4>1. j \in DOMAIN sock /\ sock[j].conn # c /\ sock[j].conn # NoConn
        BY <3>1, <1>3, Names DEF Parked
      <4>2. sock'[j] = sock[j] /\ j \in DOMAIN sock'
        BY <4>1, <1>6, <1>7
      <4> QED BY <3>1, <4>1, <4>2, <1>2, <2>1, <1>12 DEF Parked
    <3> QED BY <3>1, <1>2 DEF Sound, Places, WwwQueue
  <2> QED BY <2>2, <2>3, <2>5, <2>6, <2>7 DEF Places
<1>21. \A b \in Boxes \ Own(t) : mbox'[b] = mbox[b]
  BY <1>3, <1>10 DEF Own
<1>22. c \in Conns => ~tcp[c].cb
  BY <1>1, <1>2 DEF Sound, Callbacks
<1>23. /\ \A d \in Conns : conn'[d].pcb = conn[d].pcb
       /\ \A d \in Conns : \/ conn'[d].st = conn[d].st
                           \/ conn[d].st # "none" /\ conn'[d].st = "freed" /\ ~tcp[d].cb
       /\ \A d \in Conns : d # Mine(t) => conn'[d].sem = conn[d].sem /\ conn'[d].state = conn[d].state
       /\ \A s \in Servers : /\ s # t => conn'[s] = conn[s]
                             /\ conn'[s].pcb = "listen" => conn[s].pcb = "listen"
                             /\ mbox'[Accept(s)].st = mbox[Accept(s)].st
  <2>1. conn[c].st = "live"
    BY <1>3 DEF Sound, Places, Alive
  <2> QED BY <1>3, <1>9, <1>16, <1>19, <1>22, <2>1, Names
<1>24. Q' = Q
  BY <1>10, BoxNames, <1>3 DEF Q
<1>25. \A u \in Threads : ~CallerOf(u, c) /\ ~CallerOf(u, c)'
  <2>1. \A u \in Threads : ~CallerOf(u, c)
    <3> SUFFICES ASSUME NEW u \in Threads, CallerOf(u, c) PROVE FALSE
      OBVIOUS
    <3>1. Mine(u) = c /\ u # t
      BY <1>3, <1>4, CallersMine DEF CallerOf
    <3> QED BY <3>1, <1>3 DEF Sound, Places, Exclusive
  <2> QED BY <2>1, <1>18, <1>14 DEF SameView, CallerOf
<1>26. Answered(c)'
  BY <1>2, <1>3, <1>10, <1>24, <1>25, NobodyAsks
<1>27. \A d \in Netconns : d = Mine(t) \/ mbox'[Ans(d)].q # mbox[Ans(d)].q => Answered(d)'
  BY <1>3, <1>19, <1>26
<1>28. \A d \in Conns : d = Mine(t) => ReadOK(d)'
  BY <1>2, <1>19, Names DEF Sound, Reading, ReadOK
<1>29. thr'[t].pc \notin {"drain", "free", "taken", "asleep"}
  BY <1>8, <1>13
<1>30. conn'[Mine(t)].st = "freed"
  BY <1>3, <1>9
<1>31. Sound'
  BY <1>2, <1>14, <1>15, <1>17, <1>20, <1>21, <1>23, <1>27, <1>28, <1>29, <1>30, LocalSound
<1> QED BY <1>11, <1>31

-----------------------------------------------------------------------------
(* The calls: a request for the transport thread, and the wait for its answer. *)

ApiOps == {"bind", "listen", "recv", "write", "delconn"}

LEMMA MsgFacts ==
  ASSUME NEW op \in ApiOps, NEW c \in Netconns, NEW l \in Int
  PROVE  LET m == Msg("api", op, c, l) IN
         m \in ApiMsgs /\ m \in Msgs /\ m \in Items /\ m.k = "api" /\ m.op = op /\ m.c = c
  BY DEF Msg, ApiMsgs, Msgs, Items, ApiOps

LEMMA CallAnswers ==
  ASSUME Types, Sound, NEW t \in Threads, NEW c \in Netconns, c = Mine(t), ~Caller(t),
         UNCHANGED <<tp, tcp, resets>>,
         \A u \in Threads : u # t => SameView(u),
         NEW m, m.k = "api", m.c = c, m.op = "delconn" <=> thr'[t].then = "drain",
         Q \in Seq(Items), m \in Items, Q' = Append(Q, m),
         \A d \in Netconns : mbox'[Ans(d)] = mbox[Ans(d)],
         CallerOf(t, c)'
  PROVE  Answers'
<1> SUFFICES ASSUME NEW d \in Netconns PROVE Answered(d)'
  BY DEF Answers
<1>0. PICK n : n = Len(Q) + 1
  OBVIOUS
<1>1. /\ \A i \in DOMAIN Q : i \in DOMAIN Q' /\ Q'[i] = Q[i] /\ i # n
      /\ \A i \in DOMAIN Q' : i \in DOMAIN Q \/ i = n
      /\ n \in DOMAIN Q' /\ Q'[n] = m
  BY <1>0, AppendFacts
<1>2. Answered(d)
  BY DEF Sound, Answers
<1>3. \A u \in Threads : u # t => (CallerOf(u, d)' <=> CallerOf(u, d)) /\ thr'[u] = thr[u]
  BY DEF SameView, CallerOf
<1>4. ~CallerOf(t, d)
  BY DEF CallerOf
<1>5. (Hand(d)' <=> Hand(d)) /\ (Told(d)' <=> Told(d)) /\ mbox'[Ans(d)].q = mbox[Ans(d)].q
  BY DEF Hand, Told
<1>6. CASE d # c
  <2>1. ~CallerOf(t, d)'
    BY <1>6 DEF CallerOf
  <2>2. \A i \in DOMAIN Q' : ReqAt(i, d)' => i \in DOMAIN Q /\ ReqAt(i, d) /\ Q'[i] = Q[i]
    BY <1>1, <1>6 DEF ReqAt
  <2>3. \A i \in DOMAIN Q : ReqAt(i, d) => i \in DOMAIN Q' /\ ReqAt(i, d)'
    BY <1>1 DEF ReqAt
  <2>4. Asked(d)' <=> Asked(d)
    BY <2>2, <2>3 DEF Asked
  <2>5. \A u \in Threads : CallerOf(u, d)' <=> CallerOf(u, d)
    BY <1>3, <1>4, <2>1
  <2>6. \A u \in Threads : CallerOf(u, d) => thr'[u] = thr[u]
    BY <1>3, <1>4
  <2>7. \A u \in Threads : CallerOf(u, d)' => Asked(d)' \/ Hand(d)' \/ Told(d)'
    BY <1>2, <1>5, <2>4, <2>5 DEF Answered
  <2>8. ASSUME d \notin resets
        PROVE  /\ \A i, j \in DOMAIN Q' : ReqAt(i, d)' /\ ReqAt(j, d)' => i = j
               /\ Len(mbox'[Ans(d)].q) <= 1
               /\ Asked(d)' => ~Hand(d)' /\ ~Told(d)'
               /\ Hand(d)' => ~Told(d)'
               /\ Asked(d)' \/ Hand(d)' \/ Told(d)' => \E u \in Threads : CallerOf(u, d)'
    BY <1>2, <1>5, <2>2, <2>4, <2>5, <2>8 DEF Answered
  <2>9. ASSUME d \notin resets, NEW u \in Threads, CallerOf(u, d)'
        PROVE  /\ \A i \in DOMAIN Q' : ReqAt(i, d)' => (Q'[i].op = "delconn" <=> thr'[u].then = "drain")
               /\ Hand(d)' => (tp'.m.op = "delconn" <=> thr'[u].then = "drain")
               /\ Told(d)' /\ thr'[u].then = "drain" /\ d \in Conns => ~tcp'[d].cb
    BY <1>2, <1>5, <2>2, <2>5, <2>6, <2>9 DEF Answered
  <2> QED BY <2>7, <2>8, <2>9 DEF Answered
<1>7. CASE d = c
  <2>1. \A u \in Threads : ~CallerOf(u, d)
    <3> SUFFICES ASSUME NEW u \in Threads, CallerOf(u, d) PROVE FALSE
      OBVIOUS
    <3>1. Mine(u) = d
      BY CallersMine
    <3>2. u = t
      BY <1>7, <3>1, Names DEF Sound, Places, Exclusive
    <3> QED BY <1>4, <3>2
  <2>2. d \notin resets => ~Asked(d) /\ ~Hand(d) /\ ~Told(d)
    BY <1>2, <2>1 DEF Answered
  <2>3. \A u \in Threads : CallerOf(u, d)' => u = t
    BY <1>3, <2>1
  <2>4. Asked(d)'
    BY <1>1, <1>7 DEF Asked, ReqAt
  <2>5. d \notin resets => \A i \in DOMAIN Q' : ReqAt(i, d)' => i = n
    BY <1>1, <2>2 DEF Asked, ReqAt
  <2>6. d \notin resets => Len(mbox'[Ans(d)].q) <= 1
    BY <1>2, <1>5 DEF Answered
  <2>7. \A i \in DOMAIN Q' : i = n => (Q'[i].op = "delconn" <=> thr'[t].then = "drain")
    BY <1>1
  <2> QED BY <1>5, <1>7, <2>2, <2>3, <2>4, <2>5, <2>6, <2>7 DEF Answered
<1> QED BY <1>6, <1>7

LEMMA CallSound ==
  ASSUME Types, Sound, NEW t \in Threads, NEW c \in Netconns, c = Mine(t), ~Caller(t), ~Deleting(t),
         NEW op \in ApiOps, NEW l \in Int, NEW h \in {"bound", "accept", "received", "wrote", "drain"},
         op \in {"bind", "listen"} => c \in Servers, op \in {"recv", "write"} => c \in Conns,
         op = "delconn" <=> h = "drain",
         NEW mb \in [Boxes -> BoxRecs],
         mbox' = PostOn(mb, Transport, Msg("api", op, c, l)),
         op # "listen" => mb = mbox,
         op = "listen" => mb = [mbox EXCEPT ![Accept(c)] = NewBox],
         Edited(thr, thr', t, "fetch", h, thr[t].ret, Ans(c), thr[t].fd, c, "null"),
         UNCHANGED <<conn, tcp, sock, tp, www, net, resets>>,
         Ctl(t)', t \in Workers => WriterOK(t)', Mine(t)' = Mine(t),
         t \in Servers => (Unplaced(t)' => Unplaced(t))
  PROVE  Types' /\ Sound'
<1>1. PICK m : m = Msg("api", op, c, l)
  OBVIOUS
<1>2. m \in Msgs /\ m \in Items /\ m.k = "api" /\ m.op = op /\ m.c = c
  BY <1>1, MsgFacts
<1>3. mbox \in [Boxes -> BoxRecs] /\ Transport \in Boxes
  BY BoxNames DEF Types
<1>4. /\ \A b \in Boxes : b # Accept(c) => mb[b] = mbox[b]
      /\ mb[Accept(c)] = mbox[Accept(c)] \/ (mb[Accept(c)] = NewBox /\ op = "listen")
  BY <1>3, BoxNames
<1>5. /\ mbox' \in [Boxes -> BoxRecs]
      /\ mbox'[Transport].st = mb[Transport].st /\ mbox'[Transport].q = Append(mb[Transport].q, m)
      /\ mbox'[Transport].mail = (mb[Transport].mail \/ mb[Transport].q = << >>)
      /\ \A b \in Boxes \ {Transport} : mbox'[b] = mb[b]
  BY <1>1, <1>2, <1>3, PostFacts
<1>6. mb[Transport] = mbox[Transport]
  BY <1>3, <1>4, BoxNames
<1>7. Q' = Append(Q, m) /\ Q \in Seq(Items)
  BY <1>3, <1>5, <1>6 DEF Q, BoxRecs
<1>8. \A d \in Netconns : /\ mbox'[Ans(d)] = mbox[Ans(d)] /\ mbox'[Recv(d)] = mbox[Recv(d)]
                          /\ d # c => mbox'[Accept(d)] = mbox[Accept(d)]
                          /\ mbox'[Accept(d)] = mbox[Accept(d)] \/ (mbox'[Accept(d)] = NewBox /\ d = c)
                          /\ d = c /\ op = "listen" => mbox'[Accept(d)].st = "live"
  <2>1. op = "listen" => mb[Accept(c)] = NewBox
    BY <1>3, BoxNames
  <2>2. op = "listen" => mb[Accept(c)].st = "live"
    BY <2>1, BoxValues
  <2>3. ASSUME NEW d \in Netconns
        PROVE  /\ mbox'[Ans(d)] = mb[Ans(d)] /\ mbox'[Recv(d)] = mb[Recv(d)]
               /\ mbox'[Accept(d)] = mb[Accept(d)]
               /\ mb[Ans(d)] = mbox[Ans(d)] /\ mb[Recv(d)] = mbox[Recv(d)]
               /\ d # c => mb[Accept(d)] = mbox[Accept(d)]
    <3>1. /\ {Ans(d), Recv(d), Accept(d)} \subseteq Boxes \ {Transport}
          /\ Ans(d) # Accept(c) /\ Recv(d) # Accept(c) /\ (d # c => Accept(d) # Accept(c))
      <4>1. {Ans(d), Recv(d), Accept(d)} \subseteq Boxes \ {Transport}
        BY BoxNames, Zenon
      <4>2. Ans(d) # Accept(c) /\ Recv(d) # Accept(c) /\ (d # c => Accept(d) # Accept(c))
        BY DEF Ans, Recv, Accept
      <4> QED BY <4>1, <4>2
    <3> QED BY <1>4, <1>5, <3>1
  <2> QED BY <1>4, <2>2, <2>3
<1>e. /\ thr' \in [Threads -> ThreadRecs] /\ (\A u \in Threads \ {t} : thr'[u] = thr[u])
      /\ thr'[t].pc = "fetch" /\ thr'[t].then = h /\ thr'[t].c = c /\ thr'[t].on = Ans(c)
  BY DEF Edited
<1>9. Types'
  BY <1>5, <1>e DEF Types
<1>10. KeepThreads({t})
  BY <1>e DEF KeepThreads
<1>11. \A u \in Threads : u # t => SameView(u)
  <2>1. PICK T \in SUBSET Threads : T = {t}
    OBVIOUS
  <2> QED BY <1>10, <2>1, OthersKeep
<1>12. CallerOf(t, c)'
  BY <1>e DEF CallerOf, Caller, Fetching
<1>13. Answers'
  <2>1. m.op = "delconn" <=> thr'[t].then = "drain"
    BY <1>2, <1>e
  <2>2. \A d \in Netconns : mbox'[Ans(d)] = mbox[Ans(d)]
    BY <1>8
  <2> QED BY <1>2, <1>7, <1>11, <1>12, <2>1, <2>2, CallAnswers
<1>14. Places'
  <2>1. \A s \in Servers : mbox'[Accept(s)].q \in {mbox[Accept(s)].q, << >>}
    BY <1>8, BoxValues, Names
  <2>2. SamePlaces
    BY <1>8, <1>11, <2>1, Names DEF SamePlaces, SameView
  <2> QED BY <2>2, PlacesKeep
<1>15. op = "listen" => t \in Servers /\ c = t
  BY OwnServer
<1>16. \A b \in Boxes \ (Own(t) \cup {Transport}) : mbox'[b] = mbox[b]
  <2> SUFFICES ASSUME NEW b \in Boxes, b \notin Own(t), b # Transport PROVE mbox'[b] = mbox[b]
    OBVIOUS
  <2>1. CASE b = Accept(c)
    <3>1. op # "listen"
      BY <1>15, <2>1 DEF Own
    <3> QED BY <1>5, <3>1
  <2>2. CASE b # Accept(c)
    BY <1>4, <1>5, <2>2
  <2> QED BY <2>1, <2>2
<1>17. \A d \in Conns : d = Mine(t) => ReadOK(d)'
  BY <1>8, Names DEF Sound, Reading, ReadOK
<1>18. /\ Control' /\ Callbacks' /\ Reading' /\ Writers'
       /\ \A u \in Threads : thr'[u].pc = "asleep" /\ mbox'[thr'[u].on].q # << >>
                               => mbox'[thr'[u].on].mail
  <2>1. thr'[t].pc \notin {"drain", "free", "taken", "asleep"}
    BY <1>e
  <2>2. /\ \A d \in Conns : conn'[d].pcb = conn[d].pcb
        /\ \A d \in Conns : \/ conn'[d].st = conn[d].st
                            \/ conn[d].st # "none" /\ conn'[d].st = "freed" /\ ~tcp[d].cb
        /\ \A d \in Conns : d # Mine(t) => conn'[d].sem = conn[d].sem /\ conn'[d].state = conn[d].state
    OBVIOUS
  <2>3. UNCHANGED <<tp, tcp, net, resets>>
    OBVIOUS
  <2> QED BY <1>10, <1>16, <1>17, <2>1, <2>2, <2>3, LocalRest
<1>0. PICK n : n = Len(Q) + 1
  OBVIOUS
<1>19. /\ \A i \in DOMAIN Q : i \in DOMAIN Q' /\ Q'[i] = Q[i] /\ i # n
       /\ \A i \in DOMAIN Q' : i \in DOMAIN Q \/ i = n
       /\ n \in DOMAIN Q' /\ Q'[n] = m
  BY <1>0, <1>2, <1>7, AppendFacts
<1>20. SynOnce'
  <2>1. \A d \in Conns : (SynInHand(d)' <=> SynInHand(d))
    BY DEF SynInHand
  <2>2. \A d \in Conns : \A i \in DOMAIN Q' : SynAt(i, d)' => i \in DOMAIN Q /\ SynAt(i, d)
    BY <1>2, <1>19 DEF SynAt
  <2> QED BY <2>1, <2>2 DEF Sound, SynOnce
<1>21. Messages'
  <2>1. \A d \in Netconns : mbox[Accept(d)].st = "live" => mbox'[Accept(d)].st = "live"
    BY <1>8, BoxValues
  <2>2. \A x \in Msgs : ApiOK(x) => ApiOK(x)'
    BY <2>1, Names DEF ApiOK
  <2>3. ApiOK(m)'
    BY <1>2, <1>8, Names DEF ApiOK
  <2>4. \A i \in DOMAIN Q : Q[i] \in Msgs /\ ApiOK(Q[i])
    BY DEF Sound, Messages
  <2>5. ASSUME NEW i \in DOMAIN Q' PROVE Q'[i] \in Msgs /\ ApiOK(Q[i])'
    <3>1. CASE i \in DOMAIN Q
      <4>1. PICK x : x = Q[i]
        OBVIOUS
      <4>2. x \in Msgs /\ ApiOK(x)' /\ Q'[i] = x
        BY <1>19, <2>2, <2>4, <3>1, <4>1
      <4> QED BY <4>2
    <3>2. CASE i = n
      BY <1>2, <1>19, <2>3, <3>2
    <3> QED BY <1>19, <3>1, <3>2
  <2>6. tp'.pc = "run" => tp'.m \in Msgs /\ ApiOK(tp.m)'
    BY <2>2 DEF Sound, Messages
  <2>7. \A s \in Servers : conn'[s].pcb = "listen" => mbox'[Accept(s)].st = "live"
    BY <2>1, Names DEF Sound, Messages
  <2> QED BY <1>5, <1>6, <2>5, <2>6, <2>7 DEF Sound, Messages
<1>22. Mail'
  <2>1. tp'.pc = "asleep" => mbox'[Transport].mail
    BY <1>5, <1>6 DEF Sound, Mail
  <2> QED BY <1>18, <2>1 DEF Mail
<1> QED BY <1>9, <1>13, <1>14, <1>18, <1>20, <1>21, <1>22 DEF Sound

LEMMA CallEffect ==
  ASSUME Types, NEW t \in Threads, NEW op, NEW c \in Netconns, NEW l, NEW h \in Words,
         Call(t, op, c, l, h), fault' = "none", thr[t].c = c
  PROVE  /\ mbox' = PostOn(mbox, Transport, Msg("api", op, c, l))
         /\ Edited(thr, thr', t, "fetch", h, thr[t].ret, Ans(c), thr[t].fd, c, "null")
<1>1. /\ mbox' = PostOn(mbox, Transport, Msg("api", op, c, l))
      /\ thr' = FetchFrom(t, Ans(c), h)
  BY DEF Call, Post
<1>2. Ans(c) \in Boxes
  BY BoxNames
<1>3. Edited(thr, FetchFrom(t, Ans(c), h), t, "fetch", h, thr[t].ret, Ans(c), thr[t].fd, thr[t].c, "null")
  BY <1>2, FetchEffect
<1> QED BY <1>1, <1>3

LEMMA NetconnBindStep ==
  ASSUME Types, Sound, NEW t \in Servers, NetconnBind(t), fault' = "none"
  PROVE  Types' /\ Sound'
<1>0. t \in Threads /\ t \in Netconns
  BY Names
<1>1. /\ thr[t].pc = "bind" /\ thr[t].pc \in OnlyServers
      /\ UNCHANGED <<conn, tcp, sock, tp, www, net, resets>>
  BY DEF NetconnBind, OnlyServers
<1>2. thr[t].fd # NoFd /\ Call(t, "bind", t, 0, "bound")
  BY DEF NetconnBind, FdFault
<1>3. /\ t \notin Workers /\ ServerCtl(t) /\ ~Caller(t) /\ ~Deleting(t)
  BY <1>0, <1>1, ServerAt
<1>4. thr[t].c = t /\ Mine(t) = t
  BY <1>1, <1>2, <1>3, MineServer DEF ServerCtl
<1>w. "bound" \in Words
  BY WordIn
<1>5. /\ mbox' = PostOn(mbox, Transport, Msg("api", "bind", t, 0))
      /\ Edited(thr, thr', t, "fetch", "bound", thr[t].ret, Ans(t), thr[t].fd, t, "null")
  BY <1>0, <1>2, <1>4, <1>w, CallEffect
<1>e. /\ thr'[t].pc = "fetch" /\ thr'[t].then = "bound" /\ thr'[t].on = Ans(t) /\ thr'[t].c = t
  BY <1>5 DEF Edited
<1>6. ServerCtl(t)' /\ Mine(t)' = t /\ ~Unplaced(t)'
  BY <1>e DEF ServerCtl, Fetching, Mine, Unplaced
<1>7. Ctl(t)'
  BY <1>3, <1>6 DEF Ctl
<1>8. "bind" \in ApiOps /\ 0 \in Int /\ mbox \in [Boxes -> BoxRecs]
  BY DEF ApiOps, Types
<1>9. PICK op, h : op = "bind" /\ h = "bound"
  OBVIOUS
<1>10. /\ op \in ApiOps /\ h \in {"bound", "accept", "received", "wrote", "drain"}
       /\ op \notin {"listen", "recv", "write"} /\ (op = "delconn" <=> h = "drain")
       /\ mbox' = PostOn(mbox, Transport, Msg("api", op, t, 0))
       /\ Edited(thr, thr', t, "fetch", h, thr[t].ret, Ans(t), thr[t].fd, t, "null")
  BY <1>5, <1>8, <1>9
<1> QED BY <1>0, <1>1, <1>3, <1>4, <1>6, <1>7, <1>8, <1>10, CallSound

LEMMA NetconnListenStep ==
  ASSUME Types, Sound, NEW t \in Servers, NetconnListen(t), fault' = "none"
  PROVE  Types' /\ Sound'
<1>0. t \in Threads /\ t \in Netconns /\ Ans(t) \in Boxes /\ Accept(t) \in Boxes
  BY Names, BoxNames
<1>m. PICK mb : mb = [mbox EXCEPT ![Accept(t)] = NewBox]
  OBVIOUS
<1>1. /\ thr[t].pc = "listen" /\ thr[t].pc \in OnlyServers
      /\ UNCHANGED <<conn, tcp, sock, tp, www, net, resets>>
  BY DEF NetconnListen, OnlyServers
<1>2. /\ mbox' = PostOn(mb, Transport, Msg("api", "listen", t, 0))
      /\ thr' = FetchFrom(t, Ans(t), "accept")
  BY <1>m DEF NetconnListen
<1>3. /\ t \notin Workers /\ ServerCtl(t) /\ ~Caller(t) /\ ~Deleting(t)
  BY <1>0, <1>1, ServerAt
<1>4. thr[t].c = t /\ Mine(t) = t
  BY <1>1, <1>2, <1>3, MineServer DEF ServerCtl
<1>w. "accept" \in Words
  BY WordIn
<1>5. Edited(thr, FetchFrom(t, Ans(t), "accept"), t, "fetch", "accept", thr[t].ret,
             Ans(t), thr[t].fd, thr[t].c, "null")
  BY <1>0, <1>w, FetchEffect
<1>b. Edited(thr, thr', t, "fetch", "accept", thr[t].ret, Ans(t), thr[t].fd, t, "null")
  BY <1>2, <1>4, <1>5
<1>e. /\ thr'[t].pc = "fetch" /\ thr'[t].then = "accept" /\ thr'[t].on = Ans(t) /\ thr'[t].c = t
  BY <1>b DEF Edited
<1>6. ServerCtl(t)' /\ Mine(t)' = t /\ ~Unplaced(t)'
  BY <1>e DEF ServerCtl, Fetching, Mine, Unplaced
<1>7. Ctl(t)'
  BY <1>3, <1>6 DEF Ctl
<1>8. "listen" \in ApiOps /\ 0 \in Int
  BY DEF ApiOps
<1>c. mb \in [Boxes -> BoxRecs]
  <2>1. mbox \in [Boxes -> BoxRecs]
    BY DEF Types
  <2> QED BY <1>0, <1>m, <2>1, BoxValues
<1>9. PICK op, h : op = "listen" /\ h = "accept"
  OBVIOUS
<1>10. /\ op \in ApiOps /\ h \in {"bound", "accept", "received", "wrote", "drain"}
       /\ op \notin {"recv", "write"} /\ op = "listen" /\ (op = "delconn" <=> h = "drain")
       /\ mbox' = PostOn(mb, Transport, Msg("api", op, t, 0))
       /\ Edited(thr, thr', t, "fetch", h, thr[t].ret, Ans(t), thr[t].fd, t, "null")
  BY <1>2, <1>b, <1>8, <1>9
<1> QED BY <1>0, <1>m, <1>c, <1>1, <1>3, <1>4, <1>6, <1>7, <1>8, <1>10, CallSound

LEMMA RecvTakenStep ==
  ASSUME Types, Sound, NEW t \in Threads, RecvTaken(t), fault' = "none"
  PROVE  Types' /\ Sound'
<1>1. /\ thr[t].pc = "taken" /\ thr[t].pc \in OnlyWorkers
      /\ UNCHANGED <<conn, tcp, sock, tp, www, net, resets>>
  BY DEF RecvTaken, OnlyWorkers
<1>2. CASE thr[t].got = "null"
  <2>1. mbox' = [mbox EXCEPT ![Recv(thr[t].c)] = NullBox] /\ Return(t, 0)
    BY <1>2 DEF RecvTaken
  <2> QED BY <1>1, <1>2, <2>1, RecvEnds
<1>3. CASE thr[t].got # "null"
  <2>0. PICK c : c = thr[t].c
    OBVIOUS
  <2>1. Call(t, "recv", c, 0, "received")
    BY <1>3, <2>0 DEF RecvTaken
  <2>2. /\ t \in Workers /\ t \notin Servers /\ c = Mine(t) /\ thr[t].c = c /\ c \in Conns /\ c \in Netconns
        /\ ~Caller(t) /\ ~Deleting(t)
    BY <1>1, <2>0, WorkerAt
  <2>w. "received" \in Words
    BY WordIn
  <2>5. /\ mbox' = PostOn(mbox, Transport, Msg("api", "recv", c, 0))
        /\ Edited(thr, thr', t, "fetch", "received", thr[t].ret, Ans(c), thr[t].fd, c, "null")
    BY <2>1, <2>2, <2>w, CallEffect
  <2>e. /\ thr'[t].pc = "fetch" /\ thr'[t].then = "received" /\ thr'[t].on = Ans(c) /\ thr'[t].c = c
        /\ thr'[t].fd = thr[t].fd
    BY <2>5 DEF Edited
  <2>6. /\ Ctl(t)' /\ Mine(t)' = Mine(t) /\ Fetching(t)' = (thr'[t].pc = "fetch")
    <3>1. thr'[t].pc \in OnlyWorkers \cup {"del", "fetch"} /\ thr'[t].pc # "del"
          /\ ~(thr'[t].pc \in OnlyWorkers \ {"recv", "close", "taken", "received"})
      BY <2>e DEF OnlyWorkers
    <3>2. thr'[t].then = "received" /\ thr'[t].on = Ans(Mine(t)) /\ thr'[t].c = Mine(t)
      BY <2>2, <2>e
    <3> QED BY <1>1, <2>e, <3>1, <3>2, WorkerMoves
  <2>7. WriterOK(t)'
    BY <2>e DEF WriterOK, Writing
  <2>8. "recv" \in ApiOps /\ 0 \in Int /\ mbox \in [Boxes -> BoxRecs]
    BY DEF ApiOps, Types
  <2>9. PICK op, h : op = "recv" /\ h = "received"
    OBVIOUS
  <2>10. /\ op \in ApiOps /\ h \in {"bound", "accept", "received", "wrote", "drain"}
         /\ op \notin {"bind", "listen"} /\ (op = "delconn" <=> h = "drain")
         /\ mbox' = PostOn(mbox, Transport, Msg("api", op, c, 0))
         /\ Edited(thr, thr', t, "fetch", h, thr[t].ret, Ans(c), thr[t].fd, c, "null")
    BY <2>5, <2>8, <2>9
  <2> QED BY <1>1, <2>2, <2>6, <2>7, <2>8, <2>10, CallSound
<1> QED BY <1>2, <1>3

LEMMA WriteChunkStep ==
  ASSUME Types, Sound, NEW t \in Threads, WriteChunk(t), fault' = "none"
  PROVE  Types' /\ Sound'
<1>0. PICK c, n : c = thr[t].c /\ n = Min({thr[t].size, tcp[c].room})
  OBVIOUS
<1>1. /\ thr[t].pc = "chunk" /\ thr[t].pc \in OnlyWorkers /\ thr[t].pc \in WritePcs
      /\ UNCHANGED <<conn, tcp, sock, tp, www, net, resets>>
  BY DEF WriteChunk, OnlyWorkers, WritePcs
<1>2. /\ conn[c].pcb # "null" /\ mbox' = PostOn(mbox, Transport, Msg("api", "write", c, n))
      /\ thr' = [FetchFrom(t, Ans(c), "wrote") EXCEPT ![t].len = n]
  BY <1>0 DEF WriteChunk, Post
<1>3. /\ t \in Workers /\ t \notin Servers /\ c = Mine(t) /\ thr[t].c = c /\ c \in Conns /\ c \in Netconns
      /\ ~Caller(t) /\ ~Deleting(t)
  BY <1>0, <1>1, WorkerAt
<1>n. n \in Int
  <2>1. thr[t].size \in Int
    BY ThreadTyped
  <2>2. tcp[c].room \in Int
    BY <1>3 DEF Types, TcpRecs
  <2>3. PICK a, b \in Int : a = thr[t].size /\ b = tcp[c].room
    BY <2>1, <2>2
  <2>4. \E x \in {a, b} : \A y \in {a, b} : x <= y
    OBVIOUS
  <2>5. Min({a, b}) \in {a, b}
    BY <2>4 DEF Min
  <2> QED BY <1>0, <2>3, <2>5
<1>w. "wrote" \in Words
  BY WordIn
<1>b. Ans(c) \in Boxes
  BY <1>3, BoxNames
<1>4. Edited(thr, thr', t, "fetch", "wrote", thr[t].ret, Ans(c), thr[t].fd, thr[t].c, "null")
  BY <1>2, <1>n, <1>w, <1>b, FetchThenLen
<1>5. Edited(thr, thr', t, "fetch", "wrote", thr[t].ret, Ans(c), thr[t].fd, c, "null")
  BY <1>3, <1>4
<1>e. /\ thr'[t].pc = "fetch" /\ thr'[t].then = "wrote" /\ thr'[t].on = Ans(c) /\ thr'[t].c = c
      /\ thr'[t].fd = thr[t].fd /\ thr'[t].ret = thr[t].ret
  BY <1>5 DEF Edited
<1>f. thr[t].ret \in {"recv", "close"} /\ conn[c].state = "write" /\ conn[c].sem # "null"
  BY <1>1, <1>3, WriterAt
<1>g. tcp[c].cb
  BY <1>2, <1>3, OpenCallsBack
<1>6. /\ Ctl(t)' /\ Mine(t)' = Mine(t) /\ Fetching(t)' = (thr'[t].pc = "fetch")
  <2>1. thr'[t].pc \in OnlyWorkers \cup {"del", "fetch"} /\ thr'[t].pc # "del"
        /\ ~(thr'[t].pc \in OnlyWorkers \ {"recv", "close", "taken", "received"})
    BY <1>e DEF OnlyWorkers
  <2>2. thr'[t].then = "wrote" /\ thr'[t].on = Ans(Mine(t)) /\ thr'[t].c = Mine(t)
        /\ thr'[t].ret \in {"recv", "close"}
    BY <1>3, <1>e, <1>f
  <2> QED BY <1>1, <1>e, <2>1, <2>2, WorkerMoves
<1>7. WriterOK(t)'
  BY <1>1, <1>e, <1>f, <1>g DEF WriterOK
<1>8. "write" \in ApiOps /\ mbox \in [Boxes -> BoxRecs]
  BY DEF ApiOps, Types
<1>9. PICK op, h : op = "write" /\ h = "wrote"
  OBVIOUS
<1>10. /\ op \in ApiOps /\ h \in {"bound", "accept", "received", "wrote", "drain"}
       /\ op \notin {"bind", "listen"} /\ (op = "delconn" <=> h = "drain")
       /\ mbox' = PostOn(mbox, Transport, Msg("api", op, c, n))
       /\ Edited(thr, thr', t, "fetch", h, thr[t].ret, Ans(c), thr[t].fd, c, "null")
  BY <1>2, <1>5, <1>8, <1>9
<1> QED BY <1>1, <1>3, <1>n, <1>6, <1>7, <1>8, <1>10, CallSound

LEMMA NetconnDeleteStep ==
  ASSUME Types, Sound, NEW t \in Threads, NetconnDelete(t), fault' = "none"
  PROVE  Types' /\ Sound'
<1>0. PICK c : c = thr[t].c
  OBVIOUS
<1>1. /\ thr[t].pc = "del" /\ Call(t, "delconn", c, 0, "drain")
      /\ UNCHANGED <<conn, tcp, sock, tp, www, net, resets>>
  BY <1>0 DEF NetconnDelete
<1>3. /\ c = Mine(t) /\ thr[t].c = c /\ c \in Netconns /\ ~Caller(t) /\ ~Deleting(t) /\ Unplaced(t)
  BY <1>0, <1>1, DeletersMine DEF Caller, Fetching, Deleting, Unplaced
<1>w. "drain" \in Words
  BY WordIn
<1>5. /\ mbox' = PostOn(mbox, Transport, Msg("api", "delconn", c, 0))
      /\ Edited(thr, thr', t, "fetch", "drain", thr[t].ret, Ans(c), thr[t].fd, c, "null")
  BY <1>1, <1>3, <1>w, CallEffect
<1>e. /\ thr'[t].pc = "fetch" /\ thr'[t].then = "drain" /\ thr'[t].on = Ans(c) /\ thr'[t].c = c
      /\ thr'[t].fd = thr[t].fd /\ thr'[t].ret = thr[t].ret
  BY <1>5 DEF Edited
<1>f. Fetching(t)' /\ ~Writing(t)'
  BY <1>e DEF Fetching, Writing
<1>6. /\ Ctl(t)' /\ Mine(t)' = Mine(t)
  <2>1. CASE t \in Servers
    <3>1. ServerCtl(t) /\ t \notin Workers
      BY <2>1, Names DEF Sound, Control
    <3>2. OfServer(t, thr[t].c, thr[t].ret) /\ thr[t].fd = NoFd
      BY <1>1, <3>1 DEF ServerCtl
    <3>3. ServerCtl(t)'
      BY <1>0, <1>1, <1>e, <3>2 DEF ServerCtl, OfServer
    <3>4. Mine(t)' = Mine(t)
      BY <1>0, <1>e, <1>1, <2>1 DEF Mine
    <3> QED BY <3>1, <3>3, <3>4 DEF Ctl
  <2>2. CASE t \in Workers
    <3>1. WorkerCtl(t) /\ t \notin Servers /\ thr[t].pc # Home(t) /\ thr'[t].pc # Home(t)
      BY <1>1, <1>e, <2>2, Names, Homes DEF Sound, Control
    <3>2. thr[t].ret = Home(t) /\ thr[t].c = sock[thr[t].fd].conn
      BY <1>1, <3>1 DEF WorkerCtl
    <3>3. WorkerCtl(t)'
      BY <1>1, <1>0, <1>e, <1>f, <3>1, <3>2 DEF WorkerCtl
    <3>4. Mine(t)' = Mine(t)
      BY <1>e, <1>1, <3>1 DEF Mine
    <3> QED BY <3>1, <3>3, <3>4 DEF Ctl
  <2> QED BY <2>1, <2>2, Names
<1>7. WriterOK(t)'
  BY <1>f DEF WriterOK
<1>8. "delconn" \in ApiOps /\ 0 \in Int /\ mbox \in [Boxes -> BoxRecs]
  BY DEF ApiOps, Types
<1>9. PICK op, h : op = "delconn" /\ h = "drain"
  OBVIOUS
<1>10. /\ op \in ApiOps /\ h \in {"bound", "accept", "received", "wrote", "drain"}
       /\ op \notin {"bind", "listen", "recv", "write"} /\ (op = "delconn" <=> h = "drain")
       /\ mbox' = PostOn(mbox, Transport, Msg("api", op, c, 0))
       /\ Edited(thr, thr', t, "fetch", h, thr[t].ret, Ans(c), thr[t].fd, c, "null")
  BY <1>5, <1>8, <1>9
<1> QED BY <1>1, <1>3, <1>6, <1>7, <1>8, <1>10, CallSound

-----------------------------------------------------------------------------
(* The steps of the transport thread: the application threads stay where they are. *)

TpKeep ==
  /\ UNCHANGED <<thr, sock, www>>
  /\ \A c \in Conns : net'[c].port = net[c].port
  /\ \A s \in Servers : conn'[s].st = conn[s].st

LEMMA RestFacts ==
  /\ Rest \in TpRecs /\ Rest.pc = "test"
  /\ Rest.m = NoMsg /\ Rest.box = FALSE
  BY DEF Rest, TpRecs, NoMsg

LEMMA TpControl ==
  ASSUME Types, Sound, TpKeep
  PROVE  /\ Control' /\ \A u \in Threads : SameView(u)
         /\ \A u \in Threads : \A c : CallerOf(u, c)' <=> CallerOf(u, c)
<1>1. PICK T \in SUBSET Threads : T = {}
  OBVIOUS
<1>2. KeepThreads(T)
  BY <1>1 DEF KeepThreads, TpKeep
<1>3. \A u \in Threads : SameView(u) /\ Ctl(u)'
  BY <1>1, <1>2, OthersKeep
<1>4. Control'
  BY <1>3, Names DEF Control, Ctl
<1> QED BY <1>3, <1>4 DEF SameView, CallerOf

LEMMA TpPlaces ==
  ASSUME Types, Sound, TpKeep,
         \A c \in Netconns : conn'[c].st = conn[c].st /\ mbox'[Ans(c)].st = mbox[Ans(c)].st,
         \A s \in Servers : mbox'[Accept(s)].q = mbox[Accept(s)].q
  PROVE  Places'
<1>1. \A u \in Threads : SameView(u)
  BY TpControl
<1>2. SamePlaces
  BY <1>1, Names DEF SamePlaces, SameView, TpKeep
<1> QED BY <1>2, PlacesKeep

LEMMA TpSyn ==
  ASSUME Types, Sound, Q' = Q,
         \A c \in Conns : /\ net'[c].syn => net[c].syn
                          /\ SynInHand(c)' => SynInHand(c)
                          /\ \/ conn[c].st = "none" => conn'[c].st = "none"
                             \/ SynInHand(c) /\ ~SynInHand(c)'
  PROVE  SynOnce'
<1>1. \A i, c : SynAt(i, c)' <=> SynAt(i, c)
  BY DEF SynAt
<1> QED BY <1>1 DEF Sound, SynOnce

(* What the transport thread has in hand. *)
TpOK ==
  /\ tp.pc = "run" => tp.m \in Msgs /\ ApiOK(tp.m)
  /\ tp.pc = "give" => /\ tp.m \in InMsgs /\ tcp[tp.m.c].cb
                       /\ tp.m.op = "fin" => tcp[tp.m.c].gotfin
  /\ tp.pc \in {"err", "tell"} => tp.m \in InMsgs /\ tp.m.c \in resets

LEMMA TpResting ==
  ASSUME tp' = Rest
  PROVE  /\ TpOK' /\ tp' \in TpRecs /\ tp'.pc # "asleep"
         /\ \A c : ~Hand(c)' /\ ~SynInHand(c)'
  BY RestFacts DEF TpOK, Hand, SynInHand

LEMMA TpMessages ==
  ASSUME Types, Sound, Q' = Q, mbox'[Transport].st = mbox[Transport].st,
         \A s \in Servers : /\ mbox[Accept(s)].st = "live" => mbox'[Accept(s)].st = "live"
                            /\ conn'[s].pcb = "listen" => mbox'[Accept(s)].st = "live",
         TpOK'
  PROVE  Messages'
<1>1. \A x \in Msgs : ApiOK(x) => ApiOK(x)'
  <2>1. \A x \in Msgs : x.k = "api" /\ x.op = "listen" /\ ApiOK(x) => x.c \in Servers
    BY DEF ApiOK
  <2> QED BY <2>1 DEF ApiOK
<1>2. \A i \in DOMAIN Q : Q[i] \in Msgs /\ ApiOK(Q[i])
  BY DEF Sound, Messages
<1>3. \A i \in DOMAIN Q' : Q'[i] \in Msgs /\ ApiOK(Q[i])'
  BY <1>1, <1>2
<1> QED BY <1>3 DEF Sound, Messages, TpOK

LEMMA TpAnswers ==
  ASSUME Types, Sound, TpKeep, Q' = Q, resets \subseteq resets',
         \A d \in Netconns : /\ Hand(d)' <=> Hand(d)
                             /\ Hand(d) => tp'.m.op = tp.m.op
                             /\ d \notin resets' => mbox'[Ans(d)].q = mbox[Ans(d)].q
                             /\ Told(d) => Told(d)',
         \A d \in Conns : d \notin resets' /\ (\E t \in Threads : CallerOf(t, d)) /\ tcp'[d].cb
                            => tcp[d].cb
  PROVE  Answers'
<1> SUFFICES ASSUME NEW d \in Netconns PROVE Answered(d)'
  BY DEF Answers
<1>1. Answered(d)
  BY DEF Sound, Answers
<1>2. \A u \in Threads : CallerOf(u, d)' <=> CallerOf(u, d)
  BY TpControl
<1>3. (Asked(d)' <=> Asked(d)) /\ \A i : ReqAt(i, d)' <=> ReqAt(i, d)
  BY DEF Asked, ReqAt
<1>4. d \notin resets' => (Told(d)' <=> Told(d))
  BY DEF Told
<1>5. \A u \in Threads : thr'[u] = thr[u]
  BY DEF TpKeep
<1>6. \A u \in Threads : CallerOf(u, d)' => Asked(d)' \/ Hand(d)' \/ Told(d)'
  BY <1>1, <1>2, <1>3 DEF Answered
<1>7. ASSUME d \notin resets'
      PROVE  /\ \A i, j \in DOMAIN Q' : ReqAt(i, d)' /\ ReqAt(j, d)' => i = j
             /\ Len(mbox'[Ans(d)].q) <= 1
             /\ Asked(d)' => ~Hand(d)' /\ ~Told(d)'
             /\ Hand(d)' => ~Told(d)'
             /\ Asked(d)' \/ Hand(d)' \/ Told(d)' => \E t \in Threads : CallerOf(t, d)'
  BY <1>1, <1>2, <1>3, <1>4, <1>7 DEF Answered
<1>8. ASSUME d \notin resets', NEW u \in Threads, CallerOf(u, d)'
      PROVE  /\ \A i \in DOMAIN Q' : ReqAt(i, d)' => (Q'[i].op = "delconn" <=> thr'[u].then = "drain")
             /\ Hand(d)' => (tp'.m.op = "delconn" <=> thr'[u].then = "drain")
             /\ Told(d)' /\ thr'[u].then = "drain" /\ d \in Conns => ~tcp'[d].cb
  BY <1>1, <1>2, <1>3, <1>4, <1>5, <1>8 DEF Answered
<1> QED BY <1>6, <1>7, <1>8 DEF Answered

(* Nothing is lost from a mailbox whose reader sleeps. *)
MailKeeps(b) ==
  (mbox[b].q # << >> => mbox[b].mail) => (mbox'[b].q # << >> => mbox'[b].mail)

LEMMA TpMail ==
  ASSUME Types, Sound, TpKeep, \A b \in Boxes : MailKeeps(b),
         tp'.pc = "asleep" => tp.pc = "asleep" \/ mbox'[Transport].q = << >>
  PROVE  Mail'
<1>1. \A t \in Threads : thr[t].on \in Boxes /\ thr' = thr
  BY ThreadTyped DEF TpKeep
<1>2. Transport \in Boxes
  BY BoxNames
<1> QED BY <1>1, <1>2 DEF Sound, Mail, MailKeeps

LEMMA TpWriters ==
  ASSUME Types, Sound, TpKeep,
         \A c \in Conns : /\ conn'[c].state = conn[c].state
                          /\ conn'[c].sem = conn[c].sem \/ (conn[c].sem # "null" => conn'[c].sem = "1")
                          /\ conn[c].sem # "null" => conn'[c].sem # "null"
                          /\ tcp[c].cb => tcp'[c].cb \/ conn'[c].sem = "1"
                                          \/ (tp'.pc \in {"err", "tell"} /\ tp'.m.c = c)
                                          \/ \A t \in Threads : Mine(t) = c => ~Writing(t)
                          /\ tp.pc \in {"err", "tell"} /\ tp.m.c = c /\ conn[c].sem # "null"
                               => conn'[c].sem = "1" \/ (tp'.pc \in {"err", "tell"} /\ tp'.m.c = c)
  PROVE  Writers'
<1> SUFFICES ASSUME NEW t \in Workers, Writing(t)' PROVE WriterOK(t)'
  BY DEF Writers, WriterOK
<1>1. t \in Threads /\ thr'[t] = thr[t] /\ Writing(t)
  BY TpControl, Names DEF SameView
<1>2. thr[t].c = Mine(t) /\ thr[t].c \in Conns
  BY <1>1, WriterOf
<1>3. WriterOK(t)
  BY DEF Sound, Writers
<1>4. PICK c \in Conns : c = thr[t].c
  BY <1>2
<1>5. conn[c].state = "write" /\ conn[c].sem # "null"
      /\ (thr[t].pc \notin {"loop", "woken", "chunk"} =>
           conn[c].sem = "1" \/ tcp[c].cb \/ (tp.pc \in {"err", "tell"} /\ tp.m.c = c))
  BY <1>1, <1>3, <1>4 DEF WriterOK
<1>6. conn'[c].state = "write" /\ conn'[c].sem # "null"
  BY <1>5
<1>7. thr[t].pc \notin {"loop", "woken", "chunk"} =>
           conn'[c].sem = "1" \/ tcp'[c].cb \/ (tp'.pc \in {"err", "tell"} /\ tp'.m.c = c)
  <2>1. ~(\A u \in Threads : Mine(u) = c => ~Writing(u))
    BY <1>1, <1>2, <1>4
  <2> QED BY <1>5, <2>1
<1> QED BY <1>1, <1>4, <1>6, <1>7 DEF WriterOK

LEMMA TpCallbacks ==
  ASSUME Types, Sound, TpKeep, resets' = resets,
         \A c \in Conns : /\ tcp'[c].cb = tcp[c].cb /\ conn'[c].pcb = conn[c].pcb
                          /\ conn'[c].st = conn[c].st
  PROVE  Callbacks'
<1>1. \A u \in Threads : thr'[u] = thr[u] /\ Mine(u)' = Mine(u) /\ Deleting(u)' = Deleting(u)
  BY TpControl DEF SameView
<1> QED BY <1>1 DEF Sound, Callbacks

LEMMA TpReading ==
  ASSUME Types, Sound, TpKeep, resets \subseteq resets',
         \A c \in Conns : tcp[c].gotfin => tcp'[c].gotfin,
         \A c \in Conns : ReadOK(c)'
  PROVE  Reading'
<1>1. \A u \in Threads : thr'[u] = thr[u]
  BY DEF TpKeep
<1>2. \A u \in Threads : thr[u].pc = "taken" => thr[u].c \in Conns
  <2> SUFFICES ASSUME NEW u \in Threads, thr[u].pc = "taken" PROVE thr[u].c \in Conns
    OBVIOUS
  <2>1. thr[u].pc \in OnlyWorkers
    BY DEF OnlyWorkers
  <2> QED BY <2>1, WorkerAt
<1> QED BY <1>1, <1>2 DEF Sound, Reading

LEMMA TransportWakeStep ==
  ASSUME Types, Sound, TransportWake
  PROVE  Types' /\ Sound'
<1>1. /\ tp.pc = "asleep" /\ mbox' = [mbox EXCEPT ![Transport].mail = FALSE] /\ tp' = Rest
      /\ UNCHANGED <<conn, tcp, sock, thr, www, net, resets>>
  BY DEF TransportWake
<1>2. FALSE \in BOOLEAN /\ Transport \in Boxes
  BY BoxNames
<1>3. /\ mbox' \in [Boxes -> BoxRecs] /\ mbox'[Transport].st = mbox[Transport].st
      /\ mbox'[Transport].q = mbox[Transport].q /\ \A a \in Boxes : a # Transport => mbox'[a] = mbox[a]
  BY <1>1, <1>2, MailEdit
<1>4. /\ TpOK' /\ tp' \in TpRecs /\ tp'.pc # "asleep" /\ \A c : ~Hand(c)' /\ ~SynInHand(c)'
  BY <1>1, TpResting
<1>5. Types'
  BY <1>1, <1>3, <1>4 DEF Types
<1>6. TpKeep
  BY <1>1 DEF TpKeep
<1>7. \A d \in Netconns : /\ mbox'[Ans(d)] = mbox[Ans(d)] /\ mbox'[Recv(d)] = mbox[Recv(d)]
                          /\ mbox'[Accept(d)] = mbox[Accept(d)]
  BY <1>3, BoxNames
<1>8. Q' = Q
  BY <1>3 DEF Q
<1>9. Places' /\ Control'
  BY <1>1, <1>6, <1>7, Names, TpPlaces, TpControl
<1>10. SynOnce'
  BY <1>1, <1>4, <1>8, TpSyn
<1>11. Messages'
  <2>1. \A s \in Servers : /\ mbox[Accept(s)].st = "live" => mbox'[Accept(s)].st = "live"
                           /\ conn'[s].pcb = "listen" => mbox'[Accept(s)].st = "live"
    BY <1>1, <1>7, Names DEF Sound, Messages
  <2> QED BY <1>3, <1>4, <1>8, <2>1, TpMessages
<1>12. Answers'
  <2>1. \A d : ~Hand(d)
    BY <1>1 DEF Hand
  <2>2. \A d \in Netconns : mbox'[Ans(d)].q = mbox[Ans(d)].q /\ (Told(d) => Told(d)')
    BY <1>7 DEF Told
  <2> QED BY <1>1, <1>4, <1>6, <1>8, <2>1, <2>2, TpAnswers
<1>13. Callbacks'
  BY <1>1, <1>6, TpCallbacks
<1>14. Reading'
  <2>1. \A c \in Conns : ReadOK(c)'
    BY <1>1, <1>7, Names DEF Sound, Reading, ReadOK
  <2> QED BY <1>1, <1>6, <2>1, TpReading
<1>15. Writers'
  <2>1. tp.pc \notin {"err", "tell"}
    BY <1>1
  <2> QED BY <1>1, <1>6, <2>1, TpWriters
<1>16. Mail'
  <2>1. \A t \in Threads : thr[t].pc = "asleep" => thr[t].on # Transport /\ thr[t].on \in Boxes
    <3> SUFFICES ASSUME NEW t \in Threads, thr[t].pc = "asleep"
                 PROVE  thr[t].on # Transport /\ thr[t].on \in Boxes
      OBVIOUS
    <3>1. Fetching(t)
      BY DEF Fetching
    <3> QED BY <3>1, FetchBox, ThreadTyped, BoxNames, Names
  <2> QED BY <1>1, <1>3, <1>4, <2>1 DEF Sound, Mail
<1> QED BY <1>5, <1>9, <1>10, <1>11, <1>12, <1>13, <1>14, <1>15, <1>16 DEF Sound

LEMMA SignalFacts ==
  ASSUME NEW s \in Sems
  PROVE  /\ Signal(s) \in Sems /\ (s # "null" => Signal(s) = "1") /\ (s = "null" => Signal(s) = s)
         /\ (s # "null" => Signal(s) # "null")
  BY DEF Signal, Sems

(* A step that leaves the mailboxes, and what the netconns are, alone. *)
LEMMA TpQuiet ==
  ASSUME Types, Sound, UNCHANGED <<mbox, sock, thr, www, resets>>,
         \A c \in Conns : /\ net'[c].port = net[c].port /\ (net'[c].syn => net[c].syn)
                          /\ tcp'[c].cb = tcp[c].cb /\ (tcp[c].gotfin => tcp'[c].gotfin),
         \A c \in Netconns : conn'[c].st = conn[c].st /\ conn'[c].pcb = conn[c].pcb,
         \A c \in Conns : /\ conn'[c].state = conn[c].state
                          /\ conn'[c].sem = conn[c].sem \/ (conn[c].sem # "null" => conn'[c].sem = "1"),
         tp.pc \notin {"err", "tell"} \/ (tp'.pc \in {"err", "tell"} /\ tp'.m = tp.m),
         TpOK', tp'.pc # "asleep", \A c : ~Hand(c) /\ ~Hand(c)', \A c : ~SynInHand(c)'
  PROVE  Sound'
<1>6. TpKeep
  BY Names DEF TpKeep
<1>8. Q' = Q
  BY DEF Q
<1>9. Places' /\ Control'
  BY <1>6, Names, TpPlaces, TpControl
<1>10. SynOnce'
  BY <1>8, TpSyn, Names
<1>11. Messages'
  <2>1. \A s \in Servers : /\ mbox[Accept(s)].st = "live" => mbox'[Accept(s)].st = "live"
                           /\ conn'[s].pcb = "listen" => mbox'[Accept(s)].st = "live"
    BY Names DEF Sound, Messages
  <2> QED BY <1>8, <2>1, TpMessages
<1>12. Answers'
  <2>1. \A d : Told(d) => Told(d)'
    BY DEF Told
  <2> QED BY <1>6, <1>8, <2>1, TpAnswers
<1>13. Callbacks'
  BY <1>6, Names, TpCallbacks
<1>14. Reading'
  <2>1. \A c \in Conns : ReadOK(c)'
    BY Names DEF Sound, Reading, ReadOK
  <2> QED BY <1>6, <2>1, TpReading
<1>15. Writers'
  <2>1. \A c \in Conns : conn[c].sem # "null" => conn'[c].sem # "null"
    OBVIOUS
  <2> QED BY <1>6, <2>1, TpWriters
<1>16. Mail'
  <2>1. \A b \in Boxes : MailKeeps(b)
    BY DEF MailKeeps
  <2> QED BY <1>6, <2>1, TpMail
<1> QED BY <1>9, <1>10, <1>11, <1>12, <1>13, <1>14, <1>15, <1>16 DEF Sound

LEMMA TransportTimeoutStep ==
  ASSUME Types, Sound, TransportTimeout, fault' = "none"
  PROVE  Types' /\ Sound'
<1>1. /\ tp.pc = "asleep" /\ tp' = Rest
      /\ conn' = [c \in Netconns |-> IF c \in {d \in Conns : tcp[d].cb} THEN PollTcp(c) ELSE conn[c]]
      /\ UNCHANGED <<mbox, tcp, sock, thr, www, net, resets>>
  BY DEF TransportTimeout
<1>2. ASSUME NEW c \in Netconns
      PROVE  /\ conn'[c] \in ConnRecs /\ conn'[c].st = conn[c].st /\ conn'[c].pcb = conn[c].pcb
             /\ conn'[c].state = conn[c].state
             /\ conn'[c].sem = conn[c].sem \/ (conn[c].sem # "null" => conn'[c].sem = "1")
  <2>1. conn[c] \in ConnRecs
    BY DEF Types
  <2>2. PICK s : s = Signal(conn[c].sem)
    OBVIOUS
  <2>3. s \in Sems /\ (conn[c].sem # "null" => s = "1")
    <3>1. conn[c].sem \in Sems
      BY <2>1 DEF ConnRecs, Sems
    <3> QED BY <2>2, <3>1, SignalFacts
  <2>4. PICK r : r = [conn[c] EXCEPT !.sem = s]
    OBVIOUS
  <2>5. r \in ConnRecs /\ r.st = conn[c].st /\ r.pcb = conn[c].pcb /\ r.state = conn[c].state /\ r.sem = s
    BY <2>1, <2>3, <2>4 DEF ConnRecs, Sems
  <2>6. conn'[c] \in {r, conn[c]}
    BY <1>1, <2>2, <2>4 DEF PollTcp
  <2> QED BY <2>1, <2>3, <2>5, <2>6
<1>3. conn' \in [Netconns -> ConnRecs]
  <2>1. conn' = [c \in Netconns |-> conn'[c]]
    BY <1>1
  <2> QED BY <1>2, <2>1
<1>4. /\ TpOK' /\ tp' \in TpRecs /\ tp'.pc # "asleep" /\ \A c : ~Hand(c)' /\ ~SynInHand(c)'
  BY <1>1, TpResting
<1>5. Types'
  BY <1>1, <1>3, <1>4 DEF Types
<1>6. tp.pc \notin {"err", "tell"} /\ \A c : ~Hand(c)
  BY <1>1 DEF Hand
<1>7. Sound'
  BY <1>1, <1>2, <1>4, <1>6, Names, TpQuiet
<1> QED BY <1>5, <1>7

LEMMA ErrErrStep ==
  ASSUME Types, Sound, ErrErr, fault' = "none"
  PROVE  Types' /\ Sound'
<1>0. PICK c, b : c = tp.m.c /\ b = (mbox[Recv(c)].st = "live")
  OBVIOUS
<1>1. /\ tp.pc = "err" /\ UNCHANGED <<mbox, tcp, sock, thr, www, net, resets>>
      /\ conn' = [conn EXCEPT ![c].err = "abrt"]
      /\ tp' = [tp EXCEPT !.pc = "tell", !.box = b]
  BY <1>0 DEF ErrErr
<1>2. tp.m \in InMsgs /\ c \in resets /\ c \in Conns /\ c \in Netconns
  <2>1. tp.m \in InMsgs /\ tp.m.c \in resets
    BY <1>1 DEF Sound, Messages
  <2> QED BY <1>0, <2>1, Names DEF InMsgs
<1>3. b \in BOOLEAN /\ tp \in TpRecs /\ conn \in [Netconns -> ConnRecs] /\ "abrt" \in Errs
  BY <1>0 DEF Types, Errs
<1>4. tp' \in TpRecs /\ tp'.pc = "tell" /\ tp'.m = tp.m
  BY <1>1, <1>3 DEF TpRecs
<1>5. ConnEdited(conn, conn', c, "abrt", conn[c].pcb, conn[c].sem, conn[c].state)
  BY <1>1, <1>2, <1>3, ConnErr
<1>6. /\ conn' \in [Netconns -> ConnRecs]
      /\ \A d \in Netconns : /\ conn'[d].st = conn[d].st /\ conn'[d].pcb = conn[d].pcb
                             /\ conn'[d].sem = conn[d].sem /\ conn'[d].state = conn[d].state
  BY <1>5 DEF ConnEdited
<1>7. Types'
  BY <1>1, <1>4, <1>6 DEF Types
<1>8. TpOK' /\ tp'.pc # "asleep" /\ \A d : ~Hand(d) /\ ~Hand(d)' /\ ~SynInHand(d)'
  BY <1>0, <1>1, <1>2, <1>4 DEF TpOK, Hand, SynInHand
<1>9. tp'.pc \in {"err", "tell"} /\ tp'.m = tp.m
  BY <1>4
<1>10. Sound'
  BY <1>1, <1>6, <1>8, <1>9, Names, TpQuiet
<1> QED BY <1>7, <1>10

(* A step that posts to mailboxes of netconns, answers none of the requests and takes none. *)
LEMMA TpPosts ==
  ASSUME Types, Sound, UNCHANGED <<sock, thr, www, net, tcp, resets>>,
         mbox'[Transport] = mbox[Transport], \A b \in Boxes : mbox'[b].st = mbox[b].st,
         \A b \in Boxes : MailKeeps(b),
         \A s \in Servers : mbox'[Accept(s)].q = mbox[Accept(s)].q,
         \A d \in Netconns : /\ d \notin resets => mbox'[Ans(d)].q = mbox[Ans(d)].q
                             /\ Told(d) => Told(d)',
         \A c \in Conns : ReadOK(c)',
         \A c \in Netconns : conn'[c].st = conn[c].st /\ conn'[c].pcb = conn[c].pcb,
         \A c \in Conns : /\ conn'[c].state = conn[c].state
                          /\ conn'[c].sem = conn[c].sem \/ (conn[c].sem # "null" => conn'[c].sem = "1")
                          /\ tp.pc \in {"err", "tell"} /\ tp.m.c = c /\ conn[c].sem # "null"
                               => conn'[c].sem = "1",
         \A c : ~Hand(c), tp' = Rest
  PROVE  Sound'
<1>4. /\ TpOK' /\ tp'.pc # "asleep" /\ \A c : ~Hand(c)' /\ ~SynInHand(c)'
  BY TpResting
<1>6. TpKeep
  BY Names DEF TpKeep
<1>8. Q' = Q
  BY DEF Q
<1>b. \A d \in Netconns : Ans(d) \in Boxes /\ Accept(d) \in Boxes
  BY BoxNames
<1>9. Places' /\ Control'
  BY <1>6, <1>b, Names, TpPlaces, TpControl
<1>10. SynOnce'
  BY <1>4, <1>8, TpSyn, Names
<1>11. Messages'
  <2>1. \A s \in Servers : /\ mbox[Accept(s)].st = "live" => mbox'[Accept(s)].st = "live"
                           /\ conn'[s].pcb = "listen" => mbox'[Accept(s)].st = "live"
    BY <1>b, Names DEF Sound, Messages
  <2> QED BY <1>4, <1>8, <2>1, TpMessages
<1>12. Answers'
  BY <1>4, <1>6, <1>8, TpAnswers
<1>13. Callbacks'
  BY <1>6, Names, TpCallbacks
<1>14. Reading'
  BY <1>6, TpReading
<1>15. Writers'
  <2>1. \A c \in Conns : conn[c].sem # "null" => conn'[c].sem # "null"
    OBVIOUS
  <2> QED BY <1>6, <2>1, TpWriters
<1>16. Mail'
  BY <1>4, <1>6, TpMail
<1> QED BY <1>9, <1>10, <1>11, <1>12, <1>13, <1>14, <1>15, <1>16 DEF Sound

(* A post to recvmbox. *)
LEMMA ReadPosted ==
  ASSUME Types, Sound, NEW c \in Conns, NEW m \in Items, UNCHANGED <<tcp, resets>>,
         mbox'[Recv(c)].st = mbox[Recv(c)].st, mbox'[Recv(c)].q = Append(mbox[Recv(c)].q, m),
         m = "null" => tcp[c].gotfin \/ c \in resets
  PROVE  ReadOK(c)'
<1>1. PICK q : q = mbox[Recv(c)].q
  OBVIOUS
<1>2. q \in Seq(Items)
  BY <1>1, BoxNames, Names DEF Types, BoxRecs
<1>3. \A i \in DOMAIN Append(q, m) : (i \in DOMAIN q /\ Append(q, m)[i] = q[i]) \/ Append(q, m)[i] = m
  BY <1>2, AppendFacts
<1>4. ReadOK(c)
  BY DEF Sound, Reading
<1>5. mbox'[Recv(c)].q = Append(q, m)
  BY <1>1
<1>6. \A i \in DOMAIN mbox'[Recv(c)].q : mbox'[Recv(c)].q[i] = "null" => tcp[c].gotfin \/ c \in resets
  BY <1>1, <1>3, <1>4, <1>5 DEF ReadOK
<1> QED BY <1>4, <1>6 DEF ReadOK

LEMMA RecvGiveStep ==
  ASSUME Types, Sound, RecvGive, fault' = "none"
  PROVE  Types' /\ Sound'
<1>0. PICK c, v : c = tp.m.c /\ v = IF tp.m.op = "fin" THEN "null" ELSE "data"
  OBVIOUS
<1>1. /\ tp.pc = "give" /\ UNCHANGED <<conn, tcp, sock, thr, www, net, resets>>
      /\ mbox' = PostOn(mbox, Recv(c), v) /\ tp' = Rest
  BY <1>0 DEF RecvGive, Post
<1>2. c \in Conns /\ c \in Netconns /\ (v = "null" => tcp[c].gotfin)
  <2>1. tp.m \in InMsgs /\ (tp.m.op = "fin" => tcp[tp.m.c].gotfin)
    BY <1>1 DEF Sound, Messages
  <2>2. c \in Conns
    BY <1>0, <2>1 DEF InMsgs
  <2> QED BY <1>0, <2>1, <2>2, Names
<1>3. v \in Items /\ Recv(c) \in Boxes /\ mbox \in [Boxes -> BoxRecs] /\ Recv(c) # Transport
  BY <1>0, <1>2, ItemValues, BoxNames DEF Types
<1>4. /\ mbox' \in [Boxes -> BoxRecs] /\ mbox'[Recv(c)].st = mbox[Recv(c)].st
      /\ mbox'[Recv(c)].q = Append(mbox[Recv(c)].q, v)
      /\ mbox'[Recv(c)].mail = (mbox[Recv(c)].mail \/ mbox[Recv(c)].q = << >>)
      /\ \A a \in Boxes \ {Recv(c)} : mbox'[a] = mbox[a]
  BY <1>1, <1>3, PostFacts
<1>5. Types'
  BY <1>1, <1>4, RestFacts DEF Types
<1>6. /\ \A b \in Boxes : mbox'[b].st = mbox[b].st
      /\ \A b \in Boxes : MailKeeps(b)
      /\ mbox'[Transport] = mbox[Transport]
  BY <1>3, <1>4, BoxNames DEF MailKeeps
<1>7. \A d \in Netconns : /\ mbox'[Ans(d)] = mbox[Ans(d)] /\ mbox'[Accept(d)] = mbox[Accept(d)]
                          /\ d # c => mbox'[Recv(d)] = mbox[Recv(d)]
  BY <1>2, <1>4, BoxNames DEF Ans, Recv, Accept
<1>8. \A d \in Conns : ReadOK(d)'
  <2>1. ReadOK(c)'
    BY <1>1, <1>2, <1>3, <1>4, ReadPosted
  <2>2. \A d \in Conns : d # c => ReadOK(d)'
    BY <1>1, <1>7, Names DEF Sound, Reading, ReadOK
  <2> QED BY <2>1, <2>2
<1>9. \A d \in Netconns : mbox'[Ans(d)].q = mbox[Ans(d)].q /\ (Told(d) => Told(d)')
  BY <1>7 DEF Told
<1>10. tp.pc \notin {"err", "tell"} /\ \A d : ~Hand(d)
  BY <1>1 DEF Hand
<1>11. Sound'
  BY <1>1, <1>6, <1>7, <1>8, <1>9, <1>10, Names, TpPosts
<1> QED BY <1>5, <1>11

LEMMA ErrTellStep ==
  ASSUME Types, Sound, ErrTell, fault' = "none"
  PROVE  Types' /\ Sound'
<1>0. PICK c, mb : c = tp.m.c /\ mb = IF tp.box THEN PostOn(mbox, Recv(c), "null") ELSE mbox
  OBVIOUS
<1>1. /\ tp.pc = "tell" /\ UNCHANGED <<tcp, sock, thr, www, net, resets>> /\ tp' = Rest
      /\ mbox' = PostOn(mb, Ans(c), "null")
      /\ conn' = [conn EXCEPT ![c].sem = Signal(@)]
  BY <1>0 DEF ErrTell
<1>2. c \in Conns /\ c \in Netconns /\ c \in resets
  <2>1. tp.m \in InMsgs /\ tp.m.c \in resets
    BY <1>1 DEF Sound, Messages
  <2>2. c \in Conns
    BY <1>0, <2>1 DEF InMsgs
  <2> QED BY <1>0, <2>1, <2>2, Names
<1>3. "null" \in Items /\ Recv(c) \in Boxes /\ Ans(c) \in Boxes /\ mbox \in [Boxes -> BoxRecs]
      /\ Recv(c) # Ans(c) /\ Recv(c) # Transport /\ Ans(c) # Transport
  BY <1>2, ItemValues, BoxNames DEF Types
<1>4. PICK g : g = PostOn(mbox, Recv(c), "null")
  OBVIOUS
<1>5. /\ g \in [Boxes -> BoxRecs] /\ g[Recv(c)].st = mbox[Recv(c)].st
      /\ g[Recv(c)].q = Append(mbox[Recv(c)].q, "null")
      /\ g[Recv(c)].mail = (mbox[Recv(c)].mail \/ mbox[Recv(c)].q = << >>)
      /\ \A a \in Boxes \ {Recv(c)} : g[a] = mbox[a]
  BY <1>3, <1>4, PostFacts
<1>6. mb = g \/ mb = mbox
  BY <1>0, <1>4
<1>7. /\ mb \in [Boxes -> BoxRecs] /\ (\A a \in Boxes \ {Recv(c)} : mb[a] = mbox[a])
      /\ mb[Recv(c)].st = mbox[Recv(c)].st
      /\ mb[Recv(c)] = mbox[Recv(c)] \/ mb[Recv(c)].q = Append(mbox[Recv(c)].q, "null")
      /\ (mbox[Recv(c)].q # << >> => mbox[Recv(c)].mail) => (mb[Recv(c)].q # << >> => mb[Recv(c)].mail)
  BY <1>3, <1>5, <1>6
<1>8. /\ mbox' \in [Boxes -> BoxRecs] /\ mbox'[Ans(c)].st = mb[Ans(c)].st
      /\ mbox'[Ans(c)].q = Append(mb[Ans(c)].q, "null")
      /\ mbox'[Ans(c)].mail = (mb[Ans(c)].mail \/ mb[Ans(c)].q = << >>)
      /\ \A a \in Boxes \ {Ans(c)} : mbox'[a] = mb[a]
  BY <1>1, <1>3, <1>7, PostFacts
<1>9. mb[Ans(c)] = mbox[Ans(c)] /\ mbox'[Recv(c)] = mb[Recv(c)]
  BY <1>3, <1>7, <1>8
<1>10. /\ \A b \in Boxes : mbox'[b].st = mbox[b].st
       /\ \A b \in Boxes : MailKeeps(b)
       /\ mbox'[Transport] = mbox[Transport]
  <2>1. ASSUME NEW b \in Boxes PROVE mbox'[b].st = mbox[b].st /\ MailKeeps(b)
    <3>1. CASE b = Ans(c)
      BY <3>1, <1>8, <1>9 DEF MailKeeps
    <3>2. CASE b = Recv(c)
      BY <3>2, <1>7, <1>9 DEF MailKeeps
    <3>3. CASE b # Ans(c) /\ b # Recv(c)
      BY <3>3, <1>7, <1>8 DEF MailKeeps
    <3> QED BY <3>1, <3>2, <3>3
  <2> QED BY <2>1, <1>3, <1>7, <1>8, BoxNames
<1>11. \A d \in Netconns : /\ d # c => mbox'[Ans(d)] = mbox[Ans(d)] /\ mbox'[Recv(d)] = mbox[Recv(d)]
                           /\ mbox'[Accept(d)] = mbox[Accept(d)]
  <2> SUFFICES ASSUME NEW d \in Netconns
               PROVE  /\ d # c => mbox'[Ans(d)] = mbox[Ans(d)] /\ mbox'[Recv(d)] = mbox[Recv(d)]
                      /\ mbox'[Accept(d)] = mbox[Accept(d)]
    OBVIOUS
  <2>1. /\ Ans(d) \in Boxes /\ Recv(d) \in Boxes /\ Accept(d) \in Boxes
        /\ Accept(d) # Ans(c) /\ Accept(d) # Recv(c)
        /\ d # c => Ans(d) # Ans(c) /\ Ans(d) # Recv(c) /\ Recv(d) # Ans(c) /\ Recv(d) # Recv(c)
    BY <1>2, BoxNames DEF Ans, Recv, Accept
  <2> QED BY <1>7, <1>8, <2>1
<1>12. ConnEdited(conn, conn', c, conn[c].err, conn[c].pcb, Signal(conn[c].sem), conn[c].state)
       /\ (conn[c].sem # "null" => Signal(conn[c].sem) = "1")
  <2>1. PICK s : s = Signal(conn[c].sem)
    OBVIOUS
  <2>2. conn \in [Netconns -> ConnRecs] /\ conn[c].sem \in Sems
    BY <1>2 DEF Types, ConnRecs, Sems
  <2>3. s \in Sems /\ (conn[c].sem # "null" => s = "1")
    BY <2>1, <2>2, SignalFacts
  <2>4. conn' = [conn EXCEPT ![c].sem = s]
    BY <1>1, <1>2, <2>1, <2>2
  <2>5. ConnEdited(conn, conn', c, conn[c].err, conn[c].pcb, s, conn[c].state)
    BY <1>2, <2>2, <2>3, <2>4, ConnSem
  <2> QED BY <2>1, <2>3, <2>5
<1>13. /\ conn' \in [Netconns -> ConnRecs]
       /\ \A d \in Netconns : /\ conn'[d].st = conn[d].st /\ conn'[d].pcb = conn[d].pcb
                              /\ conn'[d].state = conn[d].state
                              /\ conn'[d].sem = conn[d].sem \/ (conn[d].sem # "null" => conn'[d].sem = "1")
       /\ conn[c].sem # "null" => conn'[c].sem = "1"
  BY <1>2, <1>12 DEF ConnEdited
<1>14. Types'
  BY <1>1, <1>8, <1>13, RestFacts DEF Types
<1>15. \A d \in Conns : ReadOK(d)'
  <2>1. ReadOK(c)'
    <3>1. CASE mb[Recv(c)] = mbox[Recv(c)]
      BY <1>1, <1>2, <1>9, <3>1 DEF Sound, Reading, ReadOK
    <3>2. CASE mb[Recv(c)].q = Append(mbox[Recv(c)].q, "null")
      BY <1>1, <1>2, <1>3, <1>7, <1>9, <3>2, ReadPosted
    <3> QED BY <1>7, <3>1, <3>2
  <2>2. \A d \in Conns : d # c => ReadOK(d)'
    BY <1>1, <1>11, Names DEF Sound, Reading, ReadOK
  <2> QED BY <2>1, <2>2
<1>16. \A d \in Netconns : /\ d \notin resets => mbox'[Ans(d)].q = mbox[Ans(d)].q
                           /\ Told(d) => Told(d)'
  <2>1. mbox[Ans(c)].q \in Seq(Items)
    BY <1>3 DEF BoxRecs
  <2>2. mbox'[Ans(c)].q # << >>
    BY <1>3, <1>8, <1>9, <2>1, AppendFacts
  <2> QED BY <1>2, <1>11, <2>2 DEF Told
<1>17. \A d : ~Hand(d)
  BY <1>1 DEF Hand
<1>18. \A d \in Conns : tp.m.c = d /\ conn[d].sem # "null" => conn'[d].sem = "1"
  BY <1>0, <1>13
<1>19. Sound'
  BY <1>1, <1>10, <1>11, <1>13, <1>15, <1>16, <1>17, <1>18, Names, TpPosts
<1> QED BY <1>14, <1>19

TcpEdited(f, g, c, cb, gotfin) ==
  /\ g \in [Conns -> TcpRecs]
  /\ \A d \in Conns \ {c} : g[d] = f[d]
  /\ g[c].cb = cb /\ g[c].gotfin = gotfin

LEMMA TcpEdits ==
  ASSUME NEW f \in [Conns -> TcpRecs], NEW c \in Conns, NEW g, NEW r \in Int, NEW b \in BOOLEAN
  PROVE  /\ g = [f EXCEPT ![c].room = r] => TcpEdited(f, g, c, f[c].cb, f[c].gotfin)
         /\ g = [f EXCEPT ![c].cb = b] => TcpEdited(f, g, c, b, f[c].gotfin)
         /\ g = [f EXCEPT ![c].gotfin = b] => TcpEdited(f, g, c, f[c].cb, b)
  BY DEF TcpRecs, TcpEdited

LEMMA SilentFacts ==
  ASSUME Types, NEW c \in Conns, net' = Silent(c)
  PROVE  /\ net' \in [Conns -> NetRecs]
         /\ \A d \in Conns : net'[d].port = net[d].port /\ (net'[d].syn => net[d].syn)
         /\ ~net'[c].syn
<1>1. net \in [Conns -> NetRecs]
  BY DEF Types
<1>2. PICK f : f = [net EXCEPT ![c].syn = FALSE]
  OBVIOUS
<1>z. PICK z \in Int : z = 0
  OBVIOUS
<1>g. PICK g : g = [f EXCEPT ![c].data = z]
  OBVIOUS
<1>3. net' = [g EXCEPT ![c].fin = FALSE]
  BY <1>2, <1>g, <1>z DEF Silent
<1>4. f \in [Conns -> NetRecs] /\ (\A d \in Conns \ {c} : f[d] = net[d]) /\ ~f[c].syn
      /\ f[c].port = net[c].port
  BY <1>1, <1>2 DEF NetRecs
<1>5. g \in [Conns -> NetRecs] /\ (\A d \in Conns \ {c} : g[d] = f[d]) /\ g[c].syn = f[c].syn
      /\ g[c].port = f[c].port
  BY <1>g, <1>4 DEF NetRecs
<1>6. net' \in [Conns -> NetRecs] /\ (\A d \in Conns \ {c} : net'[d] = g[d]) /\ net'[c].syn = g[c].syn
      /\ net'[c].port = g[c].port
  BY <1>3, <1>5 DEF NetRecs
<1> QED BY <1>4, <1>5, <1>6

LEMMA ErrPcbStep ==
  ASSUME Types, Sound, NEW c \in Conns, ErrPcb(c), fault' = "none",
         tp.pc = "asleep" \/ (tp.pc = "run" /\ tp.m.k = "in" /\ tp.m.op = "rst")
  PROVE  Types' /\ Sound'
<1>1. /\ resets' = IF tcp[c].cb THEN resets \cup {c} ELSE resets
      /\ net' = Silent(c) /\ tcp' = [tcp EXCEPT ![c].cb = FALSE]
      /\ UNCHANGED <<mbox, sock, thr, www>>
      /\ ~tcp[c].cb => tp' = Rest /\ conn' = conn
      /\ tcp[c].cb => /\ conn' = [conn EXCEPT ![c].pcb = "null"]
                      /\ tp' = [Rest EXCEPT !.pc = "err", !.m = Msg("in", "rst", c, 0)]
  BY DEF ErrPcb
<1>2. /\ tcp \in [Conns -> TcpRecs] /\ conn \in [Netconns -> ConnRecs] /\ c \in Netconns
      /\ "null" \in Pcbs /\ FALSE \in BOOLEAN /\ 0 \in Int
  BY Names DEF Types, Pcbs
<1>3. TcpEdited(tcp, tcp', c, FALSE, tcp[c].gotfin)
  BY <1>1, <1>2, TcpEdits
<1>4. /\ tcp' \in [Conns -> TcpRecs] /\ ~tcp'[c].cb
      /\ \A d \in Conns : /\ tcp'[d].gotfin = tcp[d].gotfin /\ (tcp'[d].cb => tcp[d].cb)
                          /\ d # c => tcp'[d].cb = tcp[d].cb
  BY <1>3 DEF TcpEdited
<1>5. /\ net' \in [Conns -> NetRecs]
      /\ \A d \in Conns : net'[d].port = net[d].port /\ (net'[d].syn => net[d].syn)
  BY <1>1, SilentFacts
<1>6. tp.pc \notin {"err", "tell"} /\ \A d : ~Hand(d) /\ ~SynInHand(d)
  BY DEF Hand, SynInHand
<1>7. CASE ~tcp[c].cb
  <2>1. /\ TpOK' /\ tp' \in TpRecs /\ tp'.pc # "asleep" /\ \A d : ~Hand(d)' /\ ~SynInHand(d)'
    BY <1>1, <1>7, TpResting
  <2>2. resets' = resets /\ conn' = conn /\ \A d \in Conns : tcp'[d].cb = tcp[d].cb
    BY ZenonT(60), <1>1, <1>2, <1>4, <1>7 DEF TcpRecs
  <2>3. Types'
    BY <1>1, <1>4, <1>5, <2>1, <2>2 DEF Types
  <2>4. Sound'
    BY <1>1, <1>4, <1>5, <1>6, <2>1, <2>2, TpQuiet
  <2> QED BY <2>3, <2>4
<1>8. CASE tcp[c].cb
  <2>0. PICK m : m = Msg("in", "rst", c, 0)
    OBVIOUS
  <2>1. m \in InMsgs /\ m \in Msgs /\ m.c = c
    BY <2>0 DEF Msg, InMsgs, Msgs
  <2>2. tp' = [Rest EXCEPT !.pc = "err", !.m = m] /\ conn' = [conn EXCEPT ![c].pcb = "null"]
        /\ resets' = resets \cup {c}
    BY <1>1, <1>8, <2>0
  <2>3. tp' \in TpRecs /\ tp'.pc = "err" /\ tp'.m = m
    BY <2>1, <2>2, RestFacts DEF TpRecs
  <2>4. ConnEdited(conn, conn', c, conn[c].err, "null", conn[c].sem, conn[c].state)
    BY <1>2, <2>2, ConnPcb
  <2>5. /\ conn' \in [Netconns -> ConnRecs] /\ conn'[c].pcb = "null"
        /\ \A d \in Netconns : /\ conn'[d].st = conn[d].st /\ conn'[d].sem = conn[d].sem
                               /\ conn'[d].state = conn[d].state
                               /\ d # c => conn'[d].pcb = conn[d].pcb
    BY <2>4 DEF ConnEdited
  <2>6. Types'
    <3>1. resets' \in SUBSET Conns
      BY <2>2 DEF Types
    <3> QED BY <1>1, <1>4, <1>5, <2>3, <2>5, <3>1 DEF Types
  <2>7. TpKeep
    BY <1>1, <1>5, <2>5, Names DEF TpKeep
  <2>8. Q' = Q
    BY <1>1 DEF Q
  <2>9. TpOK' /\ \A d : ~Hand(d)' /\ ~SynInHand(d)'
    BY <2>1, <2>2, <2>3 DEF TpOK, Hand, SynInHand
  <2>10. Places' /\ Control'
    BY <1>1, <2>5, <2>7, TpPlaces, TpControl
  <2>11. SynOnce'
    BY <1>5, <2>5, <2>8, <2>9, Names, TpSyn
  <2>12. Messages'
    <3>1. \A s \in Servers : /\ mbox[Accept(s)].st = "live" => mbox'[Accept(s)].st = "live"
                             /\ conn'[s].pcb = "listen" => mbox'[Accept(s)].st = "live"
      BY <1>1, <2>5, Names DEF Sound, Messages
    <3> QED BY <1>1, <2>8, <2>9, <3>1, TpMessages
  <2>13. Answers'
    <3>1. \A d : Told(d) => Told(d)'
      BY <1>1 DEF Told
    <3> QED BY <1>1, <1>4, <1>6, <2>2, <2>7, <2>8, <2>9, <3>1, TpAnswers
  <2>14. Callbacks'
    <3>1. \A u \in Threads : thr'[u] = thr[u] /\ Mine(u)' = Mine(u) /\ Deleting(u)' = Deleting(u)
      BY <2>7, TpControl DEF SameView
    <3>2. conn[c].st = "live"
      BY <1>8 DEF Sound, Callbacks
    <3> SUFFICES ASSUME NEW d \in Conns
                 PROVE  /\ tcp'[d].cb => conn'[d].st = "live"
                        /\ conn'[d].st = "none" => d \notin resets'
                        /\ d \in resets' => ~tcp'[d].cb /\ conn'[d].pcb = "null"
                        /\ conn'[d].st = "live" /\ d \notin resets' =>
                             /\ conn'[d].pcb = "open"
                             /\ tcp'[d].cb \/ \E t \in Threads : Mine(t)' = d /\ Deleting(t)'
                        /\ \A t \in Threads : thr'[t].pc \in {"drain", "free"} /\ thr'[t].c = d => ~tcp'[d].cb
      BY DEF Callbacks
    <3>3. CASE d = c
      BY <1>4, <2>2, <2>5, <3>2, <3>3, <1>2
    <3>4. CASE d # c
      <4>1. /\ tcp'[d].cb = tcp[d].cb /\ conn'[d].st = conn[d].st /\ conn'[d].pcb = conn[d].pcb
            /\ (d \in resets' <=> d \in resets)
        BY <1>4, <2>2, <2>5, <3>4, Names
      <4> QED BY <3>1, <4>1 DEF Sound, Callbacks
    <3> QED BY <3>3, <3>4
  <2>15. Reading'
    <3>1. \A d \in Conns : ReadOK(d)'
      BY <1>1, <1>4, <2>2 DEF Sound, Reading, ReadOK
    <3> QED BY <1>4, <2>2, <2>7, <3>1, TpReading
  <2>16. Writers'
    <3>1. \A d \in Conns : tcp[d].cb => tcp'[d].cb \/ (tp'.pc \in {"err", "tell"} /\ tp'.m.c = d)
      BY <1>4, <2>1, <2>3
    <3> QED BY <1>6, <2>5, <2>7, <3>1, Names, TpWriters
  <2>17. Mail'
    <3>1. \A b \in Boxes : MailKeeps(b)
      BY <1>1 DEF MailKeeps
    <3> QED BY <2>3, <2>7, <3>1, TpMail
  <2> QED BY <2>6, <2>10, <2>11, <2>12, <2>13, <2>14, <2>15, <2>16, <2>17 DEF Sound
<1> QED BY <1>7, <1>8

LEMMA TcpResetStep ==
  ASSUME Types, Sound, TcpReset, fault' = "none"
  PROVE  Types' /\ Sound'
<1>1. PICK c : c = tp.m.c
  OBVIOUS
<1>2. tp.pc = "run" /\ tp.m.op = "rst" /\ ErrPcb(c)
  BY <1>1 DEF TcpReset
<1>3. tp.m \in InMsgs
  <2>1. tp.m \in Msgs
    BY <1>2 DEF Sound, Messages
  <2> QED BY <1>2, <2>1 DEF Msgs, ApiMsgs
<1>4. c \in Conns /\ tp.m.k = "in"
  BY <1>1, <1>3 DEF InMsgs
<1> QED BY <1>2, <1>4, ErrPcbStep

LEMMA TcpGivesUpStep ==
  ASSUME Types, Sound, NEW c \in Conns, TcpGivesUp(c), fault' = "none"
  PROVE  Types' /\ Sound'
  BY ErrPcbStep DEF TcpGivesUp

LEMMA TcpAckStep ==
  ASSUME Types, Sound, NEW c, c = tp.m.c, tp.pc = "run", tp.m.k = "in", tp.m.op = "ack",
         SentTcp(c), tcp' = [tcp EXCEPT ![c].room = SndBuf],
         tp' = IF tcp[c].cb /\ tcp[c].gotfin THEN [tp EXCEPT !.m.op = "fin"] ELSE Rest,
         UNCHANGED <<mbox, net, sock, thr, www, resets>>, fault' = "none"
  PROVE  Types' /\ Sound'
<1>1. tp.m \in InMsgs /\ tp \in TpRecs
  BY DEF Sound, Messages, Msgs, ApiMsgs, Types
<1>2. c \in Conns /\ c \in Netconns
  <2>1. c \in Conns
    BY <1>1 DEF InMsgs
  <2> QED BY <2>1, Names
<1>3. tcp \in [Conns -> TcpRecs] /\ conn \in [Netconns -> ConnRecs] /\ SndBuf \in Int /\ FALSE \in BOOLEAN
  BY NetconnAssumption DEF Types
<1>4. TcpEdited(tcp, tcp', c, tcp[c].cb, tcp[c].gotfin)
  BY <1>2, <1>3, TcpEdits
<1>5. /\ tcp' \in [Conns -> TcpRecs]
      /\ \A d \in Conns : tcp'[d].cb = tcp[d].cb /\ tcp'[d].gotfin = tcp[d].gotfin
  BY <1>4 DEF TcpEdited
<1>6. /\ conn' \in [Netconns -> ConnRecs]
      /\ \A d \in Netconns : /\ conn'[d].st = conn[d].st /\ conn'[d].pcb = conn[d].pcb
                             /\ conn'[d].state = conn[d].state
                             /\ conn'[d].sem = conn[d].sem \/ (conn[d].sem # "null" => conn'[d].sem = "1")
  <2>1. PICK s : s = Signal(conn[c].sem)
    OBVIOUS
  <2>2. conn[c].sem \in Sems
    BY <1>2, <1>3 DEF ConnRecs, Sems
  <2>3. s \in Sems /\ (conn[c].sem # "null" => s = "1")
    BY <2>1, <2>2, SignalFacts
  <2>4. conn' = conn \/ conn' = [conn EXCEPT ![c].sem = s]
    BY <1>2, <1>3, <2>1 DEF SentTcp
  <2>5. CASE conn' = conn
    BY <1>3, <2>5
  <2>6. CASE conn' = [conn EXCEPT ![c].sem = s]
    <3>1. ConnEdited(conn, conn', c, conn[c].err, conn[c].pcb, s, conn[c].state)
      BY <1>2, <1>3, <2>3, <2>6, ConnSem
    <3> QED BY <2>3, <3>1 DEF ConnEdited
  <2> QED BY <2>4, <2>5, <2>6
<1>7. /\ TpOK' /\ tp' \in TpRecs /\ tp'.pc # "asleep" /\ \A d : ~Hand(d)' /\ ~SynInHand(d)'
  <2>1. CASE tp' = Rest
    BY <2>1, TpResting
  <2>2. CASE tp' = [tp EXCEPT !.m.op = "fin"]
    <3>1. PICK m : m = [tp.m EXCEPT !.op = "fin"]
      OBVIOUS
    <3>2. m \in InMsgs /\ m.k = "in" /\ m.op = "fin"
      BY <1>1, <3>1 DEF InMsgs
    <3>3. tp' = [tp EXCEPT !.m = m]
      BY <1>1, <2>2, <3>1 DEF TpRecs
    <3>4. tp' \in TpRecs /\ tp'.pc = "run" /\ tp'.m = m
      BY <1>1, <3>2, <3>3 DEF TpRecs, Msgs
    <3>5. tp'.m \in Msgs /\ tp'.m.k # "api"
      BY <3>2, <3>4 DEF Msgs
    <3> QED BY <3>2, <3>4, <3>5 DEF TpOK, Hand, SynInHand, ApiOK
  <2> QED BY <2>1, <2>2
<1>8. Types'
  BY <1>5, <1>6, <1>7 DEF Types
<1>9. tp.pc \notin {"err", "tell"} /\ \A d : ~Hand(d)
  BY DEF Hand
<1>10. Sound'
  BY <1>5, <1>6, <1>7, <1>9, Names, TpQuiet
<1> QED BY <1>8, <1>10

LEMMA TcpDataStep ==
  ASSUME Types, Sound, NEW c, c = tp.m.c, tp.pc = "run", tp.m.k = "in", tp.m.op \in {"data", "fin"},
         tcp' = [tcp EXCEPT ![c].gotfin = @ \/ tp.m.op = "fin"],
         IF tcp[c].cb THEN RecvTcp(tp.m) ELSE tp' = Rest /\ UNCHANGED <<conn, fault>>,
         UNCHANGED <<mbox, net, sock, thr, www, resets>>, fault' = "none"
  PROVE  Types' /\ Sound'
<1>1. tp.m \in InMsgs /\ tp \in TpRecs
  BY DEF Sound, Messages, Msgs, ApiMsgs, Types
<1>2. c \in Conns /\ c \in Netconns
  <2>1. c \in Conns
    BY <1>1 DEF InMsgs
  <2> QED BY <2>1, Names
<1>3. tcp \in [Conns -> TcpRecs] /\ conn \in [Netconns -> ConnRecs] /\ 0 \in Int /\ "ok" \in Errs
  BY DEF Types, Errs
<1>g. PICK g : g = (tcp[c].gotfin \/ tp.m.op = "fin")
  OBVIOUS
<1>h. g \in BOOLEAN
  BY <1>g
<1>4. TcpEdited(tcp, tcp', c, tcp[c].cb, g)
  <2>1. tcp' = [tcp EXCEPT ![c].gotfin = g]
    BY <1>2, <1>3, <1>g
  <2>2. PICK b \in BOOLEAN : b = g
    BY <1>h
  <2>3. tcp' = [tcp EXCEPT ![c].gotfin = b]
    BY <2>1, <2>2
  <2>4. TcpEdited(tcp, tcp', c, tcp[c].cb, b)
    BY <1>2, <1>3, <2>3 DEF TcpRecs, TcpEdited
  <2> QED BY <2>2, <2>4
<1>5. /\ tcp' \in [Conns -> TcpRecs] /\ (tp.m.op = "fin" => tcp'[c].gotfin)
      /\ \A d \in Conns : tcp'[d].cb = tcp[d].cb /\ (tcp[d].gotfin => tcp'[d].gotfin)
  BY <1>4, <1>g DEF TcpEdited
<1>6. \/ tp' = Rest /\ conn' = conn
      \/ tcp[c].cb /\ conn' = [conn EXCEPT ![c].err = "ok"] /\ tp' = [tp EXCEPT !.pc = "give"]
  BY DEF RecvTcp
<1>7. /\ conn' \in [Netconns -> ConnRecs]
      /\ \A d \in Netconns : /\ conn'[d].st = conn[d].st /\ conn'[d].pcb = conn[d].pcb
                             /\ conn'[d].state = conn[d].state /\ conn'[d].sem = conn[d].sem
  <2>1. CASE conn' = conn
    BY <1>3, <2>1
  <2>2. CASE conn' = [conn EXCEPT ![c].err = "ok"]
    <3>1. ConnEdited(conn, conn', c, "ok", conn[c].pcb, conn[c].sem, conn[c].state)
      BY <1>2, <1>3, <2>2, ConnErr
    <3> QED BY <3>1 DEF ConnEdited
  <2> QED BY <1>6, <2>1, <2>2
<1>8. /\ TpOK' /\ tp' \in TpRecs /\ tp'.pc # "asleep" /\ \A d : ~Hand(d)' /\ ~SynInHand(d)'
  <2>1. CASE tp' = Rest
    BY <2>1, TpResting
  <2>2. CASE tcp[c].cb /\ tp' = [tp EXCEPT !.pc = "give"]
    <3>1. tp' \in TpRecs /\ tp'.pc = "give" /\ tp'.m = tp.m
      BY <1>1, <2>2 DEF TpRecs
    <3> QED BY <1>1, <1>2, <1>5, <2>2, <3>1 DEF TpOK, Hand, SynInHand
  <2> QED BY <1>6, <2>1, <2>2
<1>9. Types'
  BY <1>5, <1>7, <1>8 DEF Types
<1>10. tp.pc \notin {"err", "tell"} /\ \A d : ~Hand(d)
  BY DEF Hand
<1>11. Sound'
  BY <1>5, <1>7, <1>8, <1>10, Names, TpQuiet
<1> QED BY <1>9, <1>11

(* accept_function: a new netconn, for a connection that nobody knows yet. *)
LEMMA NobodyKnows ==
  ASSUME Types, Sound, NEW c \in Conns, conn[c].st = "none"
  PROVE  /\ \A t \in Threads : Mine(t) # c /\ ~CallerOf(t, c)
         /\ ~InTable(c) /\ \A s \in Servers : \A d : Waits(s, d) => d # c
         /\ c \notin resets /\ ~Told(c)
<1>0. c \in Netconns /\ c # NoConn
  BY Names
<1>1. \A t \in Threads : Mine(t) # c
  BY <1>0 DEF Sound, Places, Alive
<1>2. \A t \in Threads : ~CallerOf(t, c)
  BY <1>0, <1>1, CallersMine
<1>3. ~InTable(c) /\ \A s \in Servers : \A d : Waits(s, d) => d # c
  BY <1>0 DEF Sound, Places, Alive, InTable, Waits
<1>4. c \notin resets
  BY DEF Sound, Callbacks
<1>5. Answered(c)
  BY <1>0 DEF Sound, Answers
<1>6. ~Told(c)
  BY <1>2, <1>4, <1>5 DEF Answered
<1> QED BY <1>1, <1>2, <1>3, <1>4, <1>6

LEMMA AcceptedStep ==
  ASSUME Types, Sound, NEW c \in Conns, SynInHand(c), NEW s, s = net[c].port,
         conn[s].pcb = "listen", NEW w \in States,
         conn' = [conn EXCEPT ![c] = [st |-> "live", err |-> "ok", pcb |-> "open", sem |-> "0", state |-> w]],
         tcp' = [tcp EXCEPT ![c] = [room |-> SndBuf, cb |-> TRUE, gotfin |-> FALSE]],
         mbox' = PostOn([mbox EXCEPT ![Recv(c)] = NewBox, ![Ans(c)] = NewBox], Accept(s), c),
         tp' = Rest, UNCHANGED <<net, sock, thr, www, resets>>
  PROVE  Types' /\ Sound'
<1>0. c \in Netconns /\ c # NoConn /\ c \in Items
  BY Names, ItemValues
<1>1. conn[c].st = "none"
  BY DEF Sound, SynOnce
<1>2. /\ \A t \in Threads : Mine(t) # c /\ ~CallerOf(t, c)
      /\ ~InTable(c) /\ \A r \in Servers : \A d : Waits(r, d) => d # c
      /\ c \notin resets /\ ~Told(c)
  BY <1>1, NobodyKnows
<1>3. s \in Servers /\ s \in Netconns
  <2>1. s \in Servers
    BY DEF Types, NetRecs
  <2> QED BY <2>1, Names
<1>4. PICK f, g : f = [mbox EXCEPT ![Recv(c)] = NewBox] /\ g = [f EXCEPT ![Ans(c)] = NewBox]
  OBVIOUS
<1>5. /\ {Recv(c), Ans(c), Accept(s)} \subseteq Boxes \ {Transport}
      /\ Recv(c) # Ans(c) /\ Recv(c) # Accept(s) /\ Ans(c) # Accept(s)
  <2>1. Recv(c) \in Boxes /\ Ans(c) \in Boxes /\ Recv(c) # Transport /\ Ans(c) # Transport
    BY <1>0, BoxNames, Zenon
  <2>2. Accept(s) \in Boxes /\ Accept(s) # Transport
    BY <1>3, BoxNames, Zenon
  <2>3. Recv(c) # Ans(c) /\ Recv(c) # Accept(s) /\ Ans(c) # Accept(s)
    BY DEF Ans, Recv, Accept
  <2> QED BY <2>1, <2>2, <2>3, Zenon
<1>6. /\ g \in [Boxes -> BoxRecs] /\ g[Recv(c)] = NewBox /\ g[Ans(c)] = NewBox
      /\ \A b \in Boxes \ {Recv(c), Ans(c)} : g[b] = mbox[b]
  <2>1. mbox \in [Boxes -> BoxRecs]
    BY DEF Types
  <2>2. f \in [Boxes -> BoxRecs] /\ f[Recv(c)] = NewBox /\ \A b \in Boxes \ {Recv(c)} : f[b] = mbox[b]
    BY <1>4, <1>5, <2>1, BoxValues
  <2> QED BY <1>4, <1>5, <2>2, BoxValues
<1>7. mbox' = PostOn(g, Accept(s), c)
  BY SMTT(40), <1>4
<1>8. /\ mbox' \in [Boxes -> BoxRecs] /\ mbox'[Accept(s)].st = g[Accept(s)].st
      /\ mbox'[Accept(s)].q = Append(g[Accept(s)].q, c)
      /\ mbox'[Accept(s)].mail = (g[Accept(s)].mail \/ g[Accept(s)].q = << >>)
      /\ \A b \in Boxes \ {Accept(s)} : mbox'[b] = g[b]
  <2>1. Accept(s) \in Boxes /\ c \in Items /\ g \in [Boxes -> BoxRecs]
    BY <1>0, <1>5, <1>6
  <2>2. PICK b : b = Accept(s)
    OBVIOUS
  <2>3. /\ PostOn(g, b, c) \in [Boxes -> BoxRecs]
        /\ PostOn(g, b, c)[b].st = g[b].st
        /\ PostOn(g, b, c)[b].q = Append(g[b].q, c)
        /\ PostOn(g, b, c)[b].mail = (g[b].mail \/ g[b].q = << >>)
        /\ \A a \in Boxes \ {b} : PostOn(g, b, c)[a] = g[a]
    BY SMTT(40), <2>1, <2>2, PostFacts
  <2> QED BY <1>7, <2>2, <2>3
<1>9. /\ mbox'[Recv(c)] = NewBox /\ mbox'[Ans(c)] = NewBox /\ g[Accept(s)] = mbox[Accept(s)]
      /\ mbox'[Transport] = mbox[Transport]
      /\ \A b \in Boxes \ {Recv(c), Ans(c), Accept(s)} : mbox'[b] = mbox[b]
  BY ZenonT(60), <1>5, <1>6, <1>8, BoxNames
<1>10. /\ conn' \in [Netconns -> ConnRecs] /\ (\A d \in Netconns : d # c => conn'[d] = conn[d])
       /\ conn'[c].st = "live" /\ conn'[c].pcb = "open"
  <2>1. PICK r : r = [st |-> "live", err |-> "ok", pcb |-> "open", sem |-> "0", state |-> w]
    OBVIOUS
  <2>2. r \in ConnRecs /\ r.st = "live" /\ r.pcb = "open"
    BY <2>1 DEF ConnRecs, States
  <2>3. conn' = [conn EXCEPT ![c] = r] /\ conn \in [Netconns -> ConnRecs]
    BY <2>1 DEF Types
  <2> QED BY <1>0, <2>2, <2>3
<1>11. /\ tcp' \in [Conns -> TcpRecs] /\ (\A d \in Conns : d # c => tcp'[d] = tcp[d]) /\ tcp'[c].cb
  <2>1. PICK r : r = [room |-> SndBuf, cb |-> TRUE, gotfin |-> FALSE]
    OBVIOUS
  <2>2. r \in TcpRecs /\ r.cb
    BY <2>1, NetconnAssumption DEF TcpRecs
  <2>3. tcp' = [tcp EXCEPT ![c] = r] /\ tcp \in [Conns -> TcpRecs]
    BY SMTT(40), <2>1 DEF Types
  <2> QED BY <2>2, <2>3
<1>12. Types'
  BY <1>8, <1>10, <1>11, RestFacts DEF Types
<1>13. TpKeep
  BY <1>10, Names DEF TpKeep
<1>14. /\ TpOK' /\ tp'.pc # "asleep" /\ \A d : ~Hand(d)' /\ ~SynInHand(d)'
  BY TpResting
<1>15. Q' = Q
  BY <1>9 DEF Q
<1>16. tp.pc = "run" /\ \A d : ~Hand(d)
  BY DEF SynInHand, Hand
<1>17. Control' /\ \A u \in Threads : SameView(u)
  BY <1>13, TpControl
<1>18. ASSUME NEW d \in Netconns
       PROVE  /\ d # c => mbox'[Ans(d)] = mbox[Ans(d)] /\ mbox'[Recv(d)] = mbox[Recv(d)]
              /\ d # s => mbox'[Accept(d)] = mbox[Accept(d)]
  <2>1. {Recv(d), Ans(d), Accept(d)} \subseteq Boxes
    BY BoxNames
  <2>2. /\ Ans(d) # Recv(c) /\ Ans(d) # Accept(s) /\ Recv(d) # Ans(c) /\ Recv(d) # Accept(s)
        /\ Accept(d) # Ans(c) /\ Accept(d) # Recv(c)
        /\ (d # c => Ans(d) # Ans(c) /\ Recv(d) # Recv(c)) /\ (d # s => Accept(d) # Accept(s))
    BY DEF Ans, Recv, Accept
  <2> QED BY <1>9, <2>1, <2>2
<1>19. SynOnce'
  <2>1. \A d \in Conns : /\ net'[d].syn => net[d].syn
                         /\ SynInHand(d)' => SynInHand(d)
                         /\ \/ conn[d].st = "none" => conn'[d].st = "none"
                            \/ SynInHand(d) /\ ~SynInHand(d)'
    BY <1>10, <1>14, Names
  <2> QED BY <1>15, <2>1, TpSyn
<1>20. Messages'
  <2>1. \A r \in Servers : /\ mbox[Accept(r)].st = "live" => mbox'[Accept(r)].st = "live"
                           /\ conn'[r].pcb = "listen" => mbox'[Accept(r)].st = "live"
    <3>1. \A r \in Servers : mbox'[Accept(r)].st = mbox[Accept(r)].st /\ conn'[r] = conn[r]
      <4> SUFFICES ASSUME NEW r \in Servers
                   PROVE  mbox'[Accept(r)].st = mbox[Accept(r)].st /\ conn'[r] = conn[r]
        OBVIOUS
      <4>1. r \in Netconns /\ r # c
        BY Names
      <4>2. conn'[r] = conn[r]
        BY SMTT(40), <1>10, <4>1
      <4>3. r = s => mbox'[Accept(r)].st = mbox[Accept(r)].st
        BY <1>8, <1>9
      <4>4. r # s => mbox'[Accept(r)].st = mbox[Accept(r)].st
        BY <1>18, <4>1
      <4> QED BY <4>2, <4>3, <4>4
    <3> QED BY ZenonT(60), <3>1 DEF Sound, Messages
  <2>2. mbox'[Transport].st = mbox[Transport].st
    BY <1>9
  <2> QED BY <1>14, <1>15, <2>1, <2>2, TpMessages
<1>21. Answers'
  <2>1. \A d \in Netconns : mbox'[Ans(d)].q = mbox[Ans(d)].q /\ (Told(d) => Told(d)')
    BY ZenonT(60), <1>2, <1>9, <1>18, BoxValues DEF Told
  <2>2. \A d \in Conns : d \notin resets' /\ (\E t \in Threads : CallerOf(t, d)) /\ tcp'[d].cb => tcp[d].cb
    BY <1>2, <1>11
  <2> QED BY <1>13, <1>14, <1>15, <1>16, <2>1, <2>2, TpAnswers
<1>22. \A u \in Threads : thr'[u] = thr[u] /\ Mine(u)' = Mine(u) /\ Deleting(u)' = Deleting(u) /\ Writing(u)' = Writing(u)
  BY <1>17 DEF SameView
<1>23. Callbacks'
  <2> SUFFICES ASSUME NEW d \in Conns
               PROVE  /\ tcp'[d].cb => conn'[d].st = "live"
                      /\ conn'[d].st = "none" => d \notin resets'
                      /\ d \in resets' => ~tcp'[d].cb /\ conn'[d].pcb = "null"
                      /\ conn'[d].st = "live" /\ d \notin resets' =>
                           /\ conn'[d].pcb = "open"
                           /\ tcp'[d].cb \/ \E t \in Threads : Mine(t)' = d /\ Deleting(t)'
                      /\ \A t \in Threads : thr'[t].pc \in {"drain", "free"} /\ thr'[t].c = d => ~tcp'[d].cb
    BY DEF Callbacks
  <2>1. CASE d = c
    <3>1. \A t \in Threads : thr[t].pc \in {"drain", "free"} => thr[t].c # c
      BY <1>2, DeletersMine
    <3> QED BY <1>2, <1>10, <1>11, <1>22, <2>1, <3>1
  <2>2. CASE d # c
    <3>1. conn'[d] = conn[d] /\ tcp'[d] = tcp[d]
      BY <1>10, <1>11, <2>2, Names
    <3> QED BY <1>22, <3>1 DEF Sound, Callbacks
  <2> QED BY <2>1, <2>2
<1>24. Reading'
  <2>1. ASSUME NEW d \in Conns PROVE ReadOK(d)'
    <3>1. CASE d = c
      <4>0. mbox'[Recv(c)].st = "live" /\ mbox'[Recv(c)].q = << >>
        BY <1>9, BoxValues
      <4>1. mbox'[Recv(c)].st = "live" /\ DOMAIN mbox'[Recv(c)].q = {}
        <5>1. DOMAIN << >> = {}
          BY NoItems
        <5> QED BY <4>0, <5>1
      <4> QED BY <3>1, <4>1 DEF ReadOK
    <3>2. CASE d # c
      <4>1. mbox'[Recv(d)] = mbox[Recv(d)] /\ tcp'[d] = tcp[d]
        BY <1>11, <1>18, <3>2, Names
      <4> QED BY <4>1 DEF Sound, Reading, ReadOK
    <3> QED BY <3>1, <3>2
  <2>2. ASSUME NEW u \in Threads, thr'[u].pc = "taken", thr'[u].got = "null"
        PROVE  tcp'[thr'[u].c].gotfin \/ thr'[u].c \in resets'
    <3>1. thr'[u] = thr[u]
      BY <1>22
    <3>2. thr[u].pc \in OnlyWorkers /\ thr[u].pc \notin {"recv", "send", "close"}
      BY <2>2, <3>1 DEF OnlyWorkers
    <3>3. thr[u].c = Mine(u) /\ Mine(u) \in Conns
      BY <3>2, WorkerAt
    <3>4. tcp'[thr[u].c] = tcp[thr[u].c]
      BY <1>2, <1>11, <3>3
    <3> QED BY <2>2, <3>1, <3>4 DEF Sound, Reading
  <2> QED BY <2>1, <2>2 DEF Reading
<1>25. Writers'
  <2> SUFFICES ASSUME NEW t \in Workers, Writing(t)' PROVE WriterOK(t)'
    BY DEF Writers, WriterOK
  <2>1. t \in Threads /\ thr'[t] = thr[t] /\ Writing(t)
    BY <1>22, Names
  <2>2. thr[t].c = Mine(t) /\ thr[t].c \in Conns /\ thr[t].c # c
    BY <1>2, <2>1, WriterOf
  <2>3. conn'[thr[t].c] = conn[thr[t].c] /\ tcp'[thr[t].c] = tcp[thr[t].c]
    BY <1>10, <1>11, <2>2, Names
  <2>4. WriterOK(t)
    BY DEF Sound, Writers
  <2> QED BY <1>16, <2>1, <2>3, <2>4 DEF WriterOK
<1>26. Mail'
  <2>1. ASSUME NEW b \in Boxes PROVE MailKeeps(b)
    <3>1. CASE b = Accept(s)
      BY <1>8, <1>9, <3>1 DEF MailKeeps
    <3>2. CASE b \in {Recv(c), Ans(c)}
      BY <1>9, <3>2, BoxValues DEF MailKeeps
    <3>3. CASE b \notin {Recv(c), Ans(c), Accept(s)}
      BY <1>9, <3>3 DEF MailKeeps
    <3> QED BY SMTT(40), <3>1, <3>2, <3>3
  <2> QED BY <1>13, <1>14, <2>1, TpMail
<1>27. Places'
  <2>1. Exclusive'
    BY <1>22 DEF Sound, Places, Exclusive
  <2>2. \A d : InTable(d)' <=> InTable(d)
    BY DEF InTable
  <2>3. Alive'
    <3>1. \A d \in Netconns : conn[d].st = "live" => conn'[d].st = "live"
      BY <1>10
    <3>2. ASSUME NEW u \in Threads, Mine(u)' # NoConn PROVE conn'[Mine(u)'].st = "live"
      BY <3>1, <3>2, <1>22, MineTyped DEF Sound, Places, Alive
    <3>3. ASSUME NEW i \in DOMAIN sock, sock[i].conn # NoConn PROVE conn'[sock[i].conn].st = "live"
      <4>1. sock[i].conn \in Netconns
        BY <3>3, SockFacts DEF SockRecs
      <4> QED BY <3>1, <3>3, <4>1 DEF Sound, Places, Alive
    <3>4. \A d \in Netconns : conn'[d].st = "live" => mbox'[Ans(d)].st = "live"
      <4>1. mbox'[Ans(c)].st = "live"
        BY <1>9, BoxValues
      <4>2. ASSUME NEW d \in Netconns, d # c, conn'[d].st = "live" PROVE mbox'[Ans(d)].st = "live"
        <5>1. mbox'[Ans(d)] = mbox[Ans(d)] /\ conn'[d] = conn[d]
          BY <1>10, <1>18, <4>2
        <5> QED BY <4>2, <5>1 DEF Sound, Places, Alive
      <4> QED BY <4>1, <4>2
    <3> QED BY <3>2, <3>3, <3>4 DEF Alive
  <2>4. ASSUME NEW r \in Servers, NEW d, Waits(r, d) PROVE Waits(r, d)'
    <3>1. d \in Netconns /\ d # c
      BY <2>4, <1>2, Names DEF Waits
    <3> QED BY <2>2, <2>4, <3>1, <1>10, <1>22 DEF Waits
  <2>5. Waits(s, c)'
    BY <1>2, <1>10, <1>22, <2>2 DEF Waits
  <2>6. AcceptQueues'
    <3> SUFFICES ASSUME NEW r \in Servers PROVE AcceptOK(r)'
      BY DEF AcceptQueues
    <3>0. AcceptOK(r)
      BY DEF Sound, Places, AcceptQueues
    <3>1. CASE r = s
      <4>1. PICK q, n : q = mbox[Accept(s)].q /\ n = Len(q) + 1
        OBVIOUS
      <4>2. q \in Seq(Items)
        BY <4>1, <1>5 DEF Types, BoxRecs
      <4>3. /\ \A i \in DOMAIN Append(q, c) : i \in DOMAIN q \/ i = n
            /\ \A i \in DOMAIN q : Append(q, c)[i] = q[i]
            /\ Append(q, c)[n] = c
        BY SMTT(40), <1>0, <4>1, <4>2, AppendFacts
      <4>4. mbox'[Accept(s)].q = Append(q, c)
        BY <1>8, <1>9, <4>1
      <4>5. /\ \A i \in DOMAIN q : Waits(s, q[i]) /\ q[i] # c
            /\ \A i, j \in DOMAIN q : q[i] = q[j] => i = j
        BY <1>2, <1>3, <3>0, <3>1, <4>1 DEF AcceptOK
      <4>6. PICK p : p = Append(q, c)
        OBVIOUS
      <4>7. \A i \in DOMAIN p : Waits(s, p[i])'
        BY <1>3, <2>4, <2>5, <4>3, <4>5, <4>6
      <4>8. \A i, j \in DOMAIN p : p[i] = p[j] => i = j
        BY <4>3, <4>5, <4>6
      <4>9. mbox'[Accept(r)].q = p
        BY <3>1, <4>4, <4>6
      <4>10. \A i \in DOMAIN p : Waits(r, p[i])'
        BY <3>1, <4>7
      <4> QED BY <4>8, <4>9, <4>10 DEF AcceptOK
    <3>2. CASE r # s
      <4>1. mbox'[Accept(r)].q = mbox[Accept(r)].q
        BY <1>18, <3>2, Names
      <4>2. PICK q : q = mbox[Accept(r)].q
        OBVIOUS
      <4>3. \A i \in DOMAIN q : Waits(r, q[i])'
        BY <2>4, <3>0, <4>2 DEF AcceptOK
      <4>4. \A i, j \in DOMAIN q : q[i] = q[j] => i = j
        BY <3>0, <4>2 DEF AcceptOK
      <4>5. mbox'[Accept(r)].q = q
        BY <4>1, <4>2
      <4> QED BY <4>3, <4>4, <4>5 DEF AcceptOK
    <3> QED BY <3>1, <3>2
  <2>7. Table'
    <3>1. \A r \in Servers : Unplaced(r)' = Unplaced(r)
      BY <1>17, Names DEF SameView
    <3> QED BY <1>22, <2>2, <3>1, Names DEF Sound, Places, Table
  <2>8. WwwQueue'
    <3>1. \A i : Parked(i) => Parked(i)'
      BY <1>22 DEF Parked
    <3> QED BY <3>1 DEF Sound, Places, WwwQueue
  <2> QED BY <2>1, <2>3, <2>6, <2>7, <2>8 DEF Places
<1> QED BY <1>12, <1>17, <1>19, <1>20, <1>21, <1>23, <1>24, <1>25, <1>26, <1>27 DEF Sound

LEMMA SilentStep ==
  ASSUME Types, Sound, NEW c \in Conns, SynInHand(c), net' = Silent(c), tp' = Rest,
         UNCHANGED <<mbox, conn, tcp, sock, thr, www, resets>>
  PROVE  Types' /\ Sound'
<1>1. /\ net' \in [Conns -> NetRecs]
      /\ \A d \in Conns : net'[d].port = net[d].port /\ (net'[d].syn => net[d].syn)
  BY SilentFacts
<1>2. /\ TpOK' /\ tp' \in TpRecs /\ tp'.pc # "asleep" /\ \A d : ~Hand(d)' /\ ~SynInHand(d)'
  BY TpResting
<1>3. tp.pc \notin {"err", "tell"} /\ \A d : ~Hand(d)
  BY DEF SynInHand, Hand
<1>4. Types'
  BY <1>1, <1>2 DEF Types
<1>5. Sound'
  BY <1>1, <1>2, <1>3, TpQuiet
<1> QED BY <1>4, <1>5

LEMMA TcpInputStep ==
  ASSUME Types, Sound, TcpInput, fault' = "none"
  PROVE  Types' /\ Sound'
<1>1. PICK c : c = tp.m.c
  OBVIOUS
<1>2. /\ tp.pc = "run" /\ tp.m.k = "in" /\ tp.m.op # "rst"
      /\ UNCHANGED <<sock, thr, www, resets>>
  BY DEF TcpInput
<1>3. tp.m \in InMsgs /\ c \in Conns
  <2>1. tp.m \in Msgs
    BY <1>2 DEF Sound, Messages
  <2>2. tp.m \in InMsgs
    BY <1>2, <2>1 DEF Msgs, ApiMsgs
  <2> QED BY <1>1, <2>2 DEF InMsgs
<1>4. tp.m.op \in {"syn", "data", "fin", "ack"}
  BY <1>2, <1>3 DEF InMsgs
<1>5. CASE tp.m.op = "syn"
  <2>1. SynInHand(c)
    BY <1>1, <1>2, <1>5 DEF SynInHand
  <2>2. AcceptFunction(c) /\ tp' = Rest
    BY <1>1, <1>5 DEF TcpInput
  <2>3. CASE net' = Silent(c) /\ UNCHANGED <<mbox, conn, tcp, fault>>
    BY <1>2, <1>3, <2>1, <2>2, <2>3, SilentStep
  <2>4. CASE ~(net' = Silent(c) /\ UNCHANGED <<mbox, conn, tcp, fault>>)
    <3>1. PICK s : s = net[c].port
      OBVIOUS
    <3>2. PICK w \in {"none", "write"} :
             conn' = [conn EXCEPT ![c] = [st |-> "live", err |-> "ok", pcb |-> "open", sem |-> "0", state |-> w]]
      BY <2>2, <2>4 DEF AcceptFunction
    <3>3. /\ conn[s].pcb = "listen"
          /\ tcp' = [tcp EXCEPT ![c] = [room |-> SndBuf, cb |-> TRUE, gotfin |-> FALSE]]
          /\ mbox' = PostOn([mbox EXCEPT ![Recv(c)] = NewBox, ![Ans(c)] = NewBox], Accept(s), c)
          /\ net' = net
      BY <2>2, <2>4, <3>1 DEF AcceptFunction
    <3>4. w \in States
      BY <3>2 DEF States
    <3> QED BY <1>2, <1>3, <2>1, <2>2, <3>1, <3>2, <3>3, <3>4, AcceptedStep
  <2> QED BY <2>3, <2>4
<1>6. CASE tp.m.op = "ack"
  <2>1. /\ SentTcp(c) /\ tcp' = [tcp EXCEPT ![c].room = SndBuf]
        /\ tp' = IF tcp[c].cb /\ tcp[c].gotfin THEN [tp EXCEPT !.m.op = "fin"] ELSE Rest
        /\ UNCHANGED <<mbox, net>>
    BY <1>1, <1>6 DEF TcpInput
  <2> QED BY <1>1, <1>2, <1>6, <2>1, TcpAckStep
<1>7. CASE tp.m.op \in {"data", "fin"}
  <2>1. /\ tcp' = [tcp EXCEPT ![c].gotfin = @ \/ tp.m.op = "fin"]
        /\ IF tcp[c].cb THEN RecvTcp(tp.m) ELSE tp' = Rest /\ UNCHANGED <<conn, fault>>
        /\ UNCHANGED <<mbox, net>>
    BY <1>1, <1>7 DEF TcpInput
  <2> QED BY <1>1, <1>2, <1>7, <2>1, TcpDataStep
<1> QED BY <1>4, <1>5, <1>6, <1>7

(* The transport thread finds nothing, and goes to sleep. *)
LEMMA TransportSleeps ==
  ASSUME Types, Sound, tp.pc = "test", mbox[Transport].q = << >>, tp' = [Rest EXCEPT !.pc = "asleep"],
         UNCHANGED <<mbox, conn, tcp, sock, thr, www, net, resets>>
  PROVE  Types' /\ Sound'
<1>1. tp' \in TpRecs /\ tp'.pc = "asleep"
  BY RestFacts DEF TpRecs
<1>2. Types'
  BY <1>1 DEF Types
<1>3. TpKeep
  BY DEF TpKeep
<1>4. /\ \A d : ~Hand(d)' /\ ~SynInHand(d)' /\ ~Hand(d) /\ ~SynInHand(d)
      /\ TpOK'
  BY <1>1 DEF Hand, SynInHand, TpOK
<1>5. Q' = Q
  BY DEF Q
<1>6. Control'
  BY <1>3, TpControl
<1>7. Places'
  BY <1>3, TpPlaces
<1>8. SynOnce'
  BY <1>4, <1>5, TpSyn
<1>9. Messages'
  <2>1. \A s \in Servers : conn'[s].pcb = "listen" => mbox'[Accept(s)].st = "live"
    BY DEF Sound, Messages
  <2> QED BY <1>4, <1>5, <2>1, TpMessages
<1>10. Answers'
  BY <1>3, <1>4, <1>5, TpAnswers DEF Told
<1>11. Callbacks'
  BY <1>3, TpCallbacks
<1>12. Reading'
  <2>1. \A c \in Conns : ReadOK(c)'
    BY DEF Sound, Reading, ReadOK
  <2> QED BY <1>3, <2>1, TpReading
<1>13. Writers'
  BY <1>3, TpWriters
<1>14. Mail'
  <2>1. \A b \in Boxes : MailKeeps(b)
    BY DEF MailKeeps
  <2> QED BY <1>3, <2>1, TpMail
<1> QED BY <1>2, <1>6, <1>7, <1>8, <1>9, <1>10, <1>11, <1>12, <1>13, <1>14 DEF Sound

(* The transport thread takes the oldest message. *)
LEMMA TransportTakes ==
  ASSUME Types, Sound, tp.pc = "test", mbox[Transport].q # << >>,
         tp' = [Rest EXCEPT !.pc = "run", !.m = Head(mbox[Transport].q)],
         mbox' = [mbox EXCEPT ![Transport].q = Tail(@)],
         UNCHANGED <<conn, tcp, sock, thr, www, net, resets>>
  PROVE  Types' /\ Sound'
<1>1. Transport \in Boxes
  BY BoxNames
<1>2. /\ mbox' \in [Boxes -> BoxRecs] /\ mbox'[Transport].st = mbox[Transport].st
      /\ mbox'[Transport].mail = mbox[Transport].mail
      /\ mbox'[Transport].q = Tail(mbox[Transport].q) /\ \A a \in Boxes : a # Transport => mbox'[a] = mbox[a]
      /\ mbox[Transport].q \in Seq(Items)
  BY <1>1, TakeFrom
<1>3. PICK q, p, m : q = mbox[Transport].q /\ p = Tail(q) /\ m = Head(q)
  OBVIOUS
<1>4. q \in Seq(Items) /\ q # << >>
  BY <1>2, <1>3
<1>5. /\ \A i \in DOMAIN p : i + 1 \in DOMAIN q /\ p[i] = q[i + 1] /\ i + 1 # 1
      /\ \A i, j \in DOMAIN p : i + 1 = j + 1 => i = j
      /\ \A i \in DOMAIN q : i # 1 => \E j \in DOMAIN p : i = j + 1
      /\ 1 \in DOMAIN q /\ m = q[1]
  BY <1>3, <1>4, TailFacts
<1>6. Q = q /\ Q' = p
  BY <1>2, <1>3 DEF Q
<1>7. m \in Msgs /\ ApiOK(m)
  BY <1>5, <1>6 DEF Sound, Messages
<1>8. tp' \in TpRecs /\ tp'.pc = "run" /\ tp'.m = m
  <2>1. tp' = [Rest EXCEPT !.pc = "run", !.m = m]
    BY <1>3
  <2> QED BY <1>7, <2>1, RestFacts DEF TpRecs
<1>9. Types'
  BY <1>2, <1>8 DEF Types
<1>10. TpKeep
  BY DEF TpKeep
<1>11. Control' /\ \A u \in Threads : \A d : CallerOf(u, d)' <=> CallerOf(u, d)
  BY <1>10, TpControl
<1>12. \A d \in Netconns : /\ mbox'[Ans(d)] = mbox[Ans(d)] /\ mbox'[Recv(d)] = mbox[Recv(d)]
                           /\ mbox'[Accept(d)] = mbox[Accept(d)]
  BY <1>2, BoxNames
<1>13. Places'
  BY <1>10, <1>12, Names, TpPlaces
<1>14. \A d : ~Hand(d) /\ ~SynInHand(d)
  BY DEF Hand, SynInHand
<1>15. SynOnce'
  <2> SUFFICES ASSUME NEW d \in Conns
               PROVE  /\ net'[d].syn => conn'[d].st = "none" /\ ~SynInHand(d)' /\ \A i \in DOMAIN Q' : ~SynAt(i, d)'
                      /\ SynInHand(d)' => conn'[d].st = "none" /\ \A i \in DOMAIN Q' : ~SynAt(i, d)'
                      /\ \A i \in DOMAIN Q' : SynAt(i, d)' => conn'[d].st = "none"
                      /\ \A i, j \in DOMAIN Q' : SynAt(i, d)' /\ SynAt(j, d)' => i = j
    BY DEF SynOnce
  <2>1. /\ net[d].syn => conn[d].st = "none" /\ \A i \in DOMAIN Q : ~SynAt(i, d)
        /\ \A i \in DOMAIN Q : SynAt(i, d) => conn[d].st = "none"
        /\ \A i, j \in DOMAIN Q : SynAt(i, d) /\ SynAt(j, d) => i = j
    BY DEF Sound, SynOnce
  <2>2. \A i \in DOMAIN p : SynAt(i, d)' <=> SynAt(i + 1, d)
    BY <1>5, <1>6 DEF SynAt
  <2>3. SynInHand(d)' => SynAt(1, d)
    BY <1>5, <1>6, <1>8 DEF SynInHand, SynAt
  <2>4. \A i \in DOMAIN p : i + 1 \in DOMAIN q /\ i + 1 # 1
    BY <1>5
  <2>5. 1 \in DOMAIN q
    BY <1>5
  <2>6. net'[d].syn => conn'[d].st = "none" /\ ~SynInHand(d)' /\ \A i \in DOMAIN Q' : ~SynAt(i, d)'
    BY <1>6, <2>1, <2>2, <2>3, <2>4, <2>5
  <2>7. SynInHand(d)' => conn'[d].st = "none" /\ \A i \in DOMAIN Q' : ~SynAt(i, d)'
    BY <1>6, <2>1, <2>2, <2>3, <2>4, <2>5
  <2>8. \A i \in DOMAIN Q' : SynAt(i, d)' => conn'[d].st = "none"
    BY <1>6, <2>1, <2>2, <2>4
  <2>9. \A i, j \in DOMAIN Q' : SynAt(i, d)' /\ SynAt(j, d)' => i = j
    BY <1>5, <1>6, <2>1, <2>2, <2>4
  <2> QED BY <2>6, <2>7, <2>8, <2>9
<1>16. \A x : ApiOK(x) => ApiOK(x)'
  <2> SUFFICES ASSUME NEW x, ApiOK(x), x.k = "api", x.op = "listen" PROVE mbox'[Accept(x.c)].st = "live"
    BY DEF ApiOK
  <2>1. x.c \in Netconns /\ mbox[Accept(x.c)].st = "live"
    BY Names DEF ApiOK
  <2> QED BY <1>12, <2>1
<1>17. Messages'
  <2>1. \A i \in DOMAIN p : p[i] \in Msgs /\ ApiOK(p[i])'
    BY <1>5, <1>6, <1>16 DEF Sound, Messages
  <2>2. tp'.m \in Msgs /\ ApiOK(m)'
    BY <1>7, <1>8, <1>16
  <2>3. \A i \in DOMAIN Q' : Q'[i] \in Msgs /\ ApiOK(Q[i])'
    BY <1>6, <2>1
  <2>4. ApiOK(tp.m)'
    BY <1>8, <2>2
  <2>5. \A s \in Servers : conn'[s].pcb = "listen" => mbox'[Accept(s)].st = "live"
    BY <1>12, Names DEF Sound, Messages
  <2>6. mbox'[Transport].st = "live"
    BY <1>2 DEF Sound, Messages
  <2> QED BY <1>8, <2>2, <2>3, <2>4, <2>5, <2>6 DEF Messages
<1>18. Answers'
  <2> SUFFICES ASSUME NEW d \in Netconns PROVE Answered(d)'
    BY DEF Answers
  <2>1. Answered(d)
    BY DEF Sound, Answers
  <2>2. \A i \in DOMAIN p : ReqAt(i, d)' <=> ReqAt(i + 1, d)
    BY <1>5, <1>6 DEF ReqAt
  <2>3. Hand(d)' <=> ReqAt(1, d)
    BY <1>5, <1>6, <1>8 DEF Hand, ReqAt
  <2>4. Asked(d)' => \E i \in DOMAIN q : i # 1 /\ ReqAt(i, d)
    BY <1>5, <1>6, <2>2 DEF Asked
  <2>5. Asked(d) <=> Asked(d)' \/ Hand(d)'
    BY <1>5, <1>6, <2>2, <2>3 DEF Asked
  <2>6. (Told(d)' <=> Told(d)) /\ mbox'[Ans(d)].q = mbox[Ans(d)].q
    BY <1>12 DEF Told
  <2>7. \A u \in Threads : CallerOf(u, d)' => Asked(d)' \/ Hand(d)' \/ Told(d)'
    BY <1>11, <1>14, <2>1, <2>5, <2>6 DEF Answered
  <2>8. CASE d \notin resets
    <3>1. \A i, j \in DOMAIN Q' : ReqAt(i, d)' /\ ReqAt(j, d)' => i = j
      BY <1>5, <1>6, <2>1, <2>2, <2>8 DEF Answered
    <3>2. Asked(d)' => ~Hand(d)'
      BY <1>5, <1>6, <2>1, <2>3, <2>4, <2>8 DEF Answered
    <3>3. Asked(d)' \/ Hand(d)' => ~Told(d)'
      BY <2>1, <2>5, <2>6, <2>8 DEF Answered
    <3>4. Asked(d)' \/ Hand(d)' \/ Told(d)' => \E t \in Threads : CallerOf(t, d)'
      BY <1>11, <2>1, <2>5, <2>6, <2>8 DEF Answered
    <3>5. ASSUME NEW u \in Threads, CallerOf(u, d)'
          PROVE  /\ \A i \in DOMAIN Q' : ReqAt(i, d)' => (Q'[i].op = "delconn" <=> thr'[u].then = "drain")
                 /\ Hand(d)' => (tp'.m.op = "delconn" <=> thr'[u].then = "drain")
                 /\ Told(d)' /\ thr'[u].then = "drain" /\ d \in Conns => ~tcp'[d].cb
      <4>1. /\ \A i \in DOMAIN q : ReqAt(i, d) => (q[i].op = "delconn" <=> thr[u].then = "drain")
            /\ Told(d) /\ thr[u].then = "drain" /\ d \in Conns => ~tcp[d].cb
        BY <1>6, <1>11, <2>1, <2>8, <3>5 DEF Answered
      <4> QED BY <1>5, <1>6, <1>8, <2>2, <2>3, <2>6, <4>1
    <3>6. Len(mbox'[Ans(d)].q) <= 1
      BY <2>1, <2>6, <2>8 DEF Answered
    <3> QED BY <2>7, <3>1, <3>2, <3>3, <3>4, <3>5, <3>6 DEF Answered
  <2> QED BY <2>7, <2>8 DEF Answered
<1>19. Callbacks'
  BY <1>10, TpCallbacks
<1>20. Reading'
  <2>1. \A c \in Conns : ReadOK(c)'
    BY <1>12, Names DEF Sound, Reading, ReadOK
  <2> QED BY <1>10, <2>1, TpReading
<1>21. Writers'
  BY <1>10, TpWriters
<1>22. Mail'
  <2>1. ASSUME NEW b \in Boxes PROVE MailKeeps(b)
    BY <1>2 DEF MailKeeps
  <2> QED BY <1>8, <1>10, <2>1, TpMail
<1> QED BY <1>9, <1>11, <1>13, <1>15, <1>17, <1>18, <1>19, <1>20, <1>21, <1>22 DEF Sound

LEMMA TransportTestStep ==
  ASSUME Types, Sound, TransportTest
  PROVE  Types' /\ Sound'
<1>1. CASE mbox[Transport].q = << >>
  BY <1>1, TransportSleeps DEF TransportTest
<1>2. CASE mbox[Transport].q # << >>
  BY <1>2, TransportTakes DEF TransportTest
<1> QED BY <1>1, <1>2

(* The packet thread: tcp_msg_input. *)
SegOps == {"syn", "data", "fin", "ack", "rst"}

LEMMA SegmentFacts ==
  ASSUME NEW op \in SegOps, NEW c \in Conns
  PROVE  LET m == Msg("in", op, c, 0) IN
         m \in InMsgs /\ m \in Msgs /\ m \in Items /\ m.k = "in" /\ m.op = op /\ m.c = c
  BY DEF Msg, InMsgs, Msgs, Items, SegOps

LEMMA NetEdits ==
  ASSUME NEW f \in [Conns -> NetRecs], NEW c \in Conns, NEW g, NEW n \in Int, NEW b \in BOOLEAN,
         \/ g = [f EXCEPT ![c].syn = FALSE]
         \/ g = [f EXCEPT ![c].data = n]
         \/ g = [f EXCEPT ![c].fin = b]
         \/ g = f
  PROVE  /\ g \in [Conns -> NetRecs]
         /\ \A d \in Conns : g[d].port = f[d].port /\ (g[d].syn => f[d].syn)
         /\ g = [f EXCEPT ![c].syn = FALSE] => ~g[c].syn
<1>1. CASE g = [f EXCEPT ![c].syn = FALSE]
  BY ZenonT(60), <1>1 DEF NetRecs
<1>2. CASE g = [f EXCEPT ![c].data = n]
  BY <1>2 DEF NetRecs
<1>3. CASE g = [f EXCEPT ![c].fin = b]
  BY <1>3 DEF NetRecs
<1>4. CASE g = f
  BY <1>4 DEF NetRecs
<1> QED BY <1>1, <1>2, <1>3, <1>4

LEMMA SegmentNet ==
  ASSUME Types, NEW c \in Conns, NEW op \in SegOps, TcpMsgInput(c, op)
  PROVE  /\ net' \in [Conns -> NetRecs]
         /\ \A d \in Conns : net'[d].port = net[d].port /\ (net'[d].syn => net[d].syn)
         /\ op = "syn" => net[c].syn /\ ~net'[c].syn
<1>1. net \in [Conns -> NetRecs]
  BY DEF Types
<1>2. PICK n \in Int : n = net[c].data - 1
  BY <1>1 DEF NetRecs
<1>3. PICK b \in BOOLEAN : b = FALSE
  OBVIOUS
<1>4. /\ op = "syn" => net[c].syn /\ net' = [net EXCEPT ![c].syn = FALSE]
      /\ op = "data" => net' = [net EXCEPT ![c].data = @ - 1]
      /\ op = "fin" => net' = [net EXCEPT ![c].fin = FALSE]
      /\ op \in {"ack", "rst"} => net' = net
  BY DEF TcpMsgInput
<1>5. /\ op = "data" => net' = [net EXCEPT ![c].data = n]
      /\ op = "fin" => net' = [net EXCEPT ![c].fin = b]
  BY <1>1, <1>2, <1>3, <1>4
<1> QED BY <1>1, <1>4, <1>5, NetEdits DEF SegOps

LEMMA TcpMsgInputStep ==
  ASSUME Types, Sound, NEW c \in Conns, NEW op \in SegOps, TcpMsgInput(c, op)
  PROVE  Types' /\ Sound'
<1>1. Transport \in Boxes /\ mbox \in [Boxes -> BoxRecs]
  BY BoxNames DEF Types
<1>2. PICK m : m = Msg("in", op, c, 0)
  OBVIOUS
<1>3. m \in InMsgs /\ m \in Msgs /\ m \in Items /\ m.k = "in" /\ m.op = op /\ m.c = c
  BY <1>2, SegmentFacts
<1>4. mbox' = PostOn(mbox, Transport, m) /\ UNCHANGED <<conn, tcp, sock, thr, tp, www, resets>>
  BY <1>2 DEF TcpMsgInput, Post
<1>5. /\ mbox' \in [Boxes -> BoxRecs] /\ mbox'[Transport].st = mbox[Transport].st
      /\ mbox'[Transport].q = Append(mbox[Transport].q, m)
      /\ mbox'[Transport].mail = (mbox[Transport].mail \/ mbox[Transport].q = << >>)
      /\ \A a \in Boxes \ {Transport} : mbox'[a] = mbox[a]
  BY <1>1, <1>3, <1>4, PostFacts
<1>6. /\ net' \in [Conns -> NetRecs]
      /\ \A d \in Conns : net'[d].port = net[d].port /\ (net'[d].syn => net[d].syn)
      /\ op = "syn" => net[c].syn /\ ~net'[c].syn
  BY SegmentNet
<1>7. PICK q, p, n : q = mbox[Transport].q /\ p = Append(q, m) /\ n = Len(q) + 1
  OBVIOUS
<1>8. q \in Seq(Items)
  BY <1>1, <1>7 DEF BoxRecs
<1>9. /\ \A i \in DOMAIN q : i \in DOMAIN p /\ p[i] = q[i] /\ i # n
      /\ \A i \in DOMAIN p : i \in DOMAIN q \/ i = n
      /\ n \in DOMAIN p /\ p[n] = m
  BY <1>3, <1>7, <1>8, AppendFacts
<1>10. Q = q /\ Q' = p
  BY <1>5, <1>7 DEF Q
<1>11. Types'
  BY <1>4, <1>5, <1>6 DEF Types
<1>12. TpKeep
  BY <1>4, <1>6 DEF TpKeep
<1>13. Control' /\ \A u \in Threads : \A d : CallerOf(u, d)' <=> CallerOf(u, d)
  BY <1>12, TpControl
<1>14. \A d \in Netconns : /\ mbox'[Ans(d)] = mbox[Ans(d)] /\ mbox'[Recv(d)] = mbox[Recv(d)]
                           /\ mbox'[Accept(d)] = mbox[Accept(d)]
  BY <1>5, BoxNames
<1>15. Places'
  BY <1>4, <1>12, <1>14, Names, TpPlaces
<1>16. SynOnce'
  <2> SUFFICES ASSUME NEW d \in Conns
               PROVE  /\ net'[d].syn => conn'[d].st = "none" /\ ~SynInHand(d)' /\ \A i \in DOMAIN Q' : ~SynAt(i, d)'
                      /\ SynInHand(d)' => conn'[d].st = "none" /\ \A i \in DOMAIN Q' : ~SynAt(i, d)'
                      /\ \A i \in DOMAIN Q' : SynAt(i, d)' => conn'[d].st = "none"
                      /\ \A i, j \in DOMAIN Q' : SynAt(i, d)' /\ SynAt(j, d)' => i = j
    BY DEF SynOnce
  <2>1. /\ net[d].syn => conn[d].st = "none" /\ ~SynInHand(d) /\ \A i \in DOMAIN Q : ~SynAt(i, d)
        /\ SynInHand(d) => conn[d].st = "none" /\ \A i \in DOMAIN Q : ~SynAt(i, d)
        /\ \A i \in DOMAIN Q : SynAt(i, d) => conn[d].st = "none"
        /\ \A i, j \in DOMAIN Q : SynAt(i, d) /\ SynAt(j, d) => i = j
    BY DEF Sound, SynOnce
  <2>2. \A i \in DOMAIN q : SynAt(i, d)' <=> SynAt(i, d)
    BY <1>9, <1>10 DEF SynAt
  <2>3. SynAt(n, d)' <=> op = "syn" /\ d = c
    BY <1>3, <1>9, <1>10 DEF SynAt
  <2>4. SynInHand(d)' <=> SynInHand(d)
    BY <1>4 DEF SynInHand
  <2>5. conn' = conn
    BY <1>4
  <2>6. CASE op = "syn" /\ d = c
    BY <1>6, <1>9, <1>10, <2>1, <2>2, <2>4, <2>5, <2>6
  <2>7. CASE ~(op = "syn" /\ d = c)
    <3>1. \A i \in DOMAIN p : SynAt(i, d)' => i \in DOMAIN q /\ SynAt(i, d)
      BY <1>9, <2>2, <2>3, <2>7
    <3> QED BY <1>6, <1>10, <2>1, <2>4, <2>5, <3>1
  <2> QED BY <2>6, <2>7
<1>17. \A x : ApiOK(x) => ApiOK(x)'
  <2> SUFFICES ASSUME NEW x, ApiOK(x), x.k = "api", x.op = "listen" PROVE mbox'[Accept(x.c)].st = "live"
    BY DEF ApiOK
  <2>1. x.c \in Netconns /\ mbox[Accept(x.c)].st = "live"
    BY Names DEF ApiOK
  <2> QED BY <1>14, <2>1
<1>18. Messages'
  <2>1. ApiOK(m)
    BY <1>3 DEF ApiOK
  <2>2. \A i \in DOMAIN p : p[i] \in Msgs /\ ApiOK(p[i])'
    BY <1>3, <1>9, <1>10, <1>17, <2>1 DEF Sound, Messages
  <2>3. \A i \in DOMAIN Q' : Q'[i] \in Msgs /\ ApiOK(Q[i])'
    BY <1>10, <2>2
  <2>4. tp'.pc = "run" => tp'.m \in Msgs /\ ApiOK(tp.m)'
    <3> SUFFICES ASSUME tp'.pc = "run" PROVE tp'.m \in Msgs /\ ApiOK(tp.m)'
      OBVIOUS
    <3>1. PICK x : x = tp.m
      OBVIOUS
    <3>2. x \in Msgs /\ ApiOK(x)
      BY <1>4, <3>1 DEF Sound, Messages
    <3>3. tp'.m = x /\ ApiOK(x)'
      BY <1>4, <1>17, <3>1, <3>2
    <3> QED BY <3>2, <3>3
  <2>5. \A s \in Servers : conn'[s].pcb = "listen" => mbox'[Accept(s)].st = "live"
    BY <1>4, <1>14, Names DEF Sound, Messages
  <2>6. mbox'[Transport].st = "live"
    BY <1>5 DEF Sound, Messages
  <2>7. /\ tp'.pc = "give" => /\ tp'.m \in InMsgs /\ tcp'[tp'.m.c].cb
                              /\ tp'.m.op = "fin" => tcp'[tp'.m.c].gotfin
        /\ tp'.pc \in {"err", "tell"} => tp'.m \in InMsgs /\ tp'.m.c \in resets'
    BY <1>4 DEF Sound, Messages
  <2> QED BY <2>3, <2>4, <2>5, <2>6, <2>7 DEF Messages
<1>19. Answers'
  <2> SUFFICES ASSUME NEW d \in Netconns PROVE Answered(d)'
    BY DEF Answers
  <2>1. Answered(d)
    BY DEF Sound, Answers
  <2>2. /\ \A i \in DOMAIN q : ReqAt(i, d)' <=> ReqAt(i, d)
        /\ ~ReqAt(n, d)'
    BY <1>3, <1>9, <1>10 DEF ReqAt
  <2>3. \A i \in DOMAIN Q' : ReqAt(i, d)' => i \in DOMAIN Q /\ ReqAt(i, d) /\ Q'[i] = Q[i]
    BY <1>9, <1>10, <2>2
  <2>4. Asked(d)' <=> Asked(d)
    BY <1>9, <1>10, <2>2 DEF Asked
  <2>5. (Told(d)' <=> Told(d)) /\ mbox'[Ans(d)].q = mbox[Ans(d)].q
    BY <1>14 DEF Told
  <2>6. Hand(d)' <=> Hand(d)
    BY <1>4 DEF Hand
  <2>7. \A u \in Threads : CallerOf(u, d)' => Asked(d)' \/ Hand(d)' \/ Told(d)'
    BY <1>13, <2>1, <2>4, <2>5, <2>6 DEF Answered
  <2>8. CASE d \notin resets
    <3>1. \A i, j \in DOMAIN Q' : ReqAt(i, d)' /\ ReqAt(j, d)' => i = j
      BY <2>1, <2>3, <2>8 DEF Answered
    <3>2. (Asked(d)' => ~Hand(d)' /\ ~Told(d)') /\ (Hand(d)' => ~Told(d)')
      BY <2>1, <2>4, <2>5, <2>6, <2>8 DEF Answered
    <3>3. Asked(d)' \/ Hand(d)' \/ Told(d)' => \E t \in Threads : CallerOf(t, d)'
      BY <1>13, <2>1, <2>4, <2>5, <2>6, <2>8 DEF Answered
    <3>4. ASSUME NEW u \in Threads, CallerOf(u, d)'
          PROVE  /\ \A i \in DOMAIN Q' : ReqAt(i, d)' => (Q'[i].op = "delconn" <=> thr'[u].then = "drain")
                 /\ Hand(d)' => (tp'.m.op = "delconn" <=> thr'[u].then = "drain")
                 /\ Told(d)' /\ thr'[u].then = "drain" /\ d \in Conns => ~tcp'[d].cb
      <4>1. /\ \A i \in DOMAIN Q : ReqAt(i, d) => (Q[i].op = "delconn" <=> thr[u].then = "drain")
            /\ Hand(d) => (tp.m.op = "delconn" <=> thr[u].then = "drain")
            /\ Told(d) /\ thr[u].then = "drain" /\ d \in Conns => ~tcp[d].cb
        BY <1>13, <2>1, <2>8, <3>4 DEF Answered
      <4> QED BY <1>4, <2>3, <2>5, <2>6, <4>1
    <3>5. Len(mbox'[Ans(d)].q) <= 1
      BY <2>1, <2>5, <2>8 DEF Answered
    <3> QED BY <2>7, <3>1, <3>2, <3>3, <3>4, <3>5 DEF Answered
  <2>9. CASE d \in resets
    BY <1>4, <2>7, <2>9 DEF Answered
  <2> QED BY <2>8, <2>9
<1>20. Callbacks'
  BY <1>4, <1>12, TpCallbacks
<1>21. Reading'
  <2>1. \A d \in Conns : ReadOK(d)'
    BY <1>4, <1>14, Names DEF Sound, Reading, ReadOK
  <2> QED BY <1>4, <1>12, <2>1, TpReading
<1>22. Writers'
  BY <1>4, <1>12, TpWriters
<1>23. Mail'
  <2>1. ASSUME NEW b \in Boxes PROVE MailKeeps(b)
    BY <1>5 DEF MailKeeps
  <2> QED BY <1>4, <1>12, <2>1, TpMail
<1> QED BY <1>11, <1>13, <1>15, <1>16, <1>18, <1>19, <1>20, <1>21, <1>22, <1>23 DEF Sound

(* api_msg_input: a handler answers. *)
LEMMA Asker ==
  ASSUME Types, Sound, NEW c \in Netconns, Hand(c), c \notin resets
  PROVE  \E t \in Threads : /\ CallerOf(t, c) /\ Mine(t) = c
                            /\ tp.m.op = "delconn" <=> thr[t].then = "drain"
<1>1. Answered(c)
  BY DEF Sound, Answers
<1>2. PICK t \in Threads : CallerOf(t, c)
  BY <1>1 DEF Answered
<1>3. tp.m.op = "delconn" <=> thr[t].then = "drain"
  BY <1>1, <1>2 DEF Answered
<1>4. Mine(t) = c
  BY <1>2, CallersMine
<1> QED BY <1>2, <1>3, <1>4

LEMMA ApiAnswered ==
  ASSUME Types, Sound, NEW c \in Netconns, Hand(c), NEW a \in Items,
         tp' = Rest, mbox' = PostOn(mbox, Ans(c), a), UNCHANGED <<sock, thr, www, net, resets>>,
         conn' \in [Netconns -> ConnRecs], \A d \in Netconns : d # c => conn'[d] = conn[d],
         conn'[c].st = conn[c].st, conn'[c].sem = conn[c].sem, conn'[c].state = conn[c].state,
         c \in Conns => conn'[c].pcb = conn[c].pcb,
         c \in Servers /\ conn'[c].pcb = "listen" => mbox[Accept(c)].st = "live",
         tcp' \in [Conns -> TcpRecs],
         \A d \in Conns : /\ tcp'[d].gotfin = tcp[d].gotfin
                          /\ tcp'[d].cb => tcp[d].cb
                          /\ d # c \/ tp.m.op # "delconn" => tcp'[d].cb = tcp[d].cb
                          /\ d = c /\ tp.m.op = "delconn" => ~tcp'[d].cb
  PROVE  Types' /\ Sound'
<1>1. Ans(c) \in Boxes /\ mbox \in [Boxes -> BoxRecs] /\ Ans(c) # Transport
  BY BoxNames DEF Types
<1>2. PICK b : b = Ans(c)
  OBVIOUS
<1>3. b \in Boxes /\ b # Transport /\ mbox' = PostOn(mbox, b, a)
  BY <1>1, <1>2
<1>4. /\ mbox' \in [Boxes -> BoxRecs] /\ mbox'[b].st = mbox[b].st
      /\ mbox'[b].q = Append(mbox[b].q, a)
      /\ mbox'[b].mail = (mbox[b].mail \/ mbox[b].q = << >>)
      /\ \A x \in Boxes \ {b} : mbox'[x] = mbox[x]
  BY <1>1, <1>3, PostFacts
<1>5. Types'
  BY <1>4, RestFacts DEF Types
<1>6. TpKeep
  <2>1. \A s \in Servers : s \in Netconns
    BY Names
  <2> QED BY <2>1 DEF TpKeep
<1>7. Control' /\ \A u \in Threads : \A d : CallerOf(u, d)' <=> CallerOf(u, d)
  BY <1>6, TpControl
<1>8. \A d \in Netconns : /\ mbox'[Recv(d)] = mbox[Recv(d)] /\ mbox'[Accept(d)] = mbox[Accept(d)]
                          /\ d # c => mbox'[Ans(d)] = mbox[Ans(d)]
  <2> SUFFICES ASSUME NEW d \in Netconns
               PROVE  /\ mbox'[Recv(d)] = mbox[Recv(d)] /\ mbox'[Accept(d)] = mbox[Accept(d)]
                      /\ d # c => mbox'[Ans(d)] = mbox[Ans(d)]
    OBVIOUS
  <2>1. Recv(d) \in Boxes /\ Accept(d) \in Boxes /\ Ans(d) \in Boxes
    BY BoxNames
  <2>2. Recv(d) # Ans(c) /\ Accept(d) # Ans(c) /\ (d # c => Ans(d) # Ans(c))
    BY DEF Ans, Recv, Accept
  <2> QED BY <1>2, <1>4, <2>1, <2>2
<1>9. mbox'[Transport] = mbox[Transport] /\ Q' = Q
  BY <1>3, <1>4, BoxNames DEF Q
<1>10. /\ TpOK' /\ tp'.pc # "asleep" /\ \A d : ~Hand(d)' /\ ~SynInHand(d)'
  BY TpResting
<1>11. /\ tp.pc = "run" /\ tp.m.k = "api" /\ tp.m.c = c
       /\ \A d : (Hand(d) => d = c) /\ ~SynInHand(d)
  BY DEF Hand, SynInHand
<1>12. Places'
  <2>1. \A d \in Netconns : conn'[d].st = conn[d].st /\ mbox'[Ans(d)].st = mbox[Ans(d)].st
    BY <1>2, <1>4, <1>8
  <2>2. \A s \in Servers : mbox'[Accept(s)].q = mbox[Accept(s)].q
    BY <1>8, Names
  <2> QED BY <1>6, <2>1, <2>2, TpPlaces
<1>13. SynOnce'
  <2>1. \A d \in Conns : conn'[d].st = conn[d].st
    BY Names
  <2> QED BY <1>9, <1>10, <2>1, TpSyn
<1>14. Messages'
  <2>1. ASSUME NEW s \in Servers
        PROVE  /\ mbox[Accept(s)].st = "live" => mbox'[Accept(s)].st = "live"
               /\ conn'[s].pcb = "listen" => mbox'[Accept(s)].st = "live"
    <3>1. mbox'[Accept(s)] = mbox[Accept(s)] /\ s \in Netconns
      BY <1>8, Names
    <3>2. CASE s = c
      BY <3>1, <3>2
    <3>3. CASE s # c
      <4>1. conn'[s] = conn[s]
        BY <3>1, <3>3
      <4> QED BY <3>1, <4>1 DEF Sound, Messages
    <3> QED BY <3>2, <3>3
  <2> QED BY <1>9, <1>10, <2>1, TpMessages
<1>15. Told(c)'
  <2>1. mbox[b].q \in Seq(Items)
    BY <1>1, <1>3 DEF BoxRecs
  <2>2. Append(mbox[b].q, a) # << >>
    BY <2>1, AppendFacts
  <2> QED BY <1>2, <1>4, <2>2 DEF Told
<1>16. Answers'
  <2> SUFFICES ASSUME NEW d \in Netconns PROVE Answered(d)'
    BY DEF Answers
  <2>1. Answered(d)
    BY DEF Sound, Answers
  <2>2. \A i : ReqAt(i, d)' <=> ReqAt(i, d)
    BY <1>9 DEF ReqAt
  <2>3. Asked(d)' <=> Asked(d)
    BY <1>9, <2>2 DEF Asked
  <2>4. ~Hand(d)'
    BY <1>10
  <2>5. CASE d # c
    <3>1. (Told(d)' <=> Told(d)) /\ mbox'[Ans(d)].q = mbox[Ans(d)].q /\ ~Hand(d)
      BY <1>8, <1>11, <2>5 DEF Told
    <3>2. \A u \in Threads : CallerOf(u, d)' => Asked(d)' \/ Hand(d)' \/ Told(d)'
      BY <1>7, <2>1, <2>3, <3>1 DEF Answered
    <3>3. d \in Conns => tcp'[d].cb = tcp[d].cb
      BY <2>5
    <3>4. CASE d \notin resets
      <4>1. /\ \A i, j \in DOMAIN Q' : ReqAt(i, d)' /\ ReqAt(j, d)' => i = j
            /\ Len(mbox'[Ans(d)].q) <= 1 /\ (Asked(d)' => ~Told(d)')
            /\ Asked(d)' \/ Told(d)' => \E t \in Threads : CallerOf(t, d)'
        BY <1>7, <1>9, <2>1, <2>2, <2>3, <3>1, <3>4 DEF Answered
      <4>2. ASSUME NEW u \in Threads, CallerOf(u, d)'
            PROVE  /\ \A i \in DOMAIN Q' : ReqAt(i, d)' => (Q'[i].op = "delconn" <=> thr'[u].then = "drain")
                   /\ Told(d)' /\ thr'[u].then = "drain" /\ d \in Conns => ~tcp'[d].cb
        BY <1>7, <1>9, <2>1, <2>2, <3>1, <3>3, <3>4, <4>2 DEF Answered
      <4> QED BY <2>4, <3>2, <4>1, <4>2 DEF Answered
    <3> QED BY <3>2, <3>4 DEF Answered
  <2>6. CASE d = c
    <3>1. CASE d \notin resets
      <4>1. PICK t \in Threads : CallerOf(t, d)
        BY <2>6, <3>1, Asker
      <4>2. ~Asked(d) /\ ~Told(d)
        BY <2>1, <2>6, <3>1 DEF Answered
      <4>3. Len(mbox'[Ans(d)].q) <= 1
        <5>1. mbox[b].q = << >>
          BY <1>2, <2>6, <4>2 DEF Told
        <5>2. mbox'[Ans(d)].q = Append(<< >>, a)
          BY <1>2, <1>4, <2>6, <5>1
        <5>3. << >> \in Seq(Items) /\ Len(<< >>) = 0
          BY NoItems
        <5>4. Len(Append(<< >>, a)) = Len(<< >>) + 1
          BY <5>3, AppendFacts
        <5>5. Len(Append(<< >>, a)) = 1
          BY <5>3, <5>4
        <5> QED BY <5>2, <5>5
      <4>4. \A i \in DOMAIN Q' : ~ReqAt(i, d)'
        BY <2>3, <4>2 DEF Asked
      <4>5. ASSUME NEW u \in Threads, CallerOf(u, d)', thr'[u].then = "drain", d \in Conns
            PROVE  ~tcp'[d].cb
        <5>1. CallerOf(u, d) /\ thr[u].then = "drain"
          BY <1>7, <4>5
        <5>2. tp.m.op = "delconn"
          BY <2>1, <2>6, <3>1, <5>1 DEF Answered
        <5> QED BY <2>6, <4>5, <5>2
      <4>6. CallerOf(t, d)'
        BY <1>7, <4>1
      <4>7. ~Asked(d)'
        BY <2>3, <4>2
      <4> QED BY <1>15, <2>4, <2>6, <4>3, <4>4, <4>5, <4>6, <4>7 DEF Answered
    <3>2. CASE d \in resets
      BY <1>15, <2>6, <3>2 DEF Answered
    <3> QED BY <3>1, <3>2
  <2> QED BY <2>5, <2>6
<1>17. \A u \in Threads : Mine(u)' = Mine(u) /\ Deleting(u)' = Deleting(u) /\ thr'[u] = thr[u]
  <2>1. \A u \in Threads : SameView(u)
    BY <1>6, TpControl
  <2> QED BY <2>1 DEF SameView
<1>18. ASSUME c \in Conns, tcp[c].cb, tp.m.op = "delconn"
       PROVE  \E t \in Threads : Mine(t) = c /\ Deleting(t) /\ ~Writing(t)
  <2>1. c \notin resets
    BY <1>18 DEF Sound, Callbacks
  <2>2. PICK t \in Threads : CallerOf(t, c) /\ Mine(t) = c /\ thr[t].then = "drain"
    BY <1>18, <2>1, Asker
  <2>3. Fetching(t)
    BY <2>2 DEF CallerOf, Caller
  <2> QED BY <2>2, <2>3 DEF Deleting, Writing, Fetching
<1>19. Callbacks'
  <2> SUFFICES ASSUME NEW d \in Conns
               PROVE  /\ tcp'[d].cb => conn'[d].st = "live"
                      /\ conn'[d].st = "none" => d \notin resets'
                      /\ d \in resets' => ~tcp'[d].cb /\ conn'[d].pcb = "null"
                      /\ conn'[d].st = "live" /\ d \notin resets' =>
                           /\ conn'[d].pcb = "open"
                           /\ tcp'[d].cb \/ \E t \in Threads : Mine(t)' = d /\ Deleting(t)'
                      /\ \A t \in Threads : thr'[t].pc \in {"drain", "free"} /\ thr'[t].c = d => ~tcp'[d].cb
    BY DEF Callbacks
  <2>1. conn'[d].st = conn[d].st /\ conn'[d].pcb = conn[d].pcb
    BY Names
  <2>2. /\ tcp[d].cb => conn[d].st = "live"
        /\ conn[d].st = "none" => d \notin resets
        /\ d \in resets => ~tcp[d].cb /\ conn[d].pcb = "null"
        /\ conn[d].st = "live" /\ d \notin resets =>
             /\ conn[d].pcb = "open"
             /\ tcp[d].cb \/ \E t \in Threads : Mine(t) = d /\ Deleting(t)
        /\ \A t \in Threads : thr[t].pc \in {"drain", "free"} /\ thr[t].c = d => ~tcp[d].cb
    BY DEF Sound, Callbacks
  <2>3. tcp[d].cb => tcp'[d].cb \/ \E t \in Threads : Mine(t) = d /\ Deleting(t)
    BY <1>18
  <2> QED BY <1>17, <2>1, <2>2, <2>3
<1>20. Reading'
  <2>1. \A d \in Conns : ReadOK(d)'
    BY <1>8, Names DEF Sound, Reading, ReadOK
  <2> QED BY <1>6, <2>1, TpReading
<1>21. Writers'
  <2>1. ASSUME NEW d \in Conns, tcp[d].cb, ~tcp'[d].cb, NEW u \in Threads, Mine(u) = d PROVE ~Writing(u)
    <3>1. d = c /\ tp.m.op = "delconn"
      BY <2>1
    <3>2. PICK t \in Threads : Mine(t) = d /\ ~Writing(t)
      BY <1>18, <2>1, <3>1
    <3>3. t = u
      BY <2>1, <3>2, Names DEF Sound, Places, Exclusive
    <3> QED BY <3>2, <3>3
  <2>2. \A d \in Conns : conn'[d].state = conn[d].state /\ conn'[d].sem = conn[d].sem
    BY Names
  <2>3. tp.pc \notin {"err", "tell"}
    BY <1>11
  <2> QED BY <1>6, <2>1, <2>2, <2>3, TpWriters
<1>22. Mail'
  <2>1. ASSUME NEW x \in Boxes PROVE MailKeeps(x)
    BY <1>4 DEF MailKeeps
  <2> QED BY <1>6, <1>10, <2>1, TpMail
<1> QED BY <1>5, <1>7, <1>12, <1>13, <1>14, <1>16, <1>19, <1>20, <1>21, <1>22 DEF Sound

(* A netconn with a request in hand whose connection was not reset has its control block. *)
LEMMA AskedOpen ==
  ASSUME Types, Sound, NEW c \in Conns, Hand(c), c \notin resets
  PROVE  conn[c].st = "live" /\ conn[c].pcb = "open"
<1>1. c \in Netconns /\ c # NoConn
  BY Names
<1>2. PICK t \in Threads : Mine(t) = c
  BY <1>1, Asker
<1>3. conn[c].st = "live"
  BY <1>1, <1>2 DEF Sound, Places, Alive
<1> QED BY <1>3 DEF Sound, Callbacks

LEMMA ApiMsgInputStep ==
  ASSUME Types, Sound, ApiMsgInput, fault' = "none"
  PROVE  Types' /\ Sound'
<1>1. PICK m, c : m = tp.m /\ c = tp.m.c
  OBVIOUS
<1>2. /\ tp.pc = "run" /\ m.k = "api" /\ tp' = Rest /\ UNCHANGED <<sock, thr, www, net, resets>>
      /\ DoBind(m) \/ DoListen(m) \/ DoRecv(m) \/ DoWrite(m) \/ DoDelconn(m)
  BY <1>1 DEF ApiMsgInput
<1>3. m \in ApiMsgs /\ ApiOK(m)
  <2>1. m \in Msgs /\ ApiOK(m)
    BY <1>1, <1>2 DEF Sound, Messages
  <2> QED BY <1>2, <2>1 DEF Msgs, InMsgs
<1>4. c \in Netconns /\ Hand(c) /\ m.c = c
  BY <1>1, <1>2, <1>3 DEF ApiMsgs, Hand
<1>5. /\ tcp \in [Conns -> TcpRecs] /\ conn \in [Netconns -> ConnRecs]
      /\ "null" \in Items /\ "refused" \in Items
      /\ \A e \in {"ok", "mem", "use"} : e \in Errs
      /\ \A p \in {"open", "null", "listen"} : p \in Pcbs
  BY ItemValues DEF Types, Errs, Pcbs
<1>6. CASE DoBind(m)
  <2>1. PICK e \in Errs : conn' = [conn EXCEPT ![c].pcb = "open", ![c].err = e]
    BY <1>4, <1>5, <1>6 DEF DoBind, TcpBind
  <2>2. /\ mbox' = PostOn(mbox, Ans(c), "null") /\ tcp' = tcp /\ m.op = "bind"
    BY <1>4, <1>6 DEF DoBind, Answer, Post
  <2>3. PICK p \in Pcbs : p = "open"
    BY <1>5
  <2>4. ConnEdited(conn, conn', c, e, p, conn[c].sem, conn[c].state)
    BY <1>4, <1>5, <2>1, <2>3, ConnPcbErr
  <2>5. /\ conn' \in [Netconns -> ConnRecs] /\ \A d \in Netconns : d # c => conn'[d] = conn[d]
        /\ conn'[c].st = conn[c].st /\ conn'[c].sem = conn[c].sem /\ conn'[c].state = conn[c].state
        /\ conn'[c].pcb = "open"
    BY <2>3, <2>4 DEF ConnEdited
  <2>6. c \in Servers /\ c \notin Conns
    BY <1>2, <1>3, <1>4, <2>2, Names DEF ApiOK
  <2>7. m.op # "delconn" /\ tp.m.op # "delconn" /\ conn'[c].pcb # "listen"
    BY <1>1, <2>2, <2>5
  <2> QED BY <1>2, <1>4, <1>5, <2>2, <2>5, <2>6, <2>7, ApiAnswered
<1>7. CASE DoListen(m)
  <2>1. PICK p \in TcpListen :
           conn' = [conn EXCEPT ![c].pcb = p, ![c].err = IF p = "null" THEN "mem" ELSE @]
    BY <1>4, <1>7 DEF DoListen
  <2>2. /\ mbox' = PostOn(mbox, Ans(c), "null") /\ tcp' = tcp /\ m.op = "listen"
    BY <1>4, <1>7 DEF DoListen, Answer, Post
  <2>3. PICK e : e = IF p = "null" THEN "mem" ELSE conn[c].err
    OBVIOUS
  <2>4. e \in Errs /\ p \in Pcbs
    <3>1. conn[c].err \in Errs
      BY <1>4, <1>5 DEF ConnRecs, Errs
    <3> QED BY <1>5, <2>3, <3>1 DEF TcpListen
  <2>5. conn' = [conn EXCEPT ![c].pcb = p, ![c].err = e]
    <3>1. conn' = [conn EXCEPT ![c].pcb = p, ![c].err = IF p = "null" THEN "mem" ELSE conn[c].err]
      BY <1>4, <1>5, <2>1 DEF ConnRecs
    <3> QED BY <2>3, <3>1
  <2>6. ConnEdited(conn, conn', c, e, p, conn[c].sem, conn[c].state)
    BY <1>4, <1>5, <2>4, <2>5, ConnPcbErr
  <2>7. /\ conn' \in [Netconns -> ConnRecs] /\ \A d \in Netconns : d # c => conn'[d] = conn[d]
        /\ conn'[c].st = conn[c].st /\ conn'[c].sem = conn[c].sem /\ conn'[c].state = conn[c].state
    BY <2>6 DEF ConnEdited
  <2>8. c \in Servers /\ c \notin Conns /\ mbox[Accept(c)].st = "live"
    BY <1>2, <1>3, <1>4, <2>2, Names DEF ApiOK
  <2>9. tp.m.op # "delconn"
    BY <1>1, <2>2
  <2> QED BY <1>2, <1>4, <1>5, <2>2, <2>7, <2>8, <2>9, ApiAnswered
<1>8. ASSUME c \in Conns, conn' = conn, tcp' = tcp, tp.m.op # "delconn", NEW a \in Items,
             mbox' = PostOn(mbox, Ans(c), a)
      PROVE  Types' /\ Sound'
  <2>1. c \notin Servers
    BY <1>8, Names
  <2> QED BY <1>2, <1>4, <1>5, <1>8, <2>1, ApiAnswered
<1>9. CASE DoRecv(m)
  <2>1. /\ mbox' = PostOn(mbox, Ans(c), "null") /\ tcp' = tcp /\ conn' = conn /\ m.op = "recv"
    BY <1>4, <1>9 DEF DoRecv, Answer, Post
  <2>2. c \in Conns
    BY <1>2, <1>3, <1>4, <2>1 DEF ApiOK
  <2>3. tp.m.op # "delconn"
    BY <1>1, <2>1
  <2> QED BY <1>5, <1>8, <2>1, <2>2, <2>3
<1>10. CASE DoWrite(m)
  <2>1. m.op = "write" /\ tp.m.op # "delconn"
    BY <1>1, <1>10 DEF DoWrite
  <2>2. c \in Conns /\ c \notin Servers
    BY <1>2, <1>3, <1>4, <2>1, Names DEF ApiOK
  <2>3. CASE conn[c].pcb = "null"
    <3>1. /\ mbox' = PostOn(mbox, Ans(c), "null") /\ tcp' = tcp /\ conn' = conn
      BY <1>4, <1>10, <2>3 DEF DoWrite, Answer, Post
    <3> QED BY <1>5, <1>8, <2>1, <2>2, <3>1
  <2>4. CASE conn[c].pcb # "null"
    <3>1. PICK e \in Errs, a \in Items : /\ conn' = [conn EXCEPT ![c].err = e]
                                         /\ mbox' = PostOn(mbox, Ans(c), a)
      BY <1>4, <1>5, <1>10, <2>4 DEF DoWrite, Answer, Post
    <3>2. tcp' = tcp \/ tcp' = [tcp EXCEPT ![c].room = @ - m.len]
      BY <1>4, <1>10, <2>4 DEF DoWrite
    <3>3. ConnEdited(conn, conn', c, e, conn[c].pcb, conn[c].sem, conn[c].state)
      BY <1>4, <1>5, <3>1, ConnErr
    <3>4. /\ conn' \in [Netconns -> ConnRecs] /\ \A d \in Netconns : d # c => conn'[d] = conn[d]
          /\ conn'[c].st = conn[c].st /\ conn'[c].sem = conn[c].sem /\ conn'[c].state = conn[c].state
          /\ conn'[c].pcb = conn[c].pcb
      BY <3>3 DEF ConnEdited
    <3>5. /\ tcp' \in [Conns -> TcpRecs]
          /\ \A d \in Conns : tcp'[d].cb = tcp[d].cb /\ tcp'[d].gotfin = tcp[d].gotfin
      <4>1. CASE tcp' = tcp
        BY <1>5, <4>1
      <4>2. CASE tcp' = [tcp EXCEPT ![c].room = @ - m.len]
        <5>1. m.len \in Int /\ tcp[c].room \in Int
          BY <1>3, <1>5, <2>2 DEF ApiMsgs, TcpRecs
        <5>2. PICK r \in Int : r = tcp[c].room - m.len
          BY <5>1
        <5>3. tcp' = [tcp EXCEPT ![c].room = r]
          BY <4>2, <5>2
        <5>4. TcpEdited(tcp, tcp', c, tcp[c].cb, tcp[c].gotfin)
          BY <1>5, <2>2, <5>3 DEF TcpRecs, TcpEdited
        <5> QED BY <5>4 DEF TcpEdited
      <4> QED BY <3>2, <4>1, <4>2
    <3> QED BY <1>2, <1>4, <2>1, <2>2, <3>1, <3>4, <3>5, ApiAnswered
  <2> QED BY <2>3, <2>4
<1>11. CASE DoDelconn(m)
  <2>1. /\ mbox' = PostOn(mbox, Ans(c), "null") /\ conn' = conn /\ tp.m.op = "delconn"
        /\ tcp' = IF conn[c].pcb = "null" THEN tcp ELSE [tcp EXCEPT ![c].cb = FALSE]
    BY <1>1, <1>4, <1>11 DEF DoDelconn, Answer, Post
  <2>2. c \in Servers /\ conn'[c].pcb = "listen" => mbox[Accept(c)].st = "live"
    BY <2>1 DEF Sound, Messages
  <2>3. CASE c \notin Conns
    <3>1. tcp' = tcp
      BY <1>5, <2>1, <2>3
    <3> QED BY <1>2, <1>4, <1>5, <2>1, <2>2, <2>3, <3>1, ApiAnswered
  <2>4. CASE c \in Conns /\ conn[c].pcb = "null"
    <3>1. tcp' = tcp /\ ~tcp[c].cb
      BY <1>4, <2>1, <2>4, AskedOpen DEF Sound, Callbacks
    <3> QED BY <1>2, <1>4, <1>5, <2>1, <2>2, <2>4, <3>1, ApiAnswered
  <2>5. CASE c \in Conns /\ conn[c].pcb # "null"
    <3>1. PICK b \in BOOLEAN : b = FALSE
      OBVIOUS
    <3>2. tcp' = [tcp EXCEPT ![c].cb = b]
      BY <2>1, <2>5, <3>1
    <3>3. TcpEdited(tcp, tcp', c, b, tcp[c].gotfin)
      BY <1>5, <2>5, <3>2 DEF TcpRecs, TcpEdited
    <3>4. /\ tcp' \in [Conns -> TcpRecs] /\ ~tcp'[c].cb
          /\ \A d \in Conns : tcp'[d].gotfin = tcp[d].gotfin /\ (d # c => tcp'[d] = tcp[d])
      BY <3>1, <3>3 DEF TcpEdited
    <3> QED BY <1>2, <1>4, <1>5, <2>1, <2>2, <2>5, <3>4, ApiAnswered
  <2> QED BY <2>3, <2>4, <2>5
<1> QED BY <1>2, <1>6, <1>7, <1>9, <1>10, <1>11

-----------------------------------------------------------------------------
(* The first undefined behaviour: who can meet it, and what it needs. *)

Grave == {"NULL pcb", "freed netconn", "freed mailbox"}

LEMMA Harmless ==
  ASSUME fault' \notin Grave
  PROVE  FaultsNeedTheEnd'
  BY DEF FaultsNeedTheEnd, Grave

LEMMA PostFaults ==
  ASSUME NEW mb, NEW b
  PROVE  /\ PostFault(mb, b) \in {"freed mailbox", "mailbox wraps", "none"}
         /\ mb[b].st = "live" => PostFault(mb, b) \notin Grave
  BY DEF PostFault, Grave

LEMMA TransportLives ==
  ASSUME Sound
  PROVE  PostFault(mbox, Transport) \notin Grave
  BY PostFaults DEF Sound, Messages

LEMMA CallFault ==
  ASSUME Sound, NEW t, NEW op, NEW c, NEW l, NEW h, Call(t, op, c, l, h)
  PROVE  fault' \notin Grave
  BY TransportLives DEF Call, Post, Grave

(* A connection that some thread works on has its control block until it is reset. *)
LEMMA MineOpen ==
  ASSUME Types, Sound, NEW t \in Threads, Mine(t) \in Conns, Mine(t) \notin resets
  PROVE  conn[Mine(t)].pcb = "open"
<1>1. Mine(t) # NoConn
  BY Names
<1> QED BY <1>1 DEF Sound, Places, Alive, Callbacks

LEMMA NullPcb ==
  ASSUME Types, Sound, NEW t \in Threads, Mine(t) \in Conns, conn[Mine(t)].pcb = "null", resets' = resets,
         fault' = "NULL pcb"
  PROVE  FaultsNeedTheEnd'
<1>1. resets # {}
  BY MineOpen
<1> QED BY <1>1 DEF FaultsNeedTheEnd

LEMMA ServerFaults ==
  ASSUME fault = "none", Types, Sound, NEW s \in Servers, ServerStep(s)
  PROVE  FaultsNeedTheEnd'
<1>1. CASE LwipSocket(s) \/ Bound(s) \/ NetconnAccept(s)
  <2>1. fault' = "none"
    BY <1>1 DEF LwipSocket, Bound, NetconnAccept
  <2> QED BY <2>1, Harmless DEF Grave
<1>2. CASE NetconnBind(s)
  <2>1. CASE thr[s].fd = NoFd
    <3>1. fault' = "descriptor -1"
      BY <1>2, <2>1 DEF NetconnBind, FdFault
    <3> QED BY <3>1, Harmless DEF Grave
  <2>2. CASE thr[s].fd # NoFd
    <3>1. Call(s, "bind", s, 0, "bound")
      BY <1>2, <2>2 DEF NetconnBind
    <3> QED BY <3>1, CallFault, Harmless
  <2> QED BY <2>1, <2>2
<1>3. CASE NetconnListen(s)
  <2>1. PICK mb : mb = [mbox EXCEPT ![Accept(s)] = NewBox]
    OBVIOUS
  <2>2. fault' = PostFault(mb, Transport) \/ fault' = "request lost"
    BY <1>3, <2>1 DEF NetconnListen
  <2>3. mb[Transport] = mbox[Transport]
    <3>1. Accept(s) # Transport /\ Transport \in Boxes
      BY BoxNames, Names
    <3> QED BY <2>1, <3>1 DEF Types
  <2>4. mb[Transport].st = "live"
    BY <2>3 DEF Sound, Messages
  <2>5. fault' \notin Grave
    BY <2>2, <2>4, PostFaults DEF Grave
  <2> QED BY <2>5, Harmless
<1>4. CASE NetconnPeer(s)
  <2>1. PICK c : c = thr[s].got
    OBVIOUS
  <2>2. /\ thr[s].pc = "peer" /\ resets' = resets
        /\ fault' = IF conn[c].pcb = "null" THEN "NULL pcb" ELSE "none"
    BY <1>4, <2>1 DEF NetconnPeer
  <2>3. s \in Threads /\ Mine(s) = c /\ c \in Conns
    BY <2>1, <2>2, Names DEF Mine, Sound, Control, ServerCtl
  <2>4. CASE conn[c].pcb = "null"
    BY <2>2, <2>3, <2>4, NullPcb
  <2>5. CASE conn[c].pcb # "null"
    BY <2>2, <2>5, Harmless DEF Grave
  <2> QED BY <2>4, <2>5
<1> QED BY <1>1, <1>2, <1>3, <1>4 DEF ServerStep

LEMMA ThreadFaults ==
  ASSUME fault = "none", Types, Sound, NEW t \in Threads, ThreadStep(t)
  PROVE  FaultsNeedTheEnd'
<1>1. ASSUME fault' = fault PROVE FaultsNeedTheEnd'
  BY SMTT(40), <1>1, Harmless DEF Grave
<1>2. CASE \/ FetchTest(t) \/ FetchWake(t) \/ AllocFind(t) \/ RecvLast(t) \/ RecvDone(t)
           \/ NetconnWrite(t) \/ SemWait(t, "full", "woken") \/ WriteWoken(t) \/ WriteClear(t)
           \/ SemWait(t, "nomem", "loop") \/ LwipClose(t) \/ DeleteDrain(t) \/ DeleteFree(t)
  BY <1>1, <1>2 DEF FetchTest, FetchWake, AllocFind, RecvLast, RecvDone, NetconnWrite, SemWait,
                    WriteWoken, WriteClear, LwipClose, DeleteDrain, DeleteFree
<1>3. CASE AllocTake(t) \/ WriteAnswered(t)
  <2>1. fault' \in {"none", "socket taken twice", "refused data skipped"}
    BY <1>3 DEF AllocTake, WriteAnswered
  <2> QED BY <2>1, Harmless DEF Grave
<1>4. ASSUME thr[t].pc \in {"recv", "loop", "chunk"}
      PROVE  /\ Mine(t) \in Conns /\ Mine(t) = sock[thr[t].fd].conn
             /\ thr[t].pc # "recv" => thr[t].c = Mine(t)
  <2>1. thr[t].pc \in OnlyWorkers
    BY <1>4 DEF OnlyWorkers
  <2> QED BY <1>4, <2>1, WorkerAt
<1>5. CASE NetconnRecv(t)
  <2>1. PICK c : c = sock[thr[t].fd].conn
    BY SMTT(40)
  <2>2. /\ thr[t].pc = "recv" /\ resets' = resets
        /\ \/ fault' = fault
           \/ fault' = IF conn[c].pcb = "null" THEN "NULL pcb" ELSE "none"
    BY <1>5, <2>1 DEF NetconnRecv
  <2>3. Mine(t) = c /\ c \in Conns
    BY <1>4, <2>1, <2>2
  <2>4. CASE conn[c].pcb = "null"
    BY <1>1, <2>2, <2>3, <2>4, NullPcb
  <2>5. CASE conn[c].pcb # "null"
    BY <1>1, <2>2, <2>5
  <2> QED BY <2>4, <2>5
<1>6. CASE RecvTaken(t)
  <2>1. fault' = fault \/ Call(t, "recv", thr[t].c, 0, "received")
    BY <1>6 DEF RecvTaken
  <2> QED BY <1>1, <2>1, CallFault, Harmless
<1>7. CASE WriteLoop(t)
  <2>1. PICK c : c = thr[t].c
    OBVIOUS
  <2>2. /\ thr[t].pc = "loop" /\ resets' = resets
        /\ fault' = fault \/ (conn[c].pcb = "null" /\ fault' = "NULL pcb")
    BY <1>7, <2>1 DEF WriteLoop
  <2>3. Mine(t) = c /\ c \in Conns
    BY <1>4, <2>1, <2>2
  <2> QED BY <1>1, <2>2, <2>3, NullPcb
<1>8. CASE WriteChunk(t)
  <2>1. PICK c : c = thr[t].c
    OBVIOUS
  <2>2. /\ thr[t].pc = "chunk" /\ resets' = resets
        /\ \/ conn[c].pcb = "null" /\ fault' = "NULL pcb"
           \/ fault' = PostFault(mbox, Transport)
           \/ fault' = "request lost"
    BY <1>8, <2>1 DEF WriteChunk, Post
  <2>3. Mine(t) = c /\ c \in Conns
    BY <1>4, <2>1, <2>2
  <2>4. CASE conn[c].pcb = "null" /\ fault' = "NULL pcb"
    BY <2>2, <2>3, <2>4, NullPcb
  <2>5. CASE fault' = PostFault(mbox, Transport) \/ fault' = "request lost"
    <3>1. fault' \notin Grave
      BY <2>5, TransportLives DEF Grave
    <3> QED BY <3>1, Harmless
  <2> QED BY <2>2, <2>4, <2>5
<1>9. CASE NetconnDelete(t)
  BY <1>9, CallFault, Harmless DEF NetconnDelete
<1> QED BY <1>2, <1>3, <1>5, <1>6, <1>7, <1>8, <1>9 DEF ThreadStep

LEMMA HandOverFaults ==
  ASSUME fault = "none", Types, Sound, SpawnCli \/ QueueWww \/ \E p \in Pool : ServeNext(p)
  PROVE  FaultsNeedTheEnd'
<1>1. fault' \in {"none", "descriptor -1"}
  BY DEF SpawnCli, QueueWww, ServeNext, FdFault
<1> QED BY <1>1, Harmless DEF Grave

LEMMA SegmentFaults ==
  ASSUME fault = "none", Types, Sound, NEW c, NEW op, TcpMsgInput(c, op)
  PROVE  FaultsNeedTheEnd'
<1>1. fault' = PostFault(mbox, Transport)
  BY DEF TcpMsgInput, Post
<1> QED BY <1>1, TransportLives, Harmless

LEMMA CalledAlive ==
  ASSUME Sound, NEW c \in Conns, tcp[c].cb
  PROVE  conn[c].st # "freed"
  BY DEF Sound, Callbacks

LEMMA ApiFaults ==
  ASSUME fault = "none", Types, Sound, ApiMsgInput
  PROVE  FaultsNeedTheEnd'
<1>1. PICK m, c : m = tp.m /\ c = tp.m.c
  OBVIOUS
<1>2. /\ tp.pc = "run" /\ m.k = "api" /\ resets' = resets
      /\ \/ conn[c].st = "freed" /\ fault' = "freed netconn"
         \/ fault' = PostFault(mbox, Ans(c))
  <2>1. m.c = c
    BY <1>1
  <2> QED BY <1>1, <2>1 DEF ApiMsgInput, DoBind, DoListen, DoRecv, DoWrite, DoDelconn, Answer, Post
<1>3. c \in Netconns /\ Hand(c)
  <2>1. m \in Msgs
    BY <1>1, <1>2 DEF Sound, Messages
  <2>2. m \in ApiMsgs
    BY <1>2, <2>1 DEF Msgs, InMsgs
  <2> QED BY <1>1, <1>2, <2>2 DEF ApiMsgs, Hand
<1>4. c \notin resets => conn[c].st = "live" /\ mbox[Ans(c)].st = "live"
  <2> SUFFICES ASSUME c \notin resets PROVE conn[c].st = "live" /\ mbox[Ans(c)].st = "live"
    OBVIOUS
  <2>1. PICK t \in Threads : Mine(t) = c
    BY <1>3, Asker
  <2>2. c # NoConn
    BY <1>3, Names
  <2> QED BY <1>3, <2>1, <2>2 DEF Sound, Places, Alive
<1>5. CASE c \notin resets
  <2>1. fault' \notin Grave
    BY <1>2, <1>4, <1>5, PostFaults
  <2> QED BY <2>1, Harmless
<1>6. CASE c \in resets
  <2>1. c \in Conns
    BY <1>6 DEF Types
  <2> QED BY <1>2, <1>6, <2>1 DEF FaultsNeedTheEnd
<1> QED BY <1>5, <1>6

LEMMA InputFaults ==
  ASSUME fault = "none", Types, Sound, TcpInput
  PROVE  FaultsNeedTheEnd'
<1>1. PICK c : c = tp.m.c
  OBVIOUS
<1>2. tp.pc = "run" /\ tp.m.k = "in" /\ tp.m.op # "rst"
  BY DEF TcpInput
<1>3. tp.m \in InMsgs /\ c \in Conns
  <2>1. tp.m \in Msgs
    BY <1>2 DEF Sound, Messages
  <2>2. tp.m \in InMsgs
    BY <1>2, <2>1 DEF Msgs, ApiMsgs
  <2> QED BY <1>1, <2>2 DEF InMsgs
<1>4. tp.m.op \in {"syn", "data", "fin", "ack"}
  BY <1>2, <1>3 DEF InMsgs
<1>5. CASE tp.m.op = "syn"
  <2>1. AcceptFunction(c)
    BY <1>1, <1>5 DEF TcpInput
  <2>2. PICK mb, s : mb = [mbox EXCEPT ![Recv(c)] = NewBox, ![Ans(c)] = NewBox] /\ s = net[c].port
    OBVIOUS
  <2>3. fault' = fault \/ (conn[s].pcb = "listen" /\ fault' = PostFault(mb, Accept(s)))
    BY <2>1, <2>2 DEF AcceptFunction
  <2>4. s \in Servers
    BY <1>3, <2>2 DEF Types, NetRecs
  <2>5. mb[Accept(s)] = mbox[Accept(s)]
    <3>1. Accept(s) \in Boxes
      BY <2>4, Names, BoxNames
    <3>2. Accept(s) # Recv(c) /\ Accept(s) # Ans(c)
      BY DEF Accept, Recv, Ans
    <3> QED BY <2>2, <3>1, <3>2 DEF Types
  <2>6. conn[s].pcb = "listen" => mb[Accept(s)].st = "live"
    BY <2>4, <2>5 DEF Sound, Messages
  <2>7. fault' \notin Grave
    BY <2>3, <2>6, PostFaults DEF Grave
  <2> QED BY <2>7, Harmless
<1>6. CASE tp.m.op # "syn"
  <2>1. fault' = fault
    BY <1>1, <1>3, <1>4, <1>6, CalledAlive DEF TcpInput, SentTcp, RecvTcp
  <2> QED BY <2>1, Harmless DEF Grave
<1> QED BY <1>5, <1>6

LEMMA ResetFaults ==
  ASSUME fault = "none", Types, Sound, TcpReset \/ \E c \in Conns : TcpGivesUp(c)
  PROVE  FaultsNeedTheEnd'
<1>1. PICK c \in Conns : ErrPcb(c)
  <2>1. CASE TcpReset
    <3>1. tp.m \in Msgs /\ tp.m.op = "rst" /\ ErrPcb(tp.m.c)
      BY <2>1 DEF TcpReset, Sound, Messages
    <3>2. tp.m \in InMsgs
      BY <3>1 DEF Msgs, ApiMsgs
    <3> QED BY <3>1, <3>2 DEF InMsgs
  <2>2. CASE \E c \in Conns : TcpGivesUp(c)
    BY <2>2 DEF TcpGivesUp
  <2> QED BY <2>1, <2>2
<1>2. fault' = fault
  BY <1>1, CalledAlive DEF ErrPcb
<1> QED BY <1>2, Harmless DEF Grave

LEMMA EndFaults ==
  ASSUME fault = "none", Types, Sound, ErrErr \/ ErrTell \/ RecvGive
  PROVE  FaultsNeedTheEnd'
<1>1. CASE ErrErr \/ ErrTell
  <2>1. tp.pc \in {"err", "tell"} /\ resets' = resets
    BY <1>1 DEF ErrErr, ErrTell
  <2>2. tp.m.c \in resets /\ tp.m \in InMsgs
    BY <2>1 DEF Sound, Messages
  <2>3. tp.m.c \in Conns
    BY <2>2 DEF InMsgs
  <2> QED BY <2>1, <2>2, <2>3 DEF FaultsNeedTheEnd
<1>2. CASE RecvGive
  <2>1. PICK c : c = tp.m.c
    OBVIOUS
  <2>2. tp.pc = "give" /\ fault' = PostFault(mbox, Recv(c)) /\ tcp' = tcp
    BY <1>2, <2>1 DEF RecvGive, Post
  <2>3. tp.m \in InMsgs /\ tcp[c].cb
    BY <2>1, <2>2 DEF Sound, Messages
  <2>4. c \in Conns
    BY <2>1, <2>3 DEF InMsgs
  <2>5. mbox[Recv(c)].st = "live" \/ tcp[c].gotfin
    BY <2>3, <2>4 DEF Sound, Reading, ReadOK
  <2>6. CASE mbox[Recv(c)].st = "live"
    BY <2>2, <2>6, PostFaults, Harmless
  <2>7. CASE tcp[c].gotfin
    <3>1. fault' \in {"freed mailbox", "mailbox wraps", "none"}
      BY <2>2, PostFaults
    <3> QED BY <2>2, <2>4, <2>7, <3>1 DEF FaultsNeedTheEnd
  <2> QED BY <2>5, <2>6, <2>7
<1> QED BY <1>1, <1>2

LEMMA TransportFaults ==
  ASSUME fault = "none", Types, Sound, TransportStep
  PROVE  FaultsNeedTheEnd'
<1>1. CASE TransportTest \/ TransportWake
  <2>1. fault' = fault
    BY <1>1 DEF TransportTest, TransportWake
  <2> QED BY <2>1, Harmless DEF Grave
<1>2. CASE TransportTimeout
  <2>1. fault' = "none"
    BY <1>2, CalledAlive DEF TransportTimeout
  <2> QED BY <2>1, Harmless DEF Grave
<1> QED BY <1>1, <1>2, ApiFaults, InputFaults, ResetFaults, EndFaults DEF TransportStep

-----------------------------------------------------------------------------
(* The initial state. *)

LEMMA InitTypes ==
  ASSUME Init
  PROVE  Types
<1>1. mbox \in [Boxes -> BoxRecs]
  BY BoxValues DEF Init
<1>2. conn \in [Netconns -> ConnRecs]
  <2>1. [FreshNetconn EXCEPT !.st = "none"] \in ConnRecs
    BY DEF FreshNetconn, ConnRecs
  <2> QED BY <2>1 DEF Init
<1>3. tcp \in [Conns -> TcpRecs]
  <2>1. [room |-> SndBuf, cb |-> FALSE, gotfin |-> FALSE] \in TcpRecs
    BY NetconnAssumption DEF TcpRecs
  <2> QED BY <2>1 DEF Init
<1>4. \E n \in 2 .. NumSockets : sock \in [0 .. n - 1 -> SockRecs]
  <2>1. [conn |-> NoConn, last |-> FALSE] \in SockRecs
    BY DEF SockRecs
  <2> QED BY <2>1 DEF Init
<1>5. thr \in [Threads -> ThreadRecs]
  <2>1. ASSUME NEW p \in Words PROVE Thread(p) \in ThreadRecs
    <3>1. "" \in Words /\ Transport \in Boxes /\ "null" \in Items /\ NoConn \in Netconns \cup {NoConn}
      BY WordIn, BoxNames, ItemValues
    <3>2. NoFd \in 0 .. NumSockets
      BY NetconnAssumption DEF NoFd
    <3>3. PICK w \in Words : w = ""
      BY <3>1, Zenon
    <3>4. PICK v \in Items : v = "null"
      BY <3>1, Zenon
    <3>5. PICK z \in Int : z = 0
      OBVIOUS
    <3>6. PICK b \in Boxes : b = Transport
      BY <3>1, Zenon
    <3>7. PICK k \in Netconns \cup {NoConn} : k = NoConn
      BY <3>1, Zenon
    <3>8. PICK i \in 0 .. NumSockets : i = NoFd
      BY <3>2, Zenon
    <3>9. Thread(p) = [pc |-> p, then |-> w, ret |-> w, on |-> b, fd |-> i,
                       c |-> k, size |-> z, len |-> z, got |-> v]
      BY <3>3, <3>4, <3>5, <3>6, <3>7, <3>8 DEF Thread
    <3> QED BY <3>9 DEF ThreadRecs
  <2>2. "socket" \in Words /\ "off" \in Words /\ "idle" \in Words
    BY WordIn
  <2>3. \A t \in Threads : \E p \in Words :
           Thread(CASE t \in Servers -> "socket" [] t \in Conns -> "off" [] OTHER -> "idle") = Thread(p)
    <3> SUFFICES ASSUME NEW t \in Threads
                 PROVE  \E p \in Words :
                   Thread(CASE t \in Servers -> "socket" [] t \in Conns -> "off" [] OTHER -> "idle") = Thread(p)
      OBVIOUS
    <3>1. CASE t \in Servers
      <4>1. t \notin Conns
        BY <3>1, Names
      <4> QED BY <2>2, <3>1, <4>1
    <3>2. CASE t \in Conns
      <4>1. t \notin Servers
        BY <3>2, Names
      <4> QED BY <2>2, <3>2, <4>1
    <3>3. CASE t \notin Servers /\ t \notin Conns
      BY <2>2, <3>3
    <3> QED BY <3>1, <3>2, <3>3
  <2> QED BY <2>1, <2>3 DEF Init
<1>6. tp \in TpRecs
  BY RestFacts DEF Init
<1>7. www \in Seq(0 .. NumSockets)
  BY NoItems DEF Init
<1>8. net \in [Conns -> NetRecs]
  <2>1. ASSUME NEW r \in [port : Servers, syn : {TRUE}, data : {MaxData}, fin : {TRUE}]
        PROVE  r \in NetRecs
    <3>1. /\ r = [port |-> r.port, syn |-> r.syn, data |-> r.data, fin |-> r.fin]
          /\ r.port \in Servers /\ r.syn = TRUE /\ r.data = MaxData /\ r.fin = TRUE
      OBVIOUS
    <3>2. MaxData \in Int
      BY NetconnAssumption
    <3> QED BY <3>1, <3>2 DEF NetRecs
  <2> QED BY <2>1 DEF Init
<1>9. resets \in SUBSET Conns
  BY DEF Init
<1> QED BY <1>1, <1>2, <1>3, <1>4, <1>5, <1>6, <1>7, <1>8, <1>9 DEF Types

LEMMA InitSound ==
  ASSUME Init
  PROVE  Sound
<1>0. Types
  BY InitTypes
<1>1. \A c \in Netconns : conn[c].st = "none" /\ conn[c].pcb = "null"
  <2>1. PICK r : r = [FreshNetconn EXCEPT !.st = "none"]
    OBVIOUS
  <2>2. r.st = "none" /\ r.pcb = "null"
    BY <2>1 DEF FreshNetconn
  <2> QED BY <2>1, <2>2 DEF Init
<1>2. \A c \in Conns : ~tcp[c].cb
  BY DEF Init
<1>3. \A i \in DOMAIN sock : sock[i].conn = NoConn
  BY DEF Init
<1>4. /\ \A s \in Servers : thr[s].pc = "socket" /\ thr[s].c = NoConn
      /\ \A t \in Workers : thr[t].pc = Home(t)
  <2>1. \A p : Thread(p).pc = p /\ Thread(p).c = NoConn
    BY DEF Thread
  <2>2. ASSUME NEW s \in Servers PROVE thr[s].pc = "socket" /\ thr[s].c = NoConn
    <3>1. s \in Threads /\ s \notin Conns
      BY Names
    <3>2. thr[s] = Thread("socket")
      BY <3>1 DEF Init
    <3> QED BY <2>1, <3>2
  <2>3. ASSUME NEW t \in Workers PROVE thr[t].pc = Home(t)
    <3>1. t \in Threads /\ t \notin Servers
      BY Names
    <3>2. CASE t \in Conns
      <4>1. thr[t] = Thread("off")
        BY <3>1, <3>2 DEF Init
      <4> QED BY <2>1, <3>2, <4>1, Homes
    <3>3. CASE t \in Pool
      <4>1. t \notin Conns
        BY <3>3, Names
      <4>2. thr[t] = Thread("idle")
        BY <3>1, <4>1 DEF Init
      <4> QED BY <2>1, <3>3, <4>2, Homes
    <3> QED BY <3>2, <3>3, Names
  <2> QED BY <2>2, <2>3
<1>5. \A t \in Threads : /\ thr[t].pc \in {"socket", "off", "idle"} /\ Mine(t) = NoConn
                         /\ ~Fetching(t) /\ ~Caller(t) /\ ~Deleting(t) /\ ~Writing(t)
  <2> SUFFICES ASSUME NEW t \in Threads
               PROVE  /\ thr[t].pc \in {"socket", "off", "idle"} /\ Mine(t) = NoConn
                      /\ ~Fetching(t) /\ ~Caller(t) /\ ~Deleting(t) /\ ~Writing(t)
    OBVIOUS
  <2>1. thr[t].pc \in {"socket", "off", "idle"}
    BY <1>4, Names, Homes
  <2>2. ~Fetching(t) /\ ~Caller(t) /\ ~Deleting(t) /\ ~Writing(t)
    BY <2>1 DEF Fetching, Caller, Deleting, Writing
  <2>3. t \in Servers => Mine(t) = NoConn
    BY <1>4 DEF Mine
  <2>4. t \in Workers => Mine(t) = NoConn
    BY <1>4, MineWorker
  <2> QED BY <2>1, <2>2, <2>3, <2>4, Names
<1>6. /\ mbox[Transport].st = "live"
      /\ \A b \in Boxes : mbox[b].q = << >>
  BY BoxNames, BoxValues DEF Init
<1>7. Q = << >> /\ DOMAIN Q = {}
  BY <1>6, BoxNames, NoItems DEF Q
<1>8. tp.pc = "test" /\ www = << >> /\ resets = {}
  BY RestFacts DEF Init
<1>9. DOMAIN << >> = {}
  BY NoItems
<1>10. Control
  <2>1. ASSUME NEW s \in Servers PROVE ServerCtl(s)
    BY <1>1, <1>4, Names DEF ServerCtl, Fetching
  <2>2. ASSUME NEW t \in Workers PROVE WorkerCtl(t)
    BY <1>4 DEF WorkerCtl
  <2> QED BY <2>1, <2>2 DEF Control
<1>11. Places
  <2>1. Exclusive
    BY <1>5 DEF Exclusive
  <2>2. Alive
    BY <1>1, <1>3, <1>5 DEF Alive
  <2>3. AcceptQueues
    <3>1. \A s \in Servers : mbox[Accept(s)].q = << >>
      BY <1>6, Names, BoxNames
    <3> QED BY <1>9, <3>1 DEF AcceptQueues, AcceptOK
  <2>4. Table
    <3>1. \A s \in Servers : ~Unplaced(s)
      BY <1>4 DEF Unplaced, Fetching
    <3> QED BY <1>3, <3>1 DEF Table
  <2>5. WwwQueue
    BY <1>8, <1>9 DEF WwwQueue
  <2> QED BY <2>1, <2>2, <2>3, <2>4, <2>5 DEF Places
<1>12. SynOnce
  BY <1>1, <1>7, <1>8, Names DEF SynOnce, SynInHand
<1>13. Messages
  BY <1>1, <1>6, <1>7, <1>8, Names DEF Messages
<1>14. Answers
  <2> SUFFICES ASSUME NEW c \in Netconns PROVE Answered(c)
    BY DEF Answers
  <2>1. mbox[Ans(c)].q = << >>
    BY <1>6, BoxNames
  <2>2. ~Told(c) /\ ~Asked(c) /\ ~Hand(c)
    BY <1>7, <1>8, <2>1 DEF Told, Asked, Hand
  <2>3. \A t \in Threads : ~CallerOf(t, c)
    BY <1>5 DEF CallerOf
  <2>4. Len(mbox[Ans(c)].q) <= 1
    BY <2>1, ShortEmpty
  <2> QED BY <1>7, <2>2, <2>3, <2>4 DEF Answered
<1>15. Callbacks
  BY <1>1, <1>2, <1>8, Names DEF Callbacks
<1>16. Reading
  <2>1. \A c \in Conns : mbox[Recv(c)].q = << >>
    BY <1>6, Names, BoxNames
  <2>2. \A c \in Conns : ReadOK(c)
    BY <1>2, <1>9, <2>1 DEF ReadOK
  <2> QED BY <1>5, <2>2 DEF Reading
<1>17. Writers
  BY <1>5, Names DEF Writers, WriterOK
<1>18. Mail
  BY <1>5, <1>8 DEF Mail
<1> QED BY <1>10, <1>11, <1>12, <1>13, <1>14, <1>15, <1>16, <1>17, <1>18 DEF Sound

-----------------------------------------------------------------------------
(* The inductive invariant. *)

LEMMA InitIInv ==
  Init => IInv
<1> SUFFICES ASSUME Init PROVE IInv
  OBVIOUS
<1>1. fault = "none"
  BY DEF Init
<1> QED BY <1>1, InitTypes, InitSound DEF IInv, FaultsNeedTheEnd

LEMMA SoundStep ==
  ASSUME Types, Sound, Next, fault' = "none"
  PROVE  Types' /\ Sound'
<1>1. CASE \E s \in Servers : ServerStep(s)
  <2>1. PICK s \in Servers : ServerStep(s)
    BY <1>1
  <2> QED BY <2>1, LwipSocketStep, NetconnBindStep, BoundStep, NetconnListenStep,
             NetconnAcceptStep, NetconnPeerStep DEF ServerStep
<1>2. CASE \E t \in Threads : ThreadStep(t)
  <2>1. PICK t \in Threads : ThreadStep(t)
    BY <1>2
  <2>2. CASE FetchTest(t) \/ FetchWake(t) \/ AllocFind(t) \/ AllocTake(t)
    BY <2>2, FetchTestStep, FetchWakeStep, AllocFindStep, AllocTakeStep
  <2>3. CASE RecvLast(t) \/ NetconnRecv(t) \/ RecvTaken(t) \/ RecvDone(t)
    BY <2>3, RecvLastStep, NetconnRecvStep, RecvTakenStep
  <2>4. CASE \/ NetconnWrite(t) \/ WriteLoop(t) \/ SemWait(t, "full", "woken")
             \/ WriteWoken(t) \/ WriteChunk(t) \/ WriteAnswered(t) \/ WriteClear(t)
             \/ SemWait(t, "nomem", "loop")
    BY <2>4, NetconnWriteStep, WriteLoopStep, SemWaitStep, WriteWokenStep, WriteChunkStep,
       WriteAnsweredStep, WriteClearStep
  <2>5. CASE LwipClose(t) \/ NetconnDelete(t) \/ DeleteDrain(t) \/ DeleteFree(t)
    BY <2>5, LwipCloseStep, NetconnDeleteStep, DeleteDrainStep, DeleteFreeStep
  <2> QED BY <2>1, <2>2, <2>3, <2>4, <2>5 DEF ThreadStep
<1>3. CASE SpawnCli \/ QueueWww \/ \E p \in Pool : ServeNext(p)
  BY <1>3, SpawnCliStep, QueueWwwStep, ServeNextStep
<1>4. CASE TransportStep
  BY <1>4, TransportTestStep, TransportWakeStep, TransportTimeoutStep, ApiMsgInputStep, TcpInputStep,
     RecvGiveStep, TcpResetStep, ErrErrStep, ErrTellStep, TcpGivesUpStep DEF TransportStep
<1>5. CASE \E c \in Conns, op \in {"syn", "data", "fin", "ack", "rst"} : TcpMsgInput(c, op)
  BY <1>5, TcpMsgInputStep DEF SegOps
<1> QED BY <1>1, <1>2, <1>3, <1>4, <1>5 DEF Next

LEMMA FaultStep ==
  ASSUME Types, Sound, Next
  PROVE  FaultsNeedTheEnd'
<1>1. fault = "none"
  BY DEF Next
<1> QED BY <1>1, ServerFaults, ThreadFaults, HandOverFaults, TransportFaults, SegmentFaults DEF Next

LEMMA NextIInv ==
  IInv /\ [Next]_vars => IInv'
<1> SUFFICES ASSUME IInv, [Next]_vars PROVE IInv'
  OBVIOUS
<1>1. CASE UNCHANGED vars
  <2>1. Types => Types'
    BY <1>1 DEF vars, Types
  <2>2. Sound => Sound'
    <3>1. UNCHANGED <<mbox, conn, tcp, sock, thr, tp, www, net, resets>>
      BY <1>1 DEF vars
    <3>2. Control => Control'
      BY <3>1 DEF Control, ServerCtl, WorkerCtl, OfServer, Fetching, Writing
    <3>3. \A t : Mine(t)' = Mine(t)
      BY <3>1 DEF Mine
    <3>4. (Exclusive => Exclusive') /\ (Alive => Alive')
      BY <3>1, <3>3 DEF Exclusive, Alive
    <3>5. \A c : InTable(c)' <=> InTable(c)
      BY <3>1 DEF InTable
    <3>6. \A s, c : Waits(s, c)' <=> Waits(s, c)
      BY <3>1, <3>3, <3>5 DEF Waits
    <3>7. AcceptQueues => AcceptQueues'
      BY <3>1, <3>6 DEF AcceptQueues, AcceptOK
    <3>8. (Table => Table') /\ (WwwQueue => WwwQueue')
      BY SMTT(40), <3>1, <3>3, <3>5 DEF Table, Unplaced, Fetching, WwwQueue, Parked
    <3>9. (SynOnce => SynOnce') /\ (Messages => Messages')
      BY <3>1 DEF SynOnce, SynAt, SynInHand, Q, Messages, ApiOK
    <3>10. Answers => Answers'
      <4>1. \A t, c : CallerOf(t, c)' <=> CallerOf(t, c)
        BY <3>1 DEF CallerOf, Caller, Fetching
      <4>2. \A i, c : ReqAt(i, c)' <=> ReqAt(i, c)
        BY <3>1 DEF ReqAt, Q
      <4>3. \A c : (Asked(c)' <=> Asked(c)) /\ (Hand(c)' <=> Hand(c)) /\ (Told(c)' <=> Told(c))
        BY <3>1, <4>2 DEF Asked, Hand, Told, Q
      <4>4. ASSUME NEW c \in Netconns, Answered(c) PROVE Answered(c)'
        BY <3>1, <4>1, <4>2, <4>3, <4>4 DEF Answered, Q
      <4> QED BY <4>4 DEF Answers
    <3>11. Callbacks => Callbacks'
      BY <3>1, <3>3 DEF Callbacks, Deleting, Fetching
    <3>12. (Reading => Reading') /\ (Writers => Writers') /\ (Mail => Mail')
      BY <3>1 DEF Reading, ReadOK, Writers, WriterOK, Writing, Fetching, Mail
    <3> QED BY <3>2, <3>4, <3>7, <3>8, <3>9, <3>10, <3>11, <3>12 DEF Sound, Places
  <2>3. FaultsNeedTheEnd => FaultsNeedTheEnd'
    BY <1>1 DEF vars, FaultsNeedTheEnd
  <2> QED BY <1>1, <2>1, <2>2, <2>3 DEF IInv, vars
<1>2. CASE Next
  <2>1. fault = "none"
    BY <1>2 DEF Next
  <2>2. Types /\ Sound
    BY <2>1 DEF IInv
  <2> QED BY <1>2, <2>2, SoundStep, FaultStep DEF IInv
<1> QED BY <1>1, <1>2

(* The places of the threads, the owners of the netconns, the requests and *)
(* answers, the callbacks and the semaphores fit together in every         *)
(* execution, whatever order the calls of api_lib.c, the handlers of       *)
(* api_msg.c, the callbacks and the peers' segments come in.               *)
THEOREM Inductive == Spec => []IInv
<1>1. Spec => Init /\ [][Next]_vars
  BY DEF Spec
<1> QED BY <1>1, InitIInv, NextIInv, PTL

LEMMA CallingIs ==
  ASSUME Types, Sound, NEW c \in Netconns
  PROVE  /\ \A t \in Threads : t \in Calling(c) <=> CallerOf(t, c)
         /\ \A t, u \in Calling(c) : t = u
<1>1. ASSUME NEW t \in Threads, Fetching(t), thr[t].on = Ans(c) PROVE CallerOf(t, c)
  <2>1. CASE t \in Servers
    <3>1. ServerCtl(t)
      BY <2>1 DEF Sound, Control
    <3>2. \/ thr[t].then \in {"bound", "accept"} /\ thr[t].c = t /\ thr[t].on = Ans(t)
          \/ thr[t].then = "peer" /\ thr[t].on = Accept(t)
          \/ thr[t].then = "drain" /\ thr[t].on = Ans(thr[t].c)
      BY <1>1, <3>1 DEF ServerCtl
    <3> QED BY <1>1, <3>2 DEF CallerOf, Caller, Ans, Accept
  <2>2. CASE t \in Workers
    <3>1. WorkerCtl(t) /\ thr[t].pc # Home(t)
      BY <1>1, <2>2, Homes DEF Sound, Control, Fetching
    <3>2. \/ thr[t].then = "taken" /\ thr[t].on = Recv(thr[t].c)
          \/ thr[t].then \in {"received", "wrote", "drain"} /\ thr[t].on = Ans(thr[t].c)
      BY <1>1, <3>1 DEF WorkerCtl
    <3> QED BY <1>1, <3>2 DEF CallerOf, Caller, Ans, Recv
  <2> QED BY <2>1, <2>2, Names
<1>2. ASSUME NEW t \in Threads, CallerOf(t, c) PROVE t \in Calling(c) /\ Mine(t) = c
  <2>1. Mine(t) = c /\ thr[t].on = Ans(c)
    BY <1>2, CallersMine
  <2> QED BY <1>2, <2>1 DEF Calling, CallerOf, Caller, Fetching
<1>3. ASSUME NEW t \in Threads PROVE t \in Calling(c) <=> CallerOf(t, c)
  BY <1>1, <1>2 DEF Calling, Fetching
<1>4. ASSUME NEW t \in Calling(c), NEW u \in Calling(c) PROVE t = u
  <2>1. t \in Threads /\ u \in Threads
    BY DEF Calling
  <2>2. Mine(t) = c /\ Mine(u) = c
    BY <1>2, <1>3, <2>1
  <2>3. c # NoConn
    BY Names
  <2> QED BY <2>1, <2>2, <2>3 DEF Sound, Places, Exclusive
<1> QED BY <1>3, <1>4

(* The size of a set with at most one member. *)
LEMMA OneOrNone ==
  ASSUME NEW S, \A x, y \in S : x = y
  PROVE  /\ S = {} => Cardinality(S) = 0
         /\ S # {} => Cardinality(S) = 1
<1>1. CASE S = {}
  BY <1>1, FS_EmptySet
<1>2. CASE S # {}
  <2>1. PICK x : S = {x}
    BY <1>2
  <2> QED BY <1>2, <2>1, FS_Singleton
<1> QED BY <1>1, <1>2

LEMMA AnswersCounted ==
  ASSUME Types, Sound, NEW c \in Netconns
  PROVE  LET open == Cardinality(Requests(c)) + InHand(c) + Len(mbox[Ans(c)].q)
             callers == Cardinality(Calling(c)) IN
         /\ open >= callers
         /\ c \notin resets => open = callers
<1>1. PICK A, q, l, h : A = Requests(c) /\ q = mbox[Ans(c)].q /\ l = Len(mbox[Ans(c)].q) /\ h = InHand(c)
  OBVIOUS
<1>2. q \in Seq(Items) /\ Q \in Seq(Items)
  BY <1>1, BoxNames DEF Types, BoxRecs, Q
<1>3. l \in Nat /\ (Told(c) <=> l # 0)
  BY <1>1, <1>2, NoItems DEF Told
<1>4. /\ h \in {0, 1} /\ (Hand(c) <=> h = 1)
  BY <1>1 DEF InHand, Hand
<1>5. DOMAIN Q = 1 .. Len(Q) /\ Len(Q) \in Nat
  BY <1>2
<1>6. A = {i \in DOMAIN Q : ReqAt(i, c)}
  BY <1>1, <1>5 DEF Requests, ReqAt, Q
<1>7. IsFiniteSet(A)
  <2>1. IsFiniteSet(1 .. Len(Q))
    BY <1>5, FS_Interval
  <2>2. A \subseteq 1 .. Len(Q)
    BY <1>5, <1>6
  <2> QED BY <2>1, <2>2, FS_Subset
<1>8. Cardinality(A) \in Nat /\ (Cardinality(A) = 0 <=> A = {})
  BY <1>7, FS_CardinalityType, FS_EmptySet
<1>9. Asked(c) <=> A # {}
  BY <1>6 DEF Asked
<1>10. PICK n : n = Cardinality(A)
  OBVIOUS
<1>11. n \in Nat /\ (Asked(c) <=> n # 0)
  BY <1>8, <1>9, <1>10
<1>12. Answered(c)
  BY DEF Sound, Answers
<1>13. c \notin resets =>
         /\ n <= 1 /\ l <= 1
         /\ Asked(c) => ~Hand(c) /\ ~Told(c)
         /\ Hand(c) => ~Told(c)
         /\ Asked(c) \/ Hand(c) \/ Told(c) => \E t \in Threads : CallerOf(t, c)
  <2> SUFFICES ASSUME c \notin resets
               PROVE  /\ n <= 1 /\ l <= 1
                      /\ Asked(c) => ~Hand(c) /\ ~Told(c)
                      /\ Hand(c) => ~Told(c)
                      /\ Asked(c) \/ Hand(c) \/ Told(c) => \E t \in Threads : CallerOf(t, c)
    OBVIOUS
  <2>1. \A i, j \in A : i = j
    BY <1>6, <1>12 DEF Answered
  <2>2. n = 0 \/ n = 1
    BY <1>10, <2>1, OneOrNone
  <2>3. l <= 1
    BY <1>1, <1>12 DEF Answered
  <2> QED BY <1>12, <2>2, <2>3 DEF Answered
<1>14. PICK k : k = Cardinality(Calling(c))
  OBVIOUS
<1>15. /\ (\E t \in Threads : CallerOf(t, c)) => k = 1
       /\ ~(\E t \in Threads : CallerOf(t, c)) => k = 0
  <2>1. /\ \A t \in Threads : t \in Calling(c) <=> CallerOf(t, c)
        /\ \A t, u \in Calling(c) : t = u
    BY CallingIs
  <2>2. /\ Calling(c) = {} => k = 0
        /\ Calling(c) # {} => k = 1
    BY <1>14, <2>1, OneOrNone
  <2>3. Calling(c) \subseteq Threads
    BY DEF Calling
  <2> QED BY <2>1, <2>2, <2>3
<1>16. (\E t \in Threads : CallerOf(t, c)) => Asked(c) \/ Hand(c) \/ Told(c)
  BY <1>12 DEF Answered
<1>17. n + h + l >= k /\ (c \notin resets => n + h + l = k)
  BY <1>3, <1>4, <1>11, <1>13, <1>15, <1>16
<1> QED BY <1>1, <1>10, <1>14, <1>17

(* A thread that sleeps on an answer mailbox in api_lib.c has its request  *)
(* on the way or its answer waiting, and before a reset exactly one of     *)
(* them: each handler of api_msg.c answers once on every path.             *)
THEOREM OneAnswer == Spec => []OneAnswerPerCall
<1>1. IInv => OneAnswerPerCall
  <2> SUFFICES ASSUME IInv, fault = "none", NEW c \in Netconns
               PROVE  LET open == Cardinality(Requests(c)) + InHand(c) + Len(mbox[Ans(c)].q)
                          callers == Cardinality(Calling(c)) IN
                      /\ open >= callers
                      /\ c \notin resets => open = callers
    BY DEF OneAnswerPerCall
  <2> QED BY AnswersCounted DEF IInv
<1> QED BY <1>1, Inductive, PTL

(* No thread sleeps in sys_arch_mbox_fetch through a message, although     *)
(* sys_mbox_post signals only when the ring was empty and the test of the  *)
(* ring and the wait are two steps.                                        *)
THEOREM MailIsSeen == Spec => []NoLostMail
<1>1. IInv => NoLostMail
  BY DEF IInv, Sound, Mail, NoLostMail
<1> QED BY <1>1, Inductive, PTL

(* A writer that waits for room in netconn_write can be woken: there is a  *)
(* count on its semaphore, or sent_tcp and poll_tcp still reach it, or     *)
(* err_tcp is about to signal it.                                          *)
THEOREM WritersWake == Spec => []WriterCanBeWoken
<1>1. IInv => WriterCanBeWoken
  <2> SUFFICES ASSUME IInv, fault = "none", NEW t \in Threads, thr[t].pc \in {"full", "nomem"}
               PROVE  \/ conn[thr[t].c].sem = "1"
                      \/ tcp[thr[t].c].cb /\ conn[thr[t].c].state = "write"
                      \/ tp.pc \in {"err", "tell"} /\ tp.m.c = thr[t].c
    BY DEF WriterCanBeWoken
  <2>1. Types /\ Sound
    BY DEF IInv
  <2>2. Writing(t)
    BY DEF Writing
  <2>3. t \in Workers
    BY <2>1, <2>2, WriterOf
  <2>4. WriterOK(t)
    BY <2>1, <2>3 DEF Sound, Writers
  <2> QED BY <2>2, <2>4 DEF WriterOK
<1> QED BY <1>1, Inductive, PTL

(* Before a reset no thread of api_lib.c or handler of api_msg.c follows a *)
(* NULL control block or a freed netconn, and recv_tcp and err_tcp post to *)
(* a freed mailbox only after the peer has ended its stream.               *)
THEOREM FaultsAtTheEnd == Spec => []FaultsNeedTheEnd
<1>1. IInv => FaultsNeedTheEnd
  BY DEF IInv
<1> QED BY <1>1, Inductive, PTL

=============================================================================
