------------------------------ MODULE Netconn ------------------------------
(***************************************************************************)
(* The sequential API of SCONE's TCP/IP stack (lwtcp/api_lib.c, api_msg.c, *)
(* sockets.c) on the mailboxes and semaphores of sys_arch.c, together with *)
(* its two users, the telnet command line (or_cli.c) and the web server    *)
(* (or_www.c).  An application thread never touches a TCP control block:   *)
(* it posts a message to the transport thread and sleeps on the netconn's  *)
(* answer mailbox; the stack's callbacks, which run in the transport       *)
(* thread, write the same netconn without a lock.                          *)
(*                                                                         *)
(* A listening netconn carries the name of its server, an accepted one is  *)
(* a member of Conns.  The TCP protocol itself is module Lwtcp: here a     *)
(* control block is the room of its send buffer and whether its callbacks  *)
(* point to the netconn.  `fault' is the first undefined behaviour of the  *)
(* run, or the first byte lost; what follows it is not explored.           *)
(***************************************************************************)
EXTENDS Naturals, Sequences, FiniteSets, SequencesExt

CONSTANTS Conns,       \* connections that peers may open
          Pool,        \* threads that serve web requests
          NumSockets,  \* bound: largest NUM_SOCKETS
          MboxSize,    \* SYS_MBOX_SIZE
          SndBuf,      \* room of an empty TCP send buffer
          MaxSize,     \* length of one send()
          MaxData,     \* bound: data segments a peer sends on a connection
          MaxResets    \* bound: connections that are reset

Servers == {"cli", "www"}
Netconns == Servers \cup Conns
Threads == Servers \cup Conns \cup Pool
NoConn == "no netconn"
NoFd == NumSockets

ASSUME NetconnAssumption ==
  /\ NumSockets \in Nat /\ NumSockets >= 2
  /\ MboxSize \in Nat /\ MboxSize >= 2
  /\ SndBuf \in Nat \ {0} /\ MaxSize \in Nat \ {0}
  /\ MaxData \in Nat /\ MaxResets \in Nat
  /\ Servers \cap Conns = {} /\ Pool \cap Netconns = {}
  /\ NoConn \notin Netconns

Transport == <<"transport", "in">>
Ans(c) == <<c, "ans">>          \* conn->mbox
Recv(c) == <<c, "recv">>        \* conn->recvmbox
Accept(c) == <<c, "accept">>    \* conn->acceptmbox
Boxes == {Transport} \cup (Netconns \X {"ans", "recv", "accept"})

VARIABLES mbox,    \* the mailboxes
          conn,    \* the netconns
          tcp,     \* the control blocks of the connections, as the stack sees them
          sock,    \* the socket table
          thr,     \* the application threads
          tp,      \* the transport thread
          www,     \* rs->www_request_queue
          net,     \* the server each peer connects to, and what it has still to send
          resets,  \* connections reset so far
          fault    \* the first undefined behaviour

vars == <<mbox, conn, tcp, sock, thr, tp, www, net, resets, fault>>

-----------------------------------------------------------------------------
(* sys_arch.c: mailboxes and semaphores.                                   *)

NullBox == [st |-> "null", q |-> <<>>, mail |-> FALSE]
NewBox == [NullBox EXCEPT !.st = "live"]
FreedBox == [NullBox EXCEPT !.st = "freed"]

\* mutant: `first' is computed after `last' has moved on.
PostOnLate(mb, b, m) ==
  [mb EXCEPT ![b].q = Append(@, m),
             ![b].mail = @ \/ mb[b].q # <<>>]

\* sys_mbox_post: the mail semaphore, whose count stays below 2, is signalled
\* when the ring was empty.  Nothing looks whether the ring is full: `last'
\* then meets `first' and every message is gone.
PostOn(mb, b, m) ==
  [mb EXCEPT ![b].q = Append(@, m),
             ![b].mail = @ \/ mb[b].q = <<>>]

PostFault(mb, b) ==
  CASE mb[b].st # "live" -> "freed mailbox"
    [] Len(mb[b].q) = MboxSize - 1 -> "mailbox wraps"
    [] OTHER -> "none"

Post(b, m) == /\ mbox' = PostOn(mbox, b, m)
              /\ fault' = PostFault(mbox, b)

\* sys_sem_signal.  A semaphore is NULL, or its count of 0 or 1.
Signal(s) == IF s = "null" THEN s ELSE "1"

\* A thread at rest.  `on' is the mailbox it fetches from, `then' where it goes
\* with the message, `ret' where it goes after the netconn call.
Thread(pc) == [pc |-> pc, then |-> "", ret |-> "", on |-> Transport, fd |-> NoFd,
               c |-> NoConn, size |-> 0, len |-> 0, got |-> "null"]

Goto(t, pc) == thr' = [thr EXCEPT ![t].pc = pc]

\* sys_arch_mbox_fetch, first test of the ring, or the test after a wake-up.
FetchTest(t) ==
  LET b == thr[t].on IN
  /\ thr[t].pc = "fetch"
  /\ IF mbox[b].q # <<>>
       THEN /\ thr' = [thr EXCEPT ![t].pc = thr[t].then, ![t].then = "",
                                  ![t].on = Transport, ![t].got = Head(mbox[b].q)]
            /\ mbox' = [mbox EXCEPT ![b].q = Tail(@)]
       ELSE Goto(t, "asleep") /\ UNCHANGED mbox
  /\ UNCHANGED <<conn, tcp, sock, tp, www, net, resets, fault>>

\* sys_arch_sem_wait on the mail semaphore returns.
FetchWake(t) ==
  /\ thr[t].pc = "asleep"
  /\ mbox[thr[t].on].mail
  /\ mbox' = [mbox EXCEPT ![thr[t].on].mail = FALSE]
  /\ Goto(t, "fetch")
  /\ UNCHANGED <<conn, tcp, sock, tp, www, net, resets, fault>>

FetchFrom(t, b, then) ==
  [thr EXCEPT ![t].pc = "fetch", ![t].on = b, ![t].then = then, ![t].got = "null"]

-----------------------------------------------------------------------------
(* api_lib.c: the calls of the application threads.                        *)

Msg(k, op, c, len) == [k |-> k, op |-> op, c |-> c, len |-> len]

\* api_msg_post and transport_apimsg, then sys_mbox_fetch of the answer.
\* Without a message for the transport thread the request is put into the
\* free list of another pool, and the caller waits all the same.
Call(t, op, c, len, then) ==
  \/ /\ Post(Transport, Msg("api", op, c, len))
     /\ thr' = FetchFrom(t, Ans(c), then)
  \/ /\ fault' = "request lost"
     /\ UNCHANGED <<mbox, thr>>

\* netconn_new.
FreshNetconn == [st |-> "live", err |-> "ok", pcb |-> "null", sem |-> "null", state |-> "none"]

\* lwip_socket.
LwipSocket(s) ==
  /\ thr[s].pc = "socket"
  /\ conn' = [conn EXCEPT ![s] = FreshNetconn]
  /\ mbox' = [mbox EXCEPT ![Ans(s)] = NewBox]
  /\ thr' = [thr EXCEPT ![s].pc = "slot", ![s].c = s, ![s].ret = "bind"]
  /\ UNCHANGED <<tcp, sock, tp, www, net, resets, fault>>

\* alloc_socket: the scan for a free slot, and the assignment.  With no slot
\* the netconn is deleted and the descriptor is -1.
AllocFind(t) ==
  LET free == {i \in DOMAIN sock : sock[i].conn = NoConn} IN
  /\ thr[t].pc = "slot"
  /\ thr' = [thr EXCEPT ![t].pc = IF free = {} THEN "del" ELSE "take",
                        ![t].fd = IF free = {} THEN NoFd ELSE Min(free)]
  /\ UNCHANGED <<mbox, conn, tcp, sock, tp, www, net, resets, fault>>

AllocTake(t) ==
  LET i == thr[t].fd IN
  /\ thr[t].pc = "take"
  /\ sock' = [sock EXCEPT ![i] = [conn |-> thr[t].c, last |-> FALSE]]
  /\ fault' = IF sock[i].conn = NoConn THEN "none" ELSE "socket taken twice"
  /\ thr' = [thr EXCEPT ![t].pc = thr[t].ret, ![t].ret = ""]
  /\ UNCHANGED <<mbox, conn, tcp, tp, www, net, resets>>

\* get_socket tests the upper bound only: -1 reads before the table.
FdFault(fd) == IF fd = NoFd THEN "descriptor -1" ELSE "none"

\* lwip_bind and netconn_bind; the server gives up when it fails.
NetconnBind(s) ==
  /\ thr[s].pc = "bind"
  /\ IF thr[s].fd = NoFd
       THEN fault' = FdFault(NoFd) /\ UNCHANGED <<mbox, thr>>
       ELSE Call(s, "bind", s, 0, "bound")
  /\ UNCHANGED <<conn, tcp, sock, tp, www, net, resets>>

Bound(s) ==
  /\ thr[s].pc = "bound"
  /\ Goto(s, IF conn[s].err = "ok" THEN "listen" ELSE "stop")
  /\ mbox' = [mbox EXCEPT ![Ans(s)].mail = @ /\ conn[s].err = "ok"]
  /\ UNCHANGED <<conn, tcp, sock, tp, www, net, resets, fault>>

\* lwip_listen and netconn_listen.
NetconnListen(s) ==
  LET mb == [mbox EXCEPT ![Accept(s)] = NewBox] IN
  /\ thr[s].pc = "listen"
  /\ \/ /\ mbox' = PostOn(mb, Transport, Msg("api", "listen", s, 0))
        /\ fault' = PostFault(mb, Transport)
        /\ thr' = FetchFrom(s, Ans(s), "accept")
     \/ fault' = "request lost" /\ UNCHANGED <<mbox, thr>>
  /\ UNCHANGED <<conn, tcp, sock, tp, www, net, resets>>

\* lwip_accept: netconn_accept.  The answer mailbox of the listener is not used
\* any more: the count its mail semaphore may have kept is forgotten.
NetconnAccept(s) ==
  /\ thr[s].pc = "accept"
  /\ mbox' = [mbox EXCEPT ![Ans(s)].mail = FALSE]
  /\ thr' = [FetchFrom(s, Accept(s), "peer") EXCEPT ![s].fd = NoFd, ![s].c = NoConn]
  /\ UNCHANGED <<conn, tcp, sock, tp, www, net, resets, fault>>

\* lwip_accept: netconn_peer reads the control block and clears conn->err.
NetconnPeer(s) ==
  LET c == thr[s].got IN
  /\ thr[s].pc = "peer"
  /\ fault' = IF conn[c].pcb = "null" THEN "NULL pcb" ELSE "none"
  /\ conn' = [conn EXCEPT ![c].err = "ok"]
  /\ thr' = [thr EXCEPT ![s].pc = "slot", ![s].c = c, ![s].got = "null", ![s].ret = "spawn"]
  /\ UNCHANGED <<mbox, tcp, sock, tp, www, net, resets>>

\* cli_main gives the descriptor to a new thread,
SpawnCli ==
  LET fd == thr["cli"].fd IN
  /\ thr["cli"].pc = "spawn"
  /\ thr' = [thr EXCEPT !["cli"].pc = "accept",
                        ![thr["cli"].c] = [Thread("send") EXCEPT !.fd = fd, !.ret = "recv"]]
  /\ fault' = FdFault(fd)
  /\ UNCHANGED <<mbox, conn, tcp, sock, tp, www, net, resets>>

\* www_main to its pool.
QueueWww ==
  LET fd == thr["www"].fd IN
  /\ thr["www"].pc = "spawn"
  /\ www' = Append(www, fd)
  /\ Goto("www", "accept")
  /\ fault' = FdFault(fd)
  /\ UNCHANGED <<mbox, conn, tcp, sock, tp, net, resets>>

\* www_client_thread takes the oldest request; it looks again every second,
\* signalled or not.
ServeNext(p) ==
  /\ thr[p].pc = "idle" /\ www # <<>>
  /\ www' = Tail(www)
  /\ thr' = [thr EXCEPT ![p].pc = "recv", ![p].fd = Head(www)]
  /\ UNCHANGED <<mbox, conn, tcp, sock, tp, net, resets, fault>>

-----------------------------------------------------------------------------
(* lwip_recvfrom, and what its two callers do with the result.             *)

Then(pc, ret) == [pc |-> pc, ret |-> ret]

\* process_client_request starts over when recv returns 0; a command is
\* answered, and `exit' ends with a close.
CliGot(n) ==
  IF n = 0 THEN {Then("recv", "")} ELSE {Then("send", "recv"), Then("send", "close")}

\* service_request closes on 0; with data it reads on until the request is
\* whole, answers it and closes, or cannot parse it and closes.
WwwGot(n) ==
  IF n = 0 THEN {Then("close", "")}
  ELSE {Then("recv", ""), Then("send", "close"), Then("close", "")}

Return(t, n) ==
  \E a \in IF t \in Conns THEN CliGot(n) ELSE WwwGot(n) :
     thr' = [thr EXCEPT ![t].pc = a.pc, ![t].ret = a.ret, ![t].got = "null", ![t].c = NoConn]

\* sock->lastdata: what the last call could not take.
RecvLast(t) ==
  /\ thr[t].pc = "recv" /\ sock[thr[t].fd].last
  /\ \E more \in BOOLEAN : sock' = [sock EXCEPT ![thr[t].fd].last = more]
  /\ Return(t, 1)
  /\ UNCHANGED <<mbox, conn, tcp, tp, www, net, resets, fault>>

\* netconn_recv up to the fetch from recvmbox.
NetconnRecv(t) ==
  LET c == sock[thr[t].fd].conn IN
  /\ thr[t].pc = "recv" /\ ~sock[thr[t].fd].last
  /\ CASE mbox[Recv(c)].st = "null" ->
            conn' = [conn EXCEPT ![c].err = "conn"] /\ Return(t, 0) /\ UNCHANGED fault
       [] mbox[Recv(c)].st # "null" /\ conn[c].err # "ok" ->
            Return(t, 0) /\ UNCHANGED <<conn, fault>>
       [] OTHER ->
            /\ fault' = IF conn[c].pcb = "null" THEN "NULL pcb" ELSE "none"
            /\ thr' = [FetchFrom(t, Recv(c), "taken") EXCEPT ![t].c = c]
            /\ UNCHANGED conn
  /\ UNCHANGED <<mbox, tcp, sock, tp, www, net, resets>>

\* NULL is the end of the stream: the mailbox is given back.  Otherwise the
\* stack is told that the window may open again.
RecvTaken(t) ==
  LET c == thr[t].c IN
  /\ thr[t].pc = "taken"
  /\ IF thr[t].got = "null"
       THEN /\ mbox' = [mbox EXCEPT ![Recv(c)] = NullBox]
            /\ Return(t, 0)
            /\ UNCHANGED fault
       ELSE Call(t, "recv", c, 0, "received")
  /\ UNCHANGED <<conn, tcp, sock, tp, www, net, resets>>

RecvDone(t) ==
  /\ thr[t].pc = "received"
  /\ \E more \in BOOLEAN : sock' = [sock EXCEPT ![thr[t].fd].last = more]
  /\ Return(t, 1)
  /\ UNCHANGED <<mbox, conn, tcp, tp, www, net, resets, fault>>

-----------------------------------------------------------------------------
(* netconn_write.                                                          *)

WriteReturns(t) ==
  thr' = [thr EXCEPT ![t].pc = thr[t].ret, ![t].ret = "", ![t].c = NoConn,
                     ![t].size = 0, ![t].len = 0, ![t].got = "null"]

\* mutant: conn->state is not set.
NetconnWriteStateless(t) ==
  LET c == sock[thr[t].fd].conn IN
  /\ thr[t].pc = "send"
  /\ IF conn[c].err # "ok"
       THEN WriteReturns(t) /\ UNCHANGED conn
       ELSE /\ conn' = [conn EXCEPT ![c].sem = IF @ = "null" THEN "0" ELSE @]
            /\ thr' = [thr EXCEPT ![t].pc = "loop", ![t].c = c, ![t].size = MaxSize]
  /\ UNCHANGED <<mbox, tcp, sock, tp, www, net, resets, fault>>

\* lwip_send: the entry of netconn_write.
NetconnWrite(t) ==
  LET c == sock[thr[t].fd].conn IN
  /\ thr[t].pc = "send"
  /\ IF conn[c].err # "ok"
       THEN WriteReturns(t) /\ UNCHANGED conn
       ELSE /\ conn' = [conn EXCEPT ![c].sem = IF @ = "null" THEN "0" ELSE @,
                                    ![c].state = "write"]
            /\ thr' = [thr EXCEPT ![t].pc = "loop", ![t].c = c, ![t].size = MaxSize]
  /\ UNCHANGED <<mbox, tcp, sock, tp, www, net, resets, fault>>

\* The head of the loop, up to the wait for room in the send buffer.
WriteLoop(t) ==
  LET c == thr[t].c IN
  /\ thr[t].pc = "loop"
  /\ IF conn[c].err # "ok" \/ thr[t].size = 0
       THEN WriteReturns(t) /\ UNCHANGED fault
       ELSE IF conn[c].pcb = "null"
              THEN fault' = "NULL pcb" /\ UNCHANGED thr
              ELSE Goto(t, IF tcp[c].room = 0 THEN "full" ELSE "chunk") /\ UNCHANGED fault
  /\ UNCHANGED <<mbox, conn, tcp, sock, tp, www, net, resets>>

SemWait(t, from, to) ==
  LET c == thr[t].c IN
  /\ thr[t].pc = from
  /\ conn[c].sem = "1"
  /\ conn' = [conn EXCEPT ![c].sem = "0"]
  /\ Goto(t, to)
  /\ UNCHANGED <<mbox, tcp, sock, tp, www, net, resets, fault>>

\* The error exit of netconn_write: the semaphore is freed.
BigTrouble(t) ==
  /\ conn' = [conn EXCEPT ![thr[t].c].state = "none", ![thr[t].c].sem = "null"]
  /\ WriteReturns(t)

\* After the wait: the error test, and the length of this chunk, which may be 0.
WriteWoken(t) ==
  /\ thr[t].pc = "woken"
  /\ IF conn[thr[t].c].err # "ok"
       THEN BigTrouble(t)
       ELSE Goto(t, "chunk") /\ UNCHANGED conn
  /\ UNCHANGED <<mbox, tcp, sock, tp, www, net, resets, fault>>

WriteChunk(t) ==
  LET c == thr[t].c
      n == Min({thr[t].size, tcp[c].room}) IN
  /\ thr[t].pc = "chunk"
  /\ IF conn[c].pcb = "null"
       THEN fault' = "NULL pcb" /\ UNCHANGED <<mbox, thr>>
       ELSE \/ /\ Post(Transport, Msg("api", "write", c, n))
               /\ thr' = [FetchFrom(t, Ans(c), "wrote") EXCEPT ![t].len = n]
            \/ fault' = "request lost" /\ UNCHANGED <<mbox, thr>>
  /\ UNCHANGED <<conn, tcp, sock, tp, www, net, resets>>

\* The answer.  ERR_MEM is cleared, in a step of its own, and waited out.
WriteAnswered(t) ==
  LET c == thr[t].c IN
  /\ thr[t].pc = "wrote"
  /\ fault' = IF conn[c].err = "ok" /\ thr[t].got = "refused" THEN "refused data skipped" ELSE "none"
  /\ CASE conn[c].err = "ok" ->
            /\ thr' = [thr EXCEPT ![t].pc = "loop", ![t].size = @ - thr[t].len, ![t].len = 0]
            /\ UNCHANGED conn
       [] conn[c].err = "mem" -> Goto(t, "clear") /\ UNCHANGED conn
       [] OTHER -> BigTrouble(t)
  /\ UNCHANGED <<mbox, tcp, sock, tp, www, net, resets>>

WriteClear(t) ==
  /\ thr[t].pc = "clear"
  /\ conn' = [conn EXCEPT ![thr[t].c].err = "ok"]
  /\ thr' = [thr EXCEPT ![t].pc = "nomem", ![t].len = 0, ![t].got = "null"]
  /\ UNCHANGED <<mbox, tcp, sock, tp, www, net, resets, fault>>

-----------------------------------------------------------------------------
(* lwip_close and netconn_delete.                                          *)

LwipClose(t) ==
  /\ thr[t].pc = "close"
  /\ thr' = [thr EXCEPT ![t].pc = "del", ![t].c = sock[thr[t].fd].conn,
                        ![t].ret = IF t \in Pool THEN "idle" ELSE "off"]
  /\ UNCHANGED <<mbox, conn, tcp, sock, tp, www, net, resets, fault>>

NetconnDelete(t) ==
  /\ thr[t].pc = "del"
  /\ Call(t, "delconn", thr[t].c, 0, "drain")
  /\ UNCHANGED <<conn, tcp, sock, tp, www, net, resets>>

\* recvmbox is emptied with a timed fetch that ends when nothing came for 1 ms.
DeleteDrain(t) ==
  LET b == Recv(thr[t].c) IN
  /\ thr[t].pc = "drain"
  /\ IF mbox[b].q # <<>>
       THEN mbox' = [mbox EXCEPT ![b].q = Tail(@)] /\ UNCHANGED thr
       ELSE /\ mbox' = [mbox EXCEPT ![b] = IF @.st = "live" THEN FreedBox ELSE @]
            /\ Goto(t, "free")
  /\ UNCHANGED <<conn, tcp, sock, tp, www, net, resets, fault>>

DeleteFree(t) ==
  LET c == thr[t].c i == thr[t].fd IN
  /\ thr[t].pc = "free"
  /\ mbox' = [mbox EXCEPT ![Ans(c)] = FreedBox]
  /\ conn' = [conn EXCEPT ![c].st = "freed", ![c].sem = "null"]
  /\ sock' = IF i = NoFd THEN sock
             ELSE [sock EXCEPT ![i] = [conn |-> NoConn, last |-> FALSE]]
  /\ thr' = [thr EXCEPT ![t] = [Thread(thr[t].ret) EXCEPT !.c = IF t \in Servers THEN c ELSE NoConn]]
  /\ UNCHANGED <<tcp, tp, www, net, resets, fault>>

-----------------------------------------------------------------------------
(* api_msg.c: the requests, answered by the transport thread.              *)

Rest == [pc |-> "test", m |-> Msg("none", "none", NoConn, 0), box |-> FALSE]

\* Answer(c): sys_mbox_post(msg->conn->mbox, NULL).
Answer(c) == Post(Ans(c), "null")

\* tcp_bind refuses a port that a listening or active pcb already has.
TcpBind == {"ok", "use"}

DoBind(m) ==
  /\ m.op = "bind"
  /\ \E e \in TcpBind :
        conn' = [conn EXCEPT ![m.c].pcb = "open", ![m.c].err = e]
  /\ Answer(m.c)
  /\ UNCHANGED tcp

\* mutant: a failed tcp_listen leaves without an answer.
DoListenSilent(m) ==
  /\ m.op = "listen"
  /\ \/ conn' = [conn EXCEPT ![m.c].pcb = "listen"] /\ Answer(m.c)
     \/ /\ conn' = [conn EXCEPT ![m.c].pcb = "null", ![m.c].err = "mem"]
        /\ UNCHANGED <<mbox, fault>>
  /\ UNCHANGED tcp

\* tcp_listen: the pcb after it is moved to another pool, null when that is empty.
TcpListen == {"listen", "null"}

DoListen(m) ==
  /\ m.op = "listen"
  /\ \E p \in TcpListen :
        conn' = [conn EXCEPT ![m.c].pcb = p, ![m.c].err = IF p = "null" THEN "mem" ELSE @]
  /\ Answer(m.c)
  /\ UNCHANGED tcp

DoRecv(m) ==
  /\ m.op = "recv"
  /\ Answer(m.c)
  /\ UNCHANGED <<conn, tcp>>

\* tcp_write takes the whole chunk, or refuses it with ERR_MEM.  The caller
\* learns that from conn->err: that the answer says so too is history.
DoWrite(m) ==
  LET c == m.c IN
  /\ m.op = "write"
  /\ IF conn[c].pcb = "null" THEN Answer(c) /\ UNCHANGED <<conn, tcp>>
     ELSE \/ /\ conn' = [conn EXCEPT ![c].err = "ok"]
             /\ tcp' = [tcp EXCEPT ![c].room = @ - m.len]
             /\ Answer(c)
          \/ /\ m.len > 0
             /\ conn' = [conn EXCEPT ![c].err = "mem"]
             /\ Post(Ans(c), "refused")
             /\ UNCHANGED tcp

\* mutant: the callbacks stay.
DoDelconnKeeps(m) ==
  /\ m.op = "delconn"
  /\ Answer(m.c)
  /\ UNCHANGED <<conn, tcp>>

\* The callbacks are taken off before the control block is closed or aborted.
DoDelconn(m) ==
  LET c == m.c IN
  /\ m.op = "delconn"
  /\ tcp' = IF conn[c].pcb = "null" THEN tcp ELSE [tcp EXCEPT ![c].cb = FALSE]
  /\ Answer(c)
  /\ UNCHANGED conn

\* api_msg_input: the table of handlers.  The request lives in the caller's
\* message, which it frees with its netconn.
ApiMsgInput ==
  LET m == tp.m IN
  /\ tp.pc = "run" /\ m.k = "api"
  /\ tp' = Rest
  /\ IF conn[m.c].st = "freed"
       THEN fault' = "freed netconn" /\ UNCHANGED <<mbox, conn, tcp>>
       ELSE DoBind(m) \/ DoListen(m) \/ DoRecv(m) \/ DoWrite(m) \/ DoDelconn(m)
  /\ UNCHANGED <<sock, thr, www, net, resets>>

-----------------------------------------------------------------------------
(* api_msg.c: the callbacks of the stack, in the transport thread.         *)

\* The peer of a connection that is gone sends nothing more.
Silent(c) == [net EXCEPT ![c].syn = FALSE, ![c].data = 0, ![c].fin = FALSE]

\* accept_function, on the listener of the connection's port.  conn->state is
\* not set; a failed allocation makes the stack drop the connection.
AcceptFunction(c) ==
  LET mb == [mbox EXCEPT ![Recv(c)] = NewBox, ![Ans(c)] = NewBox] IN
  \/ /\ conn[net[c].port].pcb = "listen"
     /\ \E s \in {"none", "write"} :
           conn' = [conn EXCEPT ![c] = [st |-> "live", err |-> "ok", pcb |-> "open",
                                        sem |-> "0", state |-> s]]
     /\ tcp' = [tcp EXCEPT ![c] = [room |-> SndBuf, cb |-> TRUE, gotfin |-> FALSE]]
     /\ mbox' = PostOn(mb, Accept(net[c].port), c)
     /\ fault' = PostFault(mb, Accept(net[c].port))
     /\ UNCHANGED net
  \/ /\ net' = Silent(c)
     /\ UNCHANGED <<mbox, conn, tcp, fault>>

\* recv_tcp, for a buffer or for NULL when the peer has closed its end: the
\* test of recvmbox, which the reader may free, and conn->err,
RecvTcp(m) ==
  LET c == m.c IN
  CASE conn[c].st = "freed" ->
         fault' = "freed netconn" /\ tp' = Rest /\ UNCHANGED conn
    [] conn[c].st # "freed" /\ mbox[Recv(c)].st = "null" ->
         tp' = Rest /\ UNCHANGED <<conn, fault>>
    [] OTHER ->
         /\ conn' = [conn EXCEPT ![c].err = "ok"]
         /\ tp' = [tp EXCEPT !.pc = "give"]
         /\ UNCHANGED fault

\* and the post.
RecvGive ==
  /\ tp.pc = "give"
  /\ Post(Recv(tp.m.c), IF tp.m.op = "fin" THEN "null" ELSE "data")
  /\ tp' = Rest
  /\ UNCHANGED <<conn, tcp, sock, thr, www, net, resets>>

\* sent_tcp.
SentTcp(c) ==
  IF tcp[c].cb /\ conn[c].st = "freed"
    THEN fault' = "freed netconn" /\ UNCHANGED conn
    ELSE /\ conn' = IF tcp[c].cb THEN [conn EXCEPT ![c].sem = Signal(@)] ELSE conn
         /\ UNCHANGED fault

\* tcp_input for a segment of connection c, as far as the callbacks see it.
\* TF_GOT_FIN is never cleared: every later segment ends with recv(NULL) again.
TcpInput ==
  LET m == tp.m c == tp.m.c IN
  /\ tp.pc = "run" /\ m.k = "in" /\ m.op # "rst"
  /\ CASE m.op = "syn" -> AcceptFunction(c) /\ tp' = Rest
       [] m.op = "ack" ->
            /\ SentTcp(c)
            /\ tcp' = [tcp EXCEPT ![c].room = SndBuf]
            /\ tp' = IF tcp[c].cb /\ tcp[c].gotfin THEN [tp EXCEPT !.m.op = "fin"] ELSE Rest
            /\ UNCHANGED <<mbox, net>>
       [] m.op \in {"data", "fin"} ->
            /\ tcp' = [tcp EXCEPT ![c].gotfin = @ \/ m.op = "fin"]
            /\ IF tcp[c].cb THEN RecvTcp(m) ELSE tp' = Rest /\ UNCHANGED <<conn, fault>>
            /\ UNCHANGED <<mbox, net>>
  /\ UNCHANGED <<sock, thr, www, resets>>

\* A reset, or the retransmission limit of tcp_slowtmr, ends in err_tcp, whose
\* writes the application can see one by one: conn->pcb.tcp = NULL,
ErrPcb(c) ==
  /\ resets' = IF tcp[c].cb THEN resets \cup {c} ELSE resets
  /\ net' = Silent(c)
  /\ tcp' = [tcp EXCEPT ![c].cb = FALSE]
  /\ IF ~tcp[c].cb
       THEN tp' = Rest /\ UNCHANGED <<conn, fault>>
       ELSE IF conn[c].st = "freed"
              THEN fault' = "freed netconn" /\ tp' = Rest /\ UNCHANGED conn
              ELSE /\ conn' = [conn EXCEPT ![c].pcb = "null"]
                   /\ tp' = [Rest EXCEPT !.pc = "err", !.m = Msg("in", "rst", c, 0)]
                   /\ UNCHANGED fault
  /\ UNCHANGED <<mbox, sock, thr, www>>

TcpReset == tp.pc = "run" /\ tp.m.op = "rst" /\ ErrPcb(tp.m.c)

TcpGivesUp(c) ==
  /\ tp.pc = "asleep" /\ tcp[c].cb /\ tcp[c].room < SndBuf
  /\ Cardinality(resets) < MaxResets
  /\ ErrPcb(c)

\* err_tcp: conn->err, and the test of recvmbox,
ErrErr ==
  LET c == tp.m.c IN
  /\ tp.pc = "err"
  /\ IF conn[c].st = "freed"
       THEN fault' = "freed netconn" /\ tp' = Rest /\ UNCHANGED conn
       ELSE /\ conn' = [conn EXCEPT ![c].err = "abrt"]
            /\ tp' = [tp EXCEPT !.pc = "tell", !.box = mbox[Recv(c)].st = "live"]
            /\ UNCHANGED fault
  /\ UNCHANGED <<mbox, tcp, sock, thr, www, net, resets>>

\* err_tcp: NULL to recvmbox and to conn->mbox, whether or not a request is
\* waiting for an answer, and a signal to the semaphore.
ErrTell ==
  LET c == tp.m.c
      f == IF tp.box THEN PostFault(mbox, Recv(c)) ELSE "none"
      mb == IF tp.box THEN PostOn(mbox, Recv(c), "null") ELSE mbox IN
  /\ tp.pc = "tell"
  /\ tp' = Rest
  /\ IF conn[c].st = "freed" THEN fault' = "freed netconn" /\ UNCHANGED <<mbox, conn>>
     ELSE /\ fault' = IF f = "none" THEN PostFault(mb, Ans(c)) ELSE f
          /\ mbox' = PostOn(mb, Ans(c), "null")
          /\ conn' = [conn EXCEPT ![c].sem = Signal(@)]
  /\ UNCHANGED <<tcp, sock, thr, www, net, resets>>

-----------------------------------------------------------------------------
(* transport_subsys.c: the transport thread.                               *)

\* sys_mbox_fetch of the transport mailbox.
TransportTest ==
  /\ tp.pc = "test"
  /\ IF mbox[Transport].q # <<>>
       THEN /\ tp' = [Rest EXCEPT !.pc = "run", !.m = Head(mbox[Transport].q)]
            /\ mbox' = [mbox EXCEPT ![Transport].q = Tail(@)]
       ELSE tp' = [Rest EXCEPT !.pc = "asleep"] /\ UNCHANGED mbox
  /\ UNCHANGED <<conn, tcp, sock, thr, www, net, resets, fault>>

TransportWake ==
  /\ tp.pc = "asleep" /\ mbox[Transport].mail
  /\ mbox' = [mbox EXCEPT ![Transport].mail = FALSE]
  /\ tp' = Rest
  /\ UNCHANGED <<conn, tcp, sock, thr, www, net, resets, fault>>

\* The fetch times out: transport_tcp_timer runs tcp_tmr, which polls.
PollTcp(c) ==
  IF conn[c].state = "write" THEN [conn[c] EXCEPT !.sem = Signal(@)] ELSE conn[c]

TransportTimeout ==
  LET on == {c \in Conns : tcp[c].cb} IN
  /\ tp.pc = "asleep" /\ tp' = Rest
  /\ fault' = IF \E c \in on : conn[c].st = "freed" THEN "freed netconn" ELSE "none"
  /\ conn' = [c \in Netconns |-> IF c \in on THEN PollTcp(c) ELSE conn[c]]
  /\ UNCHANGED <<mbox, tcp, sock, thr, www, net, resets>>

\* sr_transport_input and tcp_msg_input, in the packet thread.  Segments of
\* one connection arrive in the order in which Lwtcp hands them on; without a
\* free message the segment is dropped, and the peer sends it again.
Queued(c, op) == \E i \in 1..Len(mbox[Transport].q) : mbox[Transport].q[i] = Msg("in", op, c, 0)

\* Bound: peers connect once one server, the one with the first slot, listens
\* and the other has given up.  The two then meet in the socket table only
\* while they start.
Started == \E s \in Servers : /\ thr[s].pc = "asleep" /\ sock[0].conn = s
                             /\ \A r \in Servers \ {s} : thr[r].pc = "stop"

TcpMsgInput(c, op) ==
  /\ CASE op = "syn"  -> net[c].syn /\ Started
       [] op = "data" -> ~net[c].syn /\ net[c].data > 0
       [] op = "fin"  -> ~net[c].syn /\ net[c].data = 0 /\ net[c].fin
       [] op = "ack"  -> tcp[c].room < SndBuf /\ ~Queued(c, "ack")
                         /\ ~(tp.pc = "run" /\ tp.m = Msg("in", "ack", c, 0))
       [] op = "rst"  -> /\ tcp[c].cb /\ ~Queued(c, "rst")
                         /\ ~(tp.pc # "test" /\ tp.m = Msg("in", "rst", c, 0))
                         /\ Cardinality(resets) < MaxResets
  /\ net' = CASE op = "syn" -> [net EXCEPT ![c].syn = FALSE]
              [] op = "data" -> [net EXCEPT ![c].data = @ - 1]
              [] op = "fin" -> [net EXCEPT ![c].fin = FALSE]
              [] OTHER -> net
  /\ Post(Transport, Msg("in", op, c, 0))
  /\ UNCHANGED <<conn, tcp, sock, thr, tp, www, resets>>

-----------------------------------------------------------------------------
Init ==
  /\ mbox = [b \in Boxes |-> IF b = Transport THEN NewBox ELSE NullBox]
  /\ conn = [c \in Netconns |-> [FreshNetconn EXCEPT !.st = "none"]]
  /\ tcp = [c \in Conns |-> [room |-> SndBuf, cb |-> FALSE, gotfin |-> FALSE]]
  /\ \E n \in 2..NumSockets : sock = [i \in 0..n - 1 |-> [conn |-> NoConn, last |-> FALSE]]
  /\ thr = [t \in Threads |-> Thread(CASE t \in Servers -> "socket"
                                       [] t \in Conns -> "off"
                                       [] OTHER -> "idle")]
  /\ tp = Rest
  /\ www = <<>>
  /\ net \in [Conns -> [port : Servers, syn : {TRUE}, data : {MaxData}, fin : {TRUE}]]
  /\ resets = {}
  /\ fault = "none"

ServerStep(s) ==
  \/ LwipSocket(s) \/ NetconnBind(s) \/ Bound(s) \/ NetconnListen(s)
  \/ NetconnAccept(s) \/ NetconnPeer(s)

ThreadStep(t) ==
  \/ FetchTest(t) \/ FetchWake(t) \/ AllocFind(t) \/ AllocTake(t)
  \/ RecvLast(t) \/ NetconnRecv(t) \/ RecvTaken(t) \/ RecvDone(t)
  \/ NetconnWrite(t) \/ WriteLoop(t) \/ SemWait(t, "full", "woken")
  \/ WriteWoken(t) \/ WriteChunk(t) \/ WriteAnswered(t) \/ WriteClear(t)
  \/ SemWait(t, "nomem", "loop")
  \/ LwipClose(t) \/ NetconnDelete(t) \/ DeleteDrain(t) \/ DeleteFree(t)

TransportStep ==
  \/ TransportTest \/ TransportWake \/ TransportTimeout \/ ApiMsgInput
  \/ TcpInput \/ RecvGive \/ TcpReset \/ ErrErr \/ ErrTell
  \/ \E c \in Conns : TcpGivesUp(c)

Next ==
  /\ fault = "none"
  /\ \/ \E s \in Servers : ServerStep(s)
     \/ \E t \in Threads : ThreadStep(t)
     \/ SpawnCli \/ QueueWww
     \/ \E p \in Pool : ServeNext(p)
     \/ TransportStep
     \/ \E c \in Conns, op \in {"syn", "data", "fin", "ack", "rst"} : TcpMsgInput(c, op)

Spec == Init /\ [][Next]_vars

-----------------------------------------------------------------------------
Calling(c) == {t \in Threads : thr[t].pc \in {"fetch", "asleep"} /\ thr[t].on = Ans(c)}
Requests(c) == {i \in 1..Len(mbox[Transport].q) :
                  mbox[Transport].q[i].k = "api" /\ mbox[Transport].q[i].c = c}
InHand(c) == IF tp.pc = "run" /\ tp.m.k = "api" /\ tp.m.c = c THEN 1 ELSE 0

\* Every thread that sleeps on the answer mailbox of a netconn has its request
\* on the way or its answer in the mailbox, and while the connection has not
\* been reset there is exactly one of them (api_lib.c's calls against
\* api_msg.c's handlers: each handler answers once on every path).
OneAnswerPerCall ==
  fault = "none" =>
    \A c \in Netconns :
      LET open == Cardinality(Requests(c)) + InHand(c) + Len(mbox[Ans(c)].q)
          callers == Cardinality(Calling(c)) IN
      /\ open >= callers
      /\ c \notin resets => open = callers

\* No thread sleeps through a message: whoever sleeps on a mailbox that is not
\* empty has a count on its mail semaphore (sys_mbox_post signals only when
\* the ring was empty, sys_arch_mbox_fetch tests the ring before it sleeps).
NoLostMail ==
  fault = "none" =>
    /\ \A t \in Threads :
         thr[t].pc = "asleep" /\ mbox[thr[t].on].q # <<>> => mbox[thr[t].on].mail
    /\ tp.pc = "asleep" /\ mbox[Transport].q # <<>> => mbox[Transport].mail

\* A writer that waits for room in the send buffer can still be woken: its
\* semaphore is signalled, or the control block still calls back (sent_tcp,
\* poll_tcp), or err_tcp is on its way to the signal.
WriterCanBeWoken ==
  fault = "none" =>
    \A t \in Threads :
      thr[t].pc \in {"full", "nomem"} =>
        LET c == thr[t].c IN
        \/ conn[c].sem = "1"
        \/ tcp[c].cb /\ conn[c].state = "write"
        \/ tp.pc \in {"err", "tell"} /\ tp.m.c = c

\* As long as no connection has been reset, no thread follows a NULL control
\* block and nobody touches a netconn that has been freed (netconn_delete
\* frees it once do_delconn has taken the callbacks off); and only a peer that
\* has ended its stream makes recv_tcp or err_tcp post to a freed mailbox.
FaultsNeedTheEnd ==
  /\ resets = {} => fault \notin {"NULL pcb", "freed netconn"}
  /\ fault = "freed mailbox" => \E c \in Conns : c \in resets \/ tcp[c].gotfin

TypeOK ==
  /\ DOMAIN mbox = Boxes
  /\ \A b \in Boxes : /\ mbox[b].st \in {"null", "live", "freed"}
                      /\ mbox[b].mail \in BOOLEAN
                      /\ fault = "none" => Len(mbox[b].q) < MboxSize
  /\ conn \in [Netconns -> [st : {"none", "live", "freed"}, err : {"ok", "mem", "use", "conn", "abrt"},
                            pcb : {"null", "open", "listen"}, sem : {"null", "0", "1"},
                            state : {"none", "write"}]]
  /\ tcp \in [Conns -> [room : 0..SndBuf, cb : BOOLEAN, gotfin : BOOLEAN]]
  /\ DOMAIN sock \subseteq 0..NumSockets - 1
  /\ \A i \in DOMAIN sock : sock[i].conn \in Netconns \cup {NoConn} /\ sock[i].last \in BOOLEAN
  /\ DOMAIN thr = Threads
  /\ \A t \in Threads : thr[t].fd \in 0..NumSockets /\ thr[t].size \in 0..MaxSize
  /\ www \in Seq(0..NumSockets)
=============================================================================
