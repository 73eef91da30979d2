---------------------------------- MODULE Lwtcp ----------------------------------
(* The TCP of SCONE's user-level stack (lwtcp/tcp.c, tcp_input.c, tcp_output.c):   *)
(* a client and a listening server, both running this code, joined by a network   *)
(* that loses, delays, reorders and duplicates segments.  One thread runs each    *)
(* stack, so a handler - an arriving segment, a timer, a call of the application   *)
(* (api_msg.c) - is one action, and is written as a function of the connection's   *)
(* protocol control block (pcb); the segments it sends are collected in `out'.     *)
(*                                                                                 *)
(* Abstracted: addresses and ports (one connection), checksums, round-trip         *)
(* estimates and the clock (a timeout may fire whenever its condition holds),      *)
(* pbufs (a segment keeps how many it chains).  Every new ACK opens the            *)
(* congestion window to two segments or more, and the send window is at most two:  *)
(* cwnd is 1, one segment, or no limit.                                            *)
EXTENDS Integers, Sequences, SequencesExt, FiniteSetsExt

CONSTANTS SeqSpace,       \* the size of the sequence number space (2^32)
          Iss,          \* [Ends -> 0..SeqSpace-1], the initial sequence numbers
          TcpWnd,       \* TCP_WND
          TcpMss,       \* TCP_MSS
          TcpSndBuf,    \* TCP_SND_BUF
          BufMod,       \* the range of the 16-bit snd_buf
          SndQueueLen,  \* TCP_SND_QUEUELEN
          MaxRtx,       \* TCP_MAXRTX, TCP_SYNMAXRTX
          MaxBytes,     \* [Ends -> Nat], what each application writes
          Calls,        \* [Ends -> SUBSET {"close", "delete"}], how it ends the connection
          MaxNet,       \* segments in flight; the network loses what is sent on top
          MaxConns,     \* connections the server's pcb pool allows
          MaxMishaps    \* segments lost or duplicated and timeouts tcp_slowtmr acts upon

VARIABLES conn,         \* [Ends -> Conn], the pcb and what the application saw of it
          net,          \* the set of segments in flight
          spawned,      \* pcbs created by the listener so far
          mishaps       \* losses, duplications and timeouts so far

tcpVars == <<conn, net, spawned, mishaps>>

Ends == {"client", "server"}
Peer(e) == IF e = "client" THEN "server" ELSE "client"
Seqs == 0 .. SeqSpace - 1

ASSUME LwtcpAssumption ==
  /\ SeqSpace \in Nat /\ TcpMss \in Nat \ {0} /\ TcpWnd \in TcpMss .. 2 * TcpMss
  /\ TcpSndBuf \in Nat \ {0} /\ 2 * TcpSndBuf + 4 < SeqSpace \div 2
  /\ BufMod \in Nat /\ BufMod > TcpSndBuf
  /\ Iss \in [Ends -> Seqs] /\ MaxBytes \in [Ends -> Nat]
  /\ MaxConns \in Nat /\ Calls \in [Ends -> SUBSET {"close", "delete"}]

Plus(a, b) == (a + b) % SeqSpace
Diff(a, b) == (a - b) % SeqSpace
SeqLt(a, b) == Diff(a, b) >= SeqSpace \div 2
SeqLeq(a, b) == a = b \/ SeqLt(a, b)

(* A queued segment: its header fields that are fixed when it is queued, and the   *)
(* number of pbufs it holds.  On the wire it also has an ACK, a window and a       *)
(* destination.                                                                     *)
Segs == [seq : Seqs, data : Seq(Nat), syn : BOOLEAN, fin : BOOLEAN, ack : BOOLEAN, n : Nat]
TcpLen(s) == Len(s.data) + IF s.syn \/ s.fin THEN 1 ELSE 0
SegEnd(s) == Plus(s.seq, TcpLen(s))

States == {"CLOSED", "SYN_SENT", "SYN_RCVD", "ESTABLISHED", "FIN_WAIT_1", "FIN_WAIT_2",
           "CLOSE_WAIT", "CLOSING", "LAST_ACK", "TIME_WAIT"}
Active == States \ {"CLOSED", "TIME_WAIT"}

(* tcp_new.  `attached' is that the application's callbacks are set, `got', `held', *)
(* `eof', `err' what they told it, `written' and `closing' what it asked for.       *)
TcpNew(iss) ==
  [state |-> "CLOSED", rcv_nxt |-> 0, rcv_wnd |-> TcpWnd, delay |-> FALSE, gotfin |-> FALSE,
   lastack |-> iss, snd_nxt |-> iss, snd_max |-> iss, snd_lbb |-> iss, snd_wnd |-> 0,
   snd_wl1 |-> 0, snd_wl2 |-> iss, cwnd |-> 1, dupacks |-> 0, infr |-> FALSE, nrtx |-> 0,
   snd_buf |-> TcpSndBuf, qlen |-> 0, unsent |-> <<>>, unacked |-> <<>>, ooseq |-> <<>>,
   pend |-> <<>>, out |-> {}, attached |-> FALSE, got |-> <<>>, held |-> 0, eof |-> FALSE,
   err |-> FALSE, written |-> 0, closing |-> FALSE]

(* The length of the longest prefix of q all of whose places are in `at'.          *)
Lead(q, at) == Max({k \in 0 .. Len(q) : 1 .. k \subseteq at})
Tail1(q, k) == SubSeq(q, k + 1, Len(q))

--------------------------------------------------------------------------------
(* Output.                                                                          *)

Wire(c, s, w) == [seq |-> s.seq, data |-> s.data, syn |-> s.syn, fin |-> s.fin, rst |-> FALSE,
                  ack |-> s.ack, ackno |-> c.rcv_nxt, wnd |-> w]
PureAck(c) == [seq |-> c.snd_nxt, data |-> <<>>, syn |-> FALSE, fin |-> FALSE, rst |-> FALSE,
               ack |-> TRUE, ackno |-> c.rcv_nxt, wnd |-> c.rcv_wnd]
TcpRst(seq, ackno) == [seq |-> seq, data |-> <<>>, syn |-> FALSE, fin |-> FALSE, rst |-> TRUE,
                       ack |-> TRUE, ackno |-> ackno, wnd |-> 0]
Send(c, s) == [c EXCEPT !.out = @ \cup {s}]

(* tcp_ack_now: tcp_output with TF_ACK_NOW sends an ACK and nothing else.          *)
AckNow(c) == Send([c EXCEPT !.delay = FALSE], PureAck(c))
(* tcp_ack: every second segment is acknowledged at once.                           *)
Ack(c) == IF c.delay THEN AckNow(c) ELSE [c EXCEPT !.delay = TRUE]

EffWnd(c) == Min({c.snd_wnd, c.cwnd})
InWnd(c, s) == (Diff(s.seq, c.lastack) + Len(s.data)) % SeqSpace <= EffWnd(c)

(* mutant: a segment that is sent replaces the unacknowledged ones.                 *)
OutputForgets(c) ==
  LET k == Lead(c.unsent, {i \in DOMAIN c.unsent : InWnd(c, c.unsent[i])})
      sent == [i \in 1 .. k |-> [c.unsent[i] EXCEPT !.ack = @ \/ c.state # "SYN_SENT"]]
  IN IF k = 0 THEN c
     ELSE [c EXCEPT !.unsent = Tail1(@, k),
                    !.unacked = sent,
                    !.snd_nxt = SegEnd(sent[k]),
                    !.snd_max = IF SeqLt(@, SegEnd(sent[k])) THEN SegEnd(sent[k]) ELSE @,
                    !.delay = @ /\ c.state = "SYN_SENT",
                    !.out = @ \cup {Wire(c, sent[i], c.rcv_wnd) : i \in 1 .. k}]

(* tcp_output: send the unsent segments that fit the windows.                       *)
Output(c) ==
  LET k == Lead(c.unsent, {i \in DOMAIN c.unsent : InWnd(c, c.unsent[i])})
      sent == [i \in 1 .. k |-> [c.unsent[i] EXCEPT !.ack = @ \/ c.state # "SYN_SENT"]]
      w == IF c.rcv_wnd < TcpMss THEN 0 ELSE c.rcv_wnd
  IN IF k = 0 THEN c
     ELSE [c EXCEPT !.unsent = Tail1(@, k),
                    !.unacked = @ \o sent,
                    !.snd_nxt = SegEnd(sent[k]),
                    !.snd_max = IF SeqLt(@, SegEnd(sent[k])) THEN SegEnd(sent[k]) ELSE @,
                    !.delay = @ /\ c.state = "SYN_SENT",
                    !.out = @ \cup {Wire(c, sent[i], w) : i \in 1 .. k}]

CanEnqueue(c, data) == Len(data) <= c.snd_buf /\ c.qlen < SndQueueLen

(* tcp_enqueue, of a write of at most one segment: data joins the last unsent      *)
(* segment if it still fits there.                                                  *)
TcpEnqueue(c, data, syn, fin, ack) ==
  LET seg == [seq |-> c.snd_lbb, data |-> data, syn |-> syn, fin |-> fin, ack |-> ack, n |-> 1]
      k == Len(c.unsent)
      last == c.unsent[k]
      joins == /\ k > 0 /\ ~syn /\ ~fin /\ ~last.syn /\ ~last.fin
               /\ Len(last.data) + Len(data) <= TcpMss
      joined == [last EXCEPT !.data = @ \o data, !.n = @ + 1]
  IN [c EXCEPT !.unsent = IF joins THEN [@ EXCEPT ![k] = joined] ELSE Append(@, seg),
               !.snd_lbb = Plus(@, TcpLen(seg)),
               !.snd_buf = (@ - TcpLen(seg)) % BufMod,
               !.qlen = @ + 1]

(* tcp_rexmit_seg.  It is counted only if the windows let it be sent.               *)
RexmitSeg(c, s) ==
  IF InWnd(c, s) THEN Send([c EXCEPT !.nrtx = Min({@ + 1, MaxRtx + 1})], Wire(c, s, c.rcv_wnd)) ELSE c

(* The pcb is freed; what the application saw of it stays.                          *)
FreedPcb(c) == [TcpNew(0) EXCEPT !.out = c.out, !.got = c.got, !.eof = c.eof, !.err = c.err,
                              !.written = c.written, !.closing = c.closing]
Errf(c) == IF c.attached THEN [c EXCEPT !.err = TRUE] ELSE c

(* tcp_pcb_remove: a delayed ACK is sent first.                                     *)
PcbRemove(c) == FreedPcb(IF c.delay /\ c.state # "TIME_WAIT" THEN AckNow(c) ELSE c)
(* tcp_abort                                                                        *)
Abort(c) == IF c.state = "TIME_WAIT" THEN PcbRemove(c)
            ELSE Send(PcbRemove(Errf(c)), TcpRst(c.snd_nxt, c.rcv_nxt))
(* tcp_pcb_purge, TCP_RMV, TCP_REG: the pcb moves to the TIME-WAIT list.            *)
ToTimeWait(c) == [AckNow(c) EXCEPT !.state = "TIME_WAIT", !.unsent = <<>>, !.unacked = <<>>,
                                   !.ooseq = <<>>]

(* tcp_close fails when its FIN cannot be queued.                                   *)
CloseFails(c) ==
  c.state \in {"SYN_RCVD", "ESTABLISHED", "CLOSE_WAIT"} /\ ~CanEnqueue(c, <<>>)
TcpClose(c) ==
  CASE CloseFails(c) -> c
    [] c.state = "SYN_SENT" -> PcbRemove(c)
    [] c.state \in {"SYN_RCVD", "ESTABLISHED"} /\ ~CloseFails(c) ->
         Output([TcpEnqueue(c, <<>>, FALSE, TRUE, FALSE) EXCEPT !.state = "FIN_WAIT_1"])
    [] c.state = "CLOSE_WAIT" /\ ~CloseFails(c) ->
         Output([TcpEnqueue(c, <<>>, FALSE, TRUE, FALSE) EXCEPT !.state = "LAST_ACK"])
    [] OTHER -> c

--------------------------------------------------------------------------------
(* Input.                                                                           *)

(* tcp_receive, the window update.                                                  *)
UpdateWnd(c, s) ==
  IF \/ SeqLt(c.snd_wl1, s.seq)
     \/ c.snd_wl1 = s.seq /\ SeqLt(c.snd_wl2, s.ackno)
     \/ c.snd_wl2 = s.ackno /\ s.wnd > c.snd_wnd
  THEN [c EXCEPT !.snd_wnd = s.wnd, !.snd_wl1 = s.seq, !.snd_wl2 = s.ackno]
  ELSE c

(* The third duplicate ACK retransmits the first unacknowledged segment; one that  *)
(* comes while TF_INFR is still set adds a segment to cwnd.  Either way cwnd is     *)
(* two segments or more.                                                            *)
DupAck(c) ==
  LET d == [c EXCEPT !.dupacks = Min({3, @ + 1})]
      r == IF d.infr THEN d ELSE RexmitSeg(d, Head(d.unacked))
  IN IF d.dupacks >= 3 /\ d.unacked # <<>>
     THEN [r EXCEPT !.cwnd = TcpWnd, !.infr = TRUE]
     ELSE d

QueueLen(q) ==
  LET len[i \in 0 .. Len(q)] == IF i = 0 THEN 0 ELSE len[i - 1] + q[i].n
  IN len[Len(q)]

(* mutant: the bytes acknowledged are counted from what is unacknowledged now.      *)
NewAckSegments(c, ackno) ==
  LET acked(q) == {i \in DOMAIN q : SeqLeq(SegEnd(q[i]), ackno)}
      u == Lead(c.unsent, acked(c.unsent))
      a == Lead(c.unacked, acked(c.unacked))
  IN [c EXCEPT !.infr = FALSE, !.nrtx = 0, !.dupacks = 0, !.lastack = ackno,
               !.snd_buf = (@ + FoldSeq(LAMBDA s, acc : Len(s.data) + acc, 0,
                                        SubSeq(c.unacked, 1, a))) % BufMod,
               !.cwnd = TcpWnd,
               !.unsent = Tail1(@, u),
               !.unacked = Tail1(@, a),
               !.qlen = @ - QueueLen(SubSeq(c.unsent, 1, u)) - QueueLen(SubSeq(c.unacked, 1, a))]

(* An ACK of new data: acknowledged segments leave both queues; after a            *)
(* retransmission the unsent queue also holds segments that were sent once.         *)
NewAck(c, ackno) ==
  LET acked(q) == {i \in DOMAIN q : SeqLeq(SegEnd(q[i]), ackno)}
      u == Lead(c.unsent, acked(c.unsent))
      a == Lead(c.unacked, acked(c.unacked))
  IN [c EXCEPT !.infr = FALSE, !.nrtx = 0, !.dupacks = 0, !.lastack = ackno,
               !.snd_buf = (@ + Diff(ackno, c.lastack)) % BufMod,
               !.cwnd = TcpWnd,
               !.unsent = Tail1(@, u),
               !.unacked = Tail1(@, a),
               !.qlen = @ - QueueLen(SubSeq(c.unsent, 1, u)) - QueueLen(SubSeq(c.unacked, 1, a)),
               !.snd_nxt = IF u > 0 /\ u < Len(c.unsent) THEN c.unsent[u + 1].seq ELSE @]

ReceiveAck(c, s) ==
  LET w == UpdateWnd(c, s)
  IN CASE ~s.ack -> c
       [] s.ack /\ w.lastack = s.ackno -> DupAck(w)
       [] s.ack /\ SeqLt(w.lastack, s.ackno) /\ SeqLeq(s.ackno, w.snd_max) -> NewAck(w, s.ackno)
       [] OTHER -> w

(* The first edge of a segment that begins before rcv_nxt is cut off.               *)
TrimFront(c, s) ==
  LET off == Diff(c.rcv_nxt, s.seq)
  IN IF SeqLt(s.seq, c.rcv_nxt) /\ SeqLt(c.rcv_nxt, Plus(s.seq, Len(s.data)))
     THEN [s EXCEPT !.seq = c.rcv_nxt, !.data = Tail1(@, off)]
     ELSE s
(* The second edge is cut off at sequence number n.                                 *)
TrimBack(s, n) == IF SeqLt(n, Plus(s.seq, Len(s.data)))
                  THEN [s EXCEPT !.data = SubSeq(@, 1, Diff(n, s.seq))]
                  ELSE s

(* mutant: rcv_nxt stops before what was on the out-of-sequence queue.             *)
InSequenceShort(c, s) ==
  LET t == IF c.ooseq = <<>> THEN s ELSE TrimBack(s, c.ooseq[1].seq)
      more == c.ooseq # <<>> /\ c.ooseq[1].seq = SegEnd(t)
  IN Ack([c EXCEPT !.rcv_nxt = SegEnd(t),
                   !.pend = IF more THEN t.data \o c.ooseq[1].data ELSE t.data,
                   !.gotfin = @ \/ s.fin,
                   !.ooseq = IF more THEN Tail(@) ELSE @])

(* How many segments at the front of the queue q follow t without a gap.            *)
Following(q, t) == Max({j \in 0 .. Len(q) : \A i \in 1 .. j :
                          q[i].seq = IF i = 1 THEN SegEnd(t) ELSE SegEnd(q[i - 1])})
TotalLen(segs) == FoldSeq(LAMBDA x, acc : TcpLen(x) + acc, 0, segs)

(* The segment that was expected, and those of the out-of-sequence queue that      *)
(* follow it.  TF_GOT_FIN is set from the arriving segment's flag.                  *)
InSequence(c, s) ==
  LET t == IF c.ooseq = <<>> THEN s ELSE TrimBack(s, c.ooseq[1].seq)
      k == Following(c.ooseq, t)
      segs == <<t>> \o SubSeq(c.ooseq, 1, k)
  IN Ack([c EXCEPT !.rcv_nxt = SegEnd(segs[k + 1]),
                   !.rcv_wnd = Max({0, @ - TotalLen(segs)}),
                   !.pend = FlattenSeq([i \in 1 .. k + 1 |-> segs[i].data]),
                   !.gotfin = @ \/ s.fin,
                   !.ooseq = Tail1(@, k)])

(* mutant: a FIN that arrives early counts at once.                                 *)
QueueOoseqFin(c, s) ==
  [c EXCEPT !.gotfin = @ \/ s.fin,
            !.ooseq = <<[seq |-> s.seq, data |-> s.data, fin |-> s.fin, syn |-> s.syn]>>]

(* The out-of-sequence queue is kept in order and free of overlaps; of two         *)
(* segments with one sequence number the longer stays.                              *)
QueueOoseq(c, s) ==
  LET q == c.ooseq
      k == Lead(q, {i \in DOMAIN q : SeqLt(q[i].seq, s.seq)})
      seg == [seq |-> s.seq, data |-> s.data, fin |-> s.fin, syn |-> s.syn]
  IN IF k < Len(q) /\ q[k + 1].seq = s.seq
     THEN [c EXCEPT !.ooseq = IF Len(s.data) > Len(q[k + 1].data)
                              THEN [@ EXCEPT ![k + 1] = seg] ELSE @]
     ELSE [c EXCEPT !.ooseq =
             [i \in 1 .. k |-> IF i = k THEN TrimBack(q[i], s.seq) ELSE q[i]]
             \o <<IF k < Len(q) THEN TrimBack(seg, q[k + 1].seq) ELSE seg>>
             \o Tail1(q, k)]

ReceiveData(c, s) ==
  LET t == TrimFront(c, s)
      edge == Plus(c.rcv_nxt, c.rcv_wnd)
  IN CASE TcpLen(s) = 0 -> IF SeqLt(s.seq, c.rcv_nxt) \/ ~SeqLt(s.seq, edge) THEN AckNow(c) ELSE c
       [] TcpLen(s) > 0 /\ t.seq = c.rcv_nxt /\ SeqLt(t.seq, edge) -> InSequence(c, t)
       [] TcpLen(s) > 0 /\ SeqLt(c.rcv_nxt, t.seq) /\ SeqLt(t.seq, edge) -> QueueOoseq(AckNow(c), t)
       [] OTHER -> c

TcpReceive(c, s) == ReceiveData(ReceiveAck(c, s), s)

Established(c, s) ==
  LET r == TcpReceive(c, s)
  IN IF s.fin THEN [AckNow(r) EXCEPT !.state = "CLOSE_WAIT"] ELSE r
FinWait1(c, s) ==
  LET r == TcpReceive(c, s)
      acked == s.ack /\ s.ackno = r.snd_nxt
  IN CASE s.fin /\ acked -> ToTimeWait(r)
       [] s.fin /\ ~acked -> [AckNow(r) EXCEPT !.state = "CLOSING"]
       [] ~s.fin /\ acked -> [r EXCEPT !.state = "FIN_WAIT_2"]
       [] OTHER -> r
FinWait2(c, s) ==
  LET r == TcpReceive(c, s) IN IF s.fin THEN ToTimeWait(r) ELSE r
Closing(c, s) ==
  LET r == TcpReceive(c, s) IN IF s.ack /\ s.ackno = r.snd_nxt THEN ToTimeWait(r) ELSE r
LastAck(c, s) ==
  LET r == TcpReceive(c, s) IN IF s.ack /\ s.ackno = r.snd_nxt THEN PcbRemove(r) ELSE r
TimeWait(c, s) ==
  LET r == IF SeqLt(c.rcv_nxt, SegEnd(s)) THEN [c EXCEPT !.rcv_nxt = SegEnd(s)] ELSE c
  IN IF TcpLen(s) > 0 THEN AckNow(r) ELSE r
SynSent(c, s) ==
  IF s.ack /\ s.syn /\ c.unacked # <<>> /\ s.ackno = Plus(Head(c.unacked).seq, 1)
  THEN Ack([c EXCEPT !.rcv_nxt = Plus(s.seq, 1), !.lastack = s.ackno, !.rcv_wnd = s.wnd,
                     !.state = "ESTABLISHED", !.cwnd = TcpMss, !.qlen = @ - 1,
                     !.unacked = Tail(@)])
  ELSE c
(* accept_function takes the connection, or it is aborted.                          *)
SynRcvd(c, s, takes) ==
  CASE ~(s.ack /\ SeqLt(c.lastack, s.ackno) /\ SeqLeq(s.ackno, c.snd_nxt)) -> c
    [] OTHER -> IF takes
                THEN [TcpReceive([c EXCEPT !.state = "ESTABLISHED", !.attached = TRUE], s)
                        EXCEPT !.cwnd = TcpMss]
                ELSE Abort(c)

(* tcp_process, of a segment that is not a RST.                                     *)
TcpProcess(c, s, takes) ==
  CASE c.state = "SYN_SENT" -> SynSent(c, s)
    [] c.state = "SYN_RCVD" -> SynRcvd(c, s, takes)
    [] c.state \in {"ESTABLISHED", "CLOSE_WAIT"} -> Established(c, s)
    [] c.state = "FIN_WAIT_1" -> FinWait1(c, s)
    [] c.state = "FIN_WAIT_2" -> FinWait2(c, s)
    [] c.state = "CLOSING" -> Closing(c, s)
    [] c.state = "LAST_ACK" -> LastAck(c, s)
    [] c.state = "TIME_WAIT" -> TimeWait(c, s)

(* tcp_input after tcp_process: data and end of file go to the application, or,    *)
(* when it has gone, data is dropped and its end is closed; then tcp_output.        *)
Upcall(c) ==
  CASE c.state = "CLOSED" -> c
    [] c.state = "TIME_WAIT" -> [c EXCEPT !.pend = <<>>]
    [] OTHER ->
         LET told == [c EXCEPT !.pend = <<>>, !.got = @ \o c.pend,
                               !.held = @ + Len(c.pend), !.eof = @ \/ c.gotfin]
             dropped == [c EXCEPT !.pend = <<>>]
         IN Output(IF c.attached THEN told
                   ELSE IF c.gotfin THEN TcpClose(dropped) ELSE dropped)

RstAcceptable(c, s) ==
  IF c.state = "SYN_SENT" THEN s.ackno = c.snd_nxt
  ELSE SeqLeq(c.rcv_nxt, s.seq) /\ SeqLeq(s.seq, Plus(c.rcv_nxt, c.rcv_wnd))

(* tcp_input for a connection's pcb.                                                *)
TcpInput(c, s, takes) ==
  IF s.rst
  THEN IF RstAcceptable(c, s) THEN FreedPcb(Errf(c)) ELSE Upcall(c)
  ELSE Upcall(TcpProcess(c, s, takes))

(* tcp_process, LISTEN: a SYN creates a pcb if the pool has one.                    *)
Accepts(s) == ~s.rst /\ ~s.ack /\ s.syn /\ spawned < MaxConns
SynAck(s) ==
  Output(TcpEnqueue([TcpNew(Iss["server"]) EXCEPT !.state = "SYN_RCVD", !.rcv_nxt = Plus(s.seq, 1),
                                               !.snd_wnd = s.wnd, !.snd_wl1 = s.seq],
                 <<>>, TRUE, FALSE, TRUE))

--------------------------------------------------------------------------------
(* Actions.                                                                         *)

(* End e's pcb becomes c; its segments go to the other end; g leaves the network.  *)
Step(e, c, g) ==
  /\ conn' = [conn EXCEPT ![e] = [c EXCEPT !.out = {}]]
  /\ LET n == (net \ g) \cup {[to |-> Peer(e), seg |-> s] : s \in c.out}
     IN net' = IF Cardinality(n) <= MaxNet THEN n ELSE net \ g

(* m arrives; a duplicate of it may still be on its way.                            *)
Arrive(m, again, takes) ==
  LET e == m.to
      s == m.seg
      c == conn[e]
      gone == IF again THEN {} ELSE {m}
  IN /\ again => mishaps < MaxMishaps
     /\ mishaps' = IF again THEN mishaps + 1 ELSE mishaps
     /\ CASE c.state # "CLOSED" -> Step(e, TcpInput(c, s, takes), gone) /\ UNCHANGED spawned
          [] c.state = "CLOSED" /\ e = "server" /\ Accepts(s) ->
               Step(e, SynAck(s), gone) /\ spawned' = spawned + 1
          [] c.state = "CLOSED" /\ ~(e = "server" /\ Accepts(s)) ->
               /\ Step(e, CASE s.rst \/ (e = "server" /\ ~s.ack) -> c
                            [] e = "server" /\ ~s.rst /\ s.ack ->
                                 Send(c, TcpRst(Plus(s.ackno, 1), SegEnd(s)))
                            [] OTHER -> Send(c, TcpRst(s.ackno, SegEnd(s))), gone)
               /\ UNCHANGED spawned

Deliver == \E m \in net, again, takes \in BOOLEAN :
             /\ ~takes => conn[m.to].state = "SYN_RCVD" /\ ~again
             /\ Arrive(m, again, takes)
Lose == \E m \in net : /\ mishaps < MaxMishaps
                       /\ net' = net \ {m}
                       /\ mishaps' = mishaps + 1
                       /\ UNCHANGED <<conn, spawned>>

(* do_connect, tcp_connect                                                          *)
Connect ==
  /\ conn["client"] = TcpNew(Iss["client"])
  /\ LET i == Plus(Iss["client"], SeqSpace - 1)
         c == [conn["client"] EXCEPT !.lastack = i, !.snd_lbb = i, !.snd_wnd = TcpWnd,
                                     !.state = "SYN_SENT", !.attached = TRUE]
     IN Step("client", Output(TcpEnqueue(c, <<>>, TRUE, FALSE, FALSE)), {})
  /\ UNCHANGED <<spawned, mishaps>>

(* do_write, tcp_write, of n bytes: sent at once unless data is unacknowledged.     *)
Write(e, n) ==
  LET c == conn[e]
      data == [i \in 1 .. n |-> c.written + i]
      q == [TcpEnqueue(c, data, FALSE, FALSE, FALSE) EXCEPT !.written = @ + n]
  IN /\ c.attached /\ ~c.closing /\ c.written + n <= MaxBytes[e]
     /\ c.state \in {"SYN_SENT", "SYN_RCVD", "ESTABLISHED", "CLOSE_WAIT"}
     /\ CanEnqueue(c, data)
     /\ Step(e, IF q.unacked = <<>> THEN Output(q) ELSE q, {})
     /\ UNCHANGED <<spawned, mishaps>>

(* do_recv, tcp_recved: the application has read what it was given.                 *)
Recved(e) ==
  /\ conn[e].attached /\ conn[e].held > 0 /\ conn[e].state # "CLOSED"
  /\ Step(e, Ack([conn[e] EXCEPT !.rcv_wnd = Min({TcpWnd, @ + conn[e].held}), !.held = 0]), {})
  /\ UNCHANGED <<spawned, mishaps>>

(* do_close: the application stays attached, and reads on.                          *)
Close(e) ==
  /\ "close" \in Calls[e]
  /\ conn[e].attached /\ ~conn[e].closing /\ conn[e].state \in Active
  /\ ~CloseFails(conn[e])
  /\ Step(e, TcpClose([conn[e] EXCEPT !.closing = TRUE]), {})
  /\ UNCHANGED <<spawned, mishaps>>

(* do_delconn: the callbacks are taken away; a close that fails becomes an abort.   *)
Delete(e) ==
  LET c == [conn[e] EXCEPT !.attached = FALSE, !.closing = TRUE, !.held = 0]
  IN /\ "delete" \in Calls[e] /\ conn[e].attached /\ conn[e].state # "CLOSED"
     /\ Step(e, IF CloseFails(c) THEN Abort(c) ELSE TcpClose(c), {})
     /\ UNCHANGED <<spawned, mishaps>>

(* tcp_fasttmr                                                                      *)
FastTmr(e) ==
  /\ conn[e].state \in Active /\ conn[e].delay
  /\ Step(e, AckNow(conn[e]), {})
  /\ UNCHANGED <<spawned, mishaps>>

(* tcp_slowtmr: a retransmission timeout moves all but the first unacknowledged    *)
(* segment back to the unsent queue and retransmits that one.                       *)
Rexmit(e) ==
  LET c == conn[e]
      rest == Tail(c.unacked)
      d == [c EXCEPT !.unacked = <<Head(@)>>, !.unsent = rest \o @,
                     !.snd_nxt = IF rest = <<>> THEN @ ELSE rest[1].seq]
  IN /\ c.state \in Active /\ c.unacked # <<>> /\ c.nrtx # MaxRtx
     /\ Step(e, [RexmitSeg(d, Head(c.unacked)) EXCEPT !.cwnd = TcpMss], {})
     /\ mishaps < MaxMishaps /\ mishaps' = mishaps + 1
     /\ UNCHANGED spawned

(* tcp_slowtmr: poll_tcp, then tcp_output, while the application is attached.       *)
Poll(e) ==
  /\ conn[e].state \in Active /\ conn[e].attached
  /\ Output(conn[e]) # conn[e]
  /\ Step(e, Output(conn[e]), {})
  /\ UNCHANGED <<spawned, mishaps>>

(* tcp_slowtmr: the pcb is given up, without a word to the other end.               *)
TimedOut(c) == c.state \in Active /\ (c.nrtx = MaxRtx \/ c.state \in {"FIN_WAIT_2", "SYN_RCVD"})
Expire(e) ==
  /\ TimedOut(conn[e]) \/ conn[e].state = "TIME_WAIT"
  /\ Step(e, FreedPcb(IF conn[e].state = "TIME_WAIT" THEN conn[e] ELSE Errf(conn[e])), {})
  /\ mishaps < MaxMishaps /\ mishaps' = mishaps + 1
  /\ UNCHANGED spawned

(* tcp_slowtmr, tcp_memp_reclaim: the out-of-sequence queue is dropped.             *)
DropOoseq(e) ==
  /\ conn[e].state \in Active /\ conn[e].ooseq # <<>>
  /\ Step(e, [conn[e] EXCEPT !.ooseq = <<>>], {})
  /\ mishaps < MaxMishaps /\ mishaps' = mishaps + 1
  /\ UNCHANGED spawned

TcpInit ==
  /\ conn = [e \in Ends |-> TcpNew(Iss[e])]
  /\ net = {} /\ spawned = 0 /\ mishaps = 0

App(e) == (\E n \in 1 .. TcpMss : Write(e, n)) \/ Recved(e) \/ Close(e) \/ Delete(e)
Timer(e) == FastTmr(e) \/ Rexmit(e) \/ Poll(e) \/ Expire(e) \/ DropOoseq(e)

TcpNext == Connect \/ Deliver \/ Lose \/ \E e \in Ends : App(e) \/ Timer(e)

TcpSpec == TcpInit /\ [][TcpNext]_tcpVars

--------------------------------------------------------------------------------
AppBytes == 1 .. Max({MaxBytes[e] : e \in Ends})
DataOf(q) == UNION {ToSet(q[i].data) : i \in 1 .. Len(q)}

TcpTypeOK ==
  /\ \A e \in Ends :
       /\ conn[e].state \in States
       /\ {conn[e].rcv_nxt, conn[e].lastack, conn[e].snd_nxt, conn[e].snd_max, conn[e].snd_lbb,
           conn[e].snd_wl1, conn[e].snd_wl2} \subseteq Seqs
       /\ conn[e].rcv_wnd \in 0 .. TcpWnd /\ conn[e].snd_wnd \in 0 .. TcpWnd
       /\ conn[e].cwnd \in {1, TcpMss, TcpWnd} /\ conn[e].nrtx \in 0 .. MaxRtx + 1
       /\ conn[e].snd_buf \in 0 .. BufMod - 1 /\ conn[e].qlen \in 0 .. SndQueueLen
       /\ DataOf(conn[e].unsent) \cup DataOf(conn[e].unacked) \cup DataOf(conn[e].ooseq)
            \subseteq AppBytes
       /\ conn[e].pend = <<>> /\ conn[e].out = {}
  /\ spawned \in 0 .. MaxConns /\ mishaps \in 0 .. MaxMishaps
  /\ Cardinality(net) <= MaxNet

(* What an application receives is a prefix of what the other one wrote, whatever  *)
(* the network does and however segments are cut, joined and queued.                *)
StreamIntact == \A e \in Ends : /\ conn[e].got = [i \in 1 .. Len(conn[e].got) |-> i]
                                /\ Len(conn[e].got) <= conn[Peer(e)].written

(* tcp_receive acknowledges nothing the application is not given: while the other  *)
(* application has not closed, every byte it has yet to receive is in one of this   *)
(* end's queues, and will be sent again.                                            *)
NothingForgotten ==
  \A e \in Ends : LET c == conn[e]
                      p == conn[Peer(e)] IN
    c.state \in Active /\ ~p.closing /\ ~p.err /\ p.state # "CLOSED" =>
      (Len(p.got) + 1 .. c.written) \subseteq DataOf(c.unsent) \cup DataOf(c.unacked)

(* End of file is reported only after the last byte of a peer that has closed.      *)
EofAfterData ==
  \A e \in Ends : conn[e].eof => /\ conn[Peer(e)].closing
                                 /\ Len(conn[e].got) = conn[Peer(e)].written

(* snd_queuelen and snd_buf, which decide what tcp_enqueue accepts, are right: a   *)
(* connection that has everything acknowledged has its whole buffer back (but for   *)
(* the byte of the client's SYN, which is never returned).                          *)
BuffersReturned ==
  \A e \in Ends : LET c == conn[e] IN
    c.state \in Active =>
      /\ c.qlen = QueueLen(c.unsent) + QueueLen(c.unacked)
      /\ (c.snd_buf + Diff(c.snd_lbb, c.lastack)) % BufMod =
           TcpSndBuf - IF e = "client" /\ c.state # "SYN_SENT" THEN 1 ELSE 0

(* `If the segment was a FIN, we set the TF_GOT_FIN flag that will be used to       *)
(* indicate to the application that the remote side has closed its end' : an        *)
(* attached application whose stack has taken the FIN knows of it.                  *)
FinReachesApplication ==
  \A e \in Ends : LET c == conn[e]
                      p == conn[Peer(e)] IN
    /\ c.state = "CLOSE_WAIT" /\ c.attached
    /\ p.state \in {"FIN_WAIT_1", "FIN_WAIT_2"} /\ c.rcv_nxt = p.snd_lbb
    => c.eof
================================================================================
