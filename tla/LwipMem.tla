------------------------------ MODULE LwipMem ------------------------------
(***************************************************************************)
(* The memory of SCONE's TCP stack (projects/scone/sw/lwtcp): the first    *)
(* fit heap of mem.c, the pool of pbuf headers of memp.c and the pbufs of  *)
(* pbuf.c, under the calls tcp_input.c, tcp_output.c and sr_lwtcp_glue.c   *)
(* make.  The heap is a list of blocks, each behind a header               *)
(* [next, prev, used] at an address; a pbuf in RAM lives in a block of its *)
(* own and is known by its address; a pbuf for data that is not copied     *)
(* comes from the pool and has a negative number here.                     *)
(*                                                                         *)
(* A frame is trimmed by pbuf_realloc to a length that need not be         *)
(* aligned, and mem_realloc cuts the block right there.  Every block the   *)
(* remainder is later made into starts unaligned.                          *)
(***************************************************************************)
EXTENDS Integers, Sequences, FiniteSets, SequencesExt

CONSTANTS
  MemSize,   \* MEM_SIZE
  Align,     \* MEM_ALIGNMENT
  Hdr,       \* SIZEOF_STRUCT_MEM
  MinSize,   \* MIN_SIZE
  PbufHdr,   \* sizeof(struct pbuf)
  Room,      \* the room PBUF_TRANSPORT leaves for headers
  LenMod,    \* the range of the 16-bit len and tot_len
  TcpHlen,   \* TCP_HLEN
  NumPbuf,   \* MEMP_NUM_PBUF
  Sizes,     \* the lengths of frames and segments
  MaxRef     \* bound: references the stack holds to one pbuf

Null == 0
AlignUp(x) == ((x + Align - 1) \div Align) * Align

ASSUME LwipMemAssumption ==
  /\ {MemSize, Hdr, PbufHdr, Room, LenMod, TcpHlen, MaxRef} \subseteq Nat \ {0}
  /\ {Align, MinSize, NumPbuf} \subseteq Nat /\ Align > 0 /\ Sizes \subseteq Nat
  /\ \A x \in {MemSize, Hdr, PbufHdr, Room} : x % Align = 0
  /\ TcpHlen <= Room

VARIABLES
  heap,   \* address of a header -> [next, prev, used]
  lfree,  \* lfree
  pool,   \* memp_tab[MEMP_PBUF]
  pbuf,   \* the pbufs that were not freed
  held,   \* head of a chain -> references the stack holds to it
  fault   \* what the code ran into

MemVars == <<heap, lfree, pool, pbuf, held, fault>>

InRam(p) == p > 0
HeaderOf(p) == p - Hdr

(***************************************************************************)
(* mem.c.  m is a heap and its lfree.                                      *)
(***************************************************************************)
Mem == [heap |-> heap, lfree |-> lfree]

PlugForward(m, a) ==
  LET n == m.heap[a].next
  IN  IF n = MemSize \/ m.heap[n].used THEN m
      ELSE [heap |-> [b \in DOMAIN m.heap \ {n} |->
                        CASE b = a -> [m.heap[a] EXCEPT !.next = m.heap[n].next]
                          [] b = m.heap[n].next -> [m.heap[b] EXCEPT !.prev = a]
                          [] OTHER -> m.heap[b]],
            lfree |-> IF m.lfree = n THEN a ELSE m.lfree]

PlugBackward(m, a) ==
  LET p == m.heap[a].prev
  IN  IF p = a \/ m.heap[p].used THEN m
      ELSE [heap |-> [b \in DOMAIN m.heap \ {a} |->
                        CASE b = p -> [m.heap[p] EXCEPT !.next = m.heap[a].next]
                          [] b = m.heap[a].next -> [m.heap[b] EXCEPT !.prev = p]
                          [] OTHER -> m.heap[b]],
            lfree |-> IF m.lfree = a THEN p ELSE m.lfree]

(* mutant: the block that starts where the lowest free one did is not it *)
PlugHolesKeepsLfree(m, a) ==
  [PlugBackward(PlugForward(m, a), a) EXCEPT !.lfree = m.lfree]

(* The free block at a and its free neighbours become one. *)
PlugHoles(m, a) == PlugBackward(PlugForward(m, a), a)

(* The block at a is cut at b; what is behind b is free.  ram_end's prev is
   not kept by the callers of Cut: only plug_holes writes it. *)
Cut(m, a, b) ==
  LET n == m.heap[a].next
  IN  [m EXCEPT !.heap = [c \in DOMAIN m.heap \cup {b} |->
         CASE c = a -> [m.heap[a] EXCEPT !.next = b]
           [] c = b -> [next |-> n, prev |-> a, used |-> FALSE]
           [] c = n /\ n # MemSize -> [m.heap[n] EXCEPT !.prev = b]
           [] OTHER -> m.heap[c]]]

(* Where mem_malloc finds room for size more bytes and a header, from ptr
   on; MemSize when nowhere. *)
FirstFit(m, size) ==
  LET fit[ptr \in DOMAIN m.heap] ==
        IF \/ ptr = MemSize
           \/ /\ ~m.heap[ptr].used
              /\ m.heap[ptr].next - (ptr + Hdr) >= size + Hdr
        THEN ptr ELSE fit[m.heap[ptr].next]
  IN  fit[m.lfree]

(* The block mem_malloc takes, or MemSize. *)
Found(m, n) == IF n = 0 \/ AlignUp(n) > MemSize THEN MemSize ELSE FirstFit(m, AlignUp(n))

(* mem_malloc when it has found room at a: the next free block after a is
   the rest of it. *)
MemMalloc(m, a, n) ==
  LET c == Cut(m, a, a + Hdr + AlignUp(n))
  IN  [heap  |-> [c.heap EXCEPT ![a].used = TRUE],
       lfree |-> IF m.lfree = a THEN c.heap[a].next ELSE m.lfree]

MemFree(m, p) ==
  LET a == HeaderOf(p)
  IN  PlugHoles([heap  |-> [m.heap EXCEPT ![a].used = FALSE],
                 lfree |-> IF a < m.lfree THEN a ELSE m.lfree], a)

MemRealloc(m, p, n) ==
  LET a == HeaderOf(p)
      b == a + Hdr + n
  IN  IF n + Hdr + MinSize < m.heap[a].next - p
      THEN PlugHoles(Cut(m, a, b), b) ELSE m

(***************************************************************************)
(* pbuf.c.  s is everything but the fault.                                 *)
(***************************************************************************)
State == [m |-> Mem, pool |-> pool, pbuf |-> pbuf, held |-> held]

(* out: on its way out, for the stack's use of it *)
NewPbuf(pay, len, out) ==
  [pay |-> pay, len |-> len, tot |-> len, ref |-> 1, next |-> Null, out |-> out]

Chain(bufs, p) ==
  LET c[q \in DOMAIN bufs] ==
        IF bufs[q].next = Null THEN <<q>> ELSE <<q>> \o c[bufs[q].next]
  IN  c[p]

With(f, x, y) == [z \in DOMAIN f \cup {x} |-> IF z = x THEN y ELSE f[z]]

(* mutant: the room for the headers is left out of the request *)
RamBytesBare(len, room) == AlignUp(PbufHdr + len)

(* What pbuf_alloc(PBUF_RAM) asks mem_malloc for. *)
RamBytes(len, room) == AlignUp(PbufHdr + len + room)

RamAt(s, len, room) == Found(s.m, RamBytes(len, room))

(* pbuf_alloc(PBUF_RAM) when there is room at a; the caller holds the pbuf *)
PbufAllocRam(s, a, len, room) ==
  LET p == a + Hdr
  IN  [s EXCEPT !.m = MemMalloc(s.m, a, RamBytes(len, room)),
                !.pbuf = With(s.pbuf, p, NewPbuf(AlignUp(p + PbufHdr + room), len, room > 0)),
                !.held = With(s.held, p, 1)]

(* pbuf_alloc(PBUF_ROM) when the pool is not empty: memp_mallocp *)
PbufAllocRom(s, len) ==
  [s EXCEPT !.pool = Tail(s.pool),
            !.pbuf = With(s.pbuf, Head(s.pool), NewPbuf(Null, len, TRUE)),
            !.held = With(s.held, Head(s.pool), 1)]

(* mem_free or memp_freep of one pbuf *)
Release(s, p) ==
  [s EXCEPT !.m = IF InRam(p) THEN MemFree(s.m, p) ELSE s.m,
            !.pool = IF InRam(p) THEN s.pool ELSE <<p>> \o s.pool,
            !.pbuf = [q \in DOMAIN s.pbuf \ {p} |-> s.pbuf[q]],
            !.held = [q \in DOMAIN s.held \ {p} |-> s.held[q]]]

(* One of several references to p goes. *)
Unref(s, p) ==
  [s EXCEPT !.pbuf = With(s.pbuf, p, [s.pbuf[p] EXCEPT !.ref = @ - 1]),
            !.held = With(s.held, p, s.held[p] - 1)]

(* mutant: the rest of the chain is forgotten *)
PbufFreeHead(s, p) ==
  IF s.pbuf[p].ref > 1
  THEN Unref(s, p)
  ELSE Release(s, p)

(* pbuf_free: the last reference to its head frees the whole chain *)
PbufFree(s, p) ==
  IF s.pbuf[p].ref > 1
  THEN Unref(s, p)
  ELSE LET c == Chain(s.pbuf, p)
           left[k \in 0 .. Len(c)] == IF k = 0 THEN s ELSE Release(left[k - 1], c[k])
       IN  left[Len(c)]

(* pbuf_header: the pbuf is left alone when the room does not suffice *)
PbufHeader(s, p, n) ==
  IF s.pbuf[p].pay - n < p + PbufHdr THEN s
  ELSE [s EXCEPT !.pbuf = With(s.pbuf, p, [s.pbuf[p] EXCEPT !.pay = @ - n, !.len = @ + n,
                                                            !.tot = @ + n])]

(* pbuf_chain: the head of t gives its reference to h *)
PbufChain(s, h, t) ==
  LET last == Last(Chain(s.pbuf, h))
  IN  [s EXCEPT !.pbuf = [q \in DOMAIN s.pbuf |->
                            [s.pbuf[q] EXCEPT !.next = IF q = last THEN t ELSE @,
                                              !.tot = IF q = h THEN @ + s.pbuf[t].tot ELSE @]],
                !.held = With(s.held, t, 0)]

(* pbuf_realloc of a pbuf that is not chained *)
PbufRealloc(s, p, n) ==
  IF s.pbuf[p].tot <= n THEN s
  ELSE [s EXCEPT !.m = MemRealloc(s.m, p, s.pbuf[p].pay - p + n),
                 !.pbuf = With(s.pbuf, p, [s.pbuf[p] EXCEPT !.len = n, !.tot = n])]

(***************************************************************************)
(* The calls of the stack                                                  *)
(***************************************************************************)
Put(s) == /\ heap' = s.m.heap /\ lfree' = s.m.lfree /\ pool' = s.pool
          /\ pbuf' = s.pbuf /\ held' = s.held

(* Where the payload of p ends, and where its block does *)
PayloadEnd(s, p) == s.pbuf[p].pay + s.pbuf[p].len
BlockEnd(s, p) == s.m.heap[HeaderOf(p)].next

(* len bytes are copied into the new pbuf p.  Those behind its block are
   the header of the next. *)
Fill(s, p) ==
  /\ Put(s)
  /\ fault' = IF PayloadEnd(s, p) > BlockEnd(s, p) THEN "header overwritten" ELSE fault

Heads == {p \in DOMAIN pbuf : held[p] > 0}
Segments == {p \in Heads : pbuf[p].out}
Received == Heads \ Segments
Alone(p) == pbuf[p].next = Null

(* sr_transport_input does not look at what pbuf_alloc returned. *)
SrTransportInput(n) ==
  LET a == RamAt(State, n, 0)
  IN  IF a = MemSize THEN fault' = "NULL pbuf" /\ UNCHANGED <<heap, lfree, pool, pbuf, held>>
      ELSE Fill(PbufAllocRam(State, a, n, 0), a + Hdr)

(* The end of tcp_enqueue: p has its TCP header, or is chained to the last
   unsent segment without one. *)
Enqueue(s, p, last) ==
  LET t == PbufHeader(s, p, TcpHlen)
  IN  IF last = Null THEN t ELSE PbufChain(PbufHeader(t, p, -TcpHlen), last, p)

(* tcp_enqueue of data that is copied; ERR_MEM when there is no memory. *)
TcpEnqueueCopy(n, last) ==
  LET a == RamAt(State, n, Room)
  IN  /\ a # MemSize
      /\ Fill(Enqueue(PbufAllocRam(State, a, n, Room), a + Hdr, last), a + Hdr)

(* tcp_enqueue of data that stays where it is, behind a pbuf for the
   headers.  Without memory for that one the first is given back. *)
TcpEnqueueRef(n, last) ==
  /\ pool # <<>>
  /\ LET r == PbufAllocRom(State, n)
         a == RamAt(r, 0, Room)
         s == PbufChain(PbufAllocRam(r, a, 0, Room), a + Hdr, Head(pool))
     IN  IF a = MemSize THEN Put(PbufFree(r, Head(pool))) /\ UNCHANGED fault
         ELSE Fill(Enqueue(s, a + Hdr, last), a + Hdr)

(* The lengths of p, below zero after pbuf_header, as its 16 bits hold them *)
Wrapped(s, p) ==
  [s EXCEPT !.pbuf = With(s.pbuf, p, [s.pbuf[p] EXCEPT !.len = @ + LenMod, !.tot = @ + LenMod])]

(* tcp_input steps over the TCP header, n bytes if its data offset is right.
   Nothing compares it with what was received: past that the payload begins
   behind the data and the lengths have wrapped, and what the stack does with
   such a segment is not followed any further. *)
TcpStripHeader(p, n) ==
  LET s == PbufHeader(State, p, -n)
  IN  /\ Alone(p)
      /\ IF n <= pbuf[p].len THEN Put(s) /\ UNCHANGED fault
         ELSE Put(Wrapped(s, p)) /\ fault' = "offset past the data"

(* tcp_receive steps over the first bytes of a segment, which are known; the
   last ones are not. *)
TcpStrip(p, n) ==
  /\ Alone(p) /\ n <= pbuf[p].len
  /\ Put(PbufHeader(State, p, -n)) /\ UNCHANGED fault

(* tcp_receive cuts what the next segment or the window does not leave. *)
TcpTrim(p, n) ==
  /\ Alone(p) /\ n < pbuf[p].tot
  /\ Put(PbufRealloc(State, p, n)) /\ UNCHANGED fault

(* tcp_seg_copy *)
PbufRef(p) ==
  /\ held[p] < MaxRef
  /\ pbuf' = [pbuf EXCEPT ![p].ref = @ + 1]
  /\ held' = [held EXCEPT ![p] = @ + 1]
  /\ UNCHANGED <<heap, lfree, pool, fault>>

(* tcp_receive chains what it had waiting to what it gives the program. *)
TcpRecvData(h, t) ==
  /\ h # t /\ pbuf[t].ref = 1 /\ pbuf[t].tot > 0
  /\ Put(PbufChain(State, h, t)) /\ UNCHANGED fault

Free(p) == Put(PbufFree(State, p)) /\ UNCHANGED fault

MemInit ==
  /\ heap = [a \in {0, MemSize} |-> [next |-> MemSize, prev |-> a, used |-> a # 0]]
  /\ lfree = 0
  /\ pool = [k \in 1 .. NumPbuf |-> -k]
  /\ pbuf = << >> /\ held = << >>
  /\ fault = "none"

MemNext ==
  /\ fault = "none"
  /\ \/ \E n \in Sizes : SrTransportInput(n)
     \/ \E n \in Sizes, last \in {Null} \cup Segments :
          TcpEnqueueCopy(n, last) \/ TcpEnqueueRef(n, last)
     \/ \E p \in Received : \/ \E n \in Sizes : TcpStripHeader(p, n) \/ TcpStrip(p, n) \/ TcpTrim(p, n)
                             \/ PbufRef(p)
                             \/ \E t \in Received : TcpRecvData(p, t)
     \/ \E p \in Heads : Free(p)

MemSpec == MemInit /\ [][MemNext]_MemVars

(***************************************************************************)
(* What the memory promises                                                *)
(***************************************************************************)

(* Starting from the first byte of ram the headers lead to ram_end, each
   knows the one before it, no two free blocks touch, and lfree is a free
   block: plug_holes, mem_malloc and mem_realloc may leave lfree behind a
   free block, never at an address that is no header any more. *)
HeapSound ==
  /\ \A a \in DOMAIN heap \ {MemSize} :
       LET n == heap[a].next
       IN  /\ n > a /\ n \in DOMAIN heap
           /\ \A b \in DOMAIN heap : b <= a \/ b >= n
           /\ n # MemSize => heap[n].prev = a /\ (heap[a].used \/ heap[n].used)
  /\ lfree \in DOMAIN heap /\ ~heap[lfree].used

(* A pbuf in a block that starts aligned has its headers and its data
   inside the block, whatever was stripped, trimmed or freed next to it,
   and no two blocks in use belong to one pbuf: data is overwritten only
   when the heap was cut where it should not be.  The exception is a segment
   whose data offset says more than was received. *)
BuffersFit ==
  /\ {HeaderOf(p) : p \in {q \in DOMAIN pbuf : InRam(q)}}
       = {a \in DOMAIN heap \ {MemSize} : heap[a].used}
  /\ \A p \in DOMAIN pbuf :
       InRam(p) /\ p % Align = 0 /\ fault # "offset past the data" =>
         p + PbufHdr <= pbuf[p].pay /\ PayloadEnd(State, p) <= BlockEnd(State, p)
  /\ fault = "header overwritten" => \E a \in DOMAIN heap : a % Align # 0

(* What the chain of p carries *)
Bytes(bufs, p) ==
  LET n[q \in DOMAIN bufs] ==
        bufs[q].len + IF bufs[q].next = Null THEN 0 ELSE n[bufs[q].next]
  IN  n[p]

(* Every pbuf is reached from exactly one chain the stack holds, whose head
   knows the length of the whole, and the pool has the other headers: nothing
   is leaked, freed under its owner, or counted twice. *)
ChainsOwned ==
  /\ DOMAIN held = DOMAIN pbuf /\ \A p \in Heads : pbuf[p].ref = held[p]
  /\ \A p \in DOMAIN pbuf :
       Cardinality({h \in Heads : p \in Range(Chain(pbuf, h))}) = 1
  /\ {-k : k \in 1 .. NumPbuf} \ Range(pool) = {p \in DOMAIN pbuf : ~InRam(p)}
  /\ \A h \in Heads : pbuf[h].tot = Bytes(pbuf, h)

=============================================================================
