------------------------ MODULE SconePacketProofs ------------------------
(***************************************************************************)
(* Proofs about the two places of SCONE where a packet is kept: the queue  *)
(* behind the ARP cache (SconeArp), for any sets of hops, addresses and    *)
(* packets, and the buffers of its TCP (LwipMem), for any heap, alignment, *)
(* sizes of the structures and lengths of the frames.                      *)
(***************************************************************************)
EXTENDS SconeArp, LwipMem, FiniteSetTheorems, SequenceTheorems, WellFoundedInduction, TLAPS

(***************************************************************************)
(* LwipMem: first the blocks of mem.c.                                      *)
(***************************************************************************)
Blocks == [next : Int, prev : Int, used : BOOLEAN]

(* The headers lead from the first byte to ram_end, forward and backward. *)
Linked(h) ==
  /\ DOMAIN h \subseteq 0 .. MemSize /\ 0 \in DOMAIN h /\ MemSize \in DOMAIN h
  /\ h \in [DOMAIN h -> Blocks]
  /\ \A a \in DOMAIN h \ {MemSize} :
       /\ h[a].next \in DOMAIN h /\ a < h[a].next
       /\ \A b \in DOMAIN h : b <= a \/ b >= h[a].next
  /\ \A a \in DOMAIN h \ {0, MemSize} :
       h[a].prev \in DOMAIN h \ {MemSize} /\ h[h[a].prev].next = a
  /\ h[0].prev = 0 /\ h[MemSize].used

(* Free blocks do not touch, but x may touch others. *)
ApartBut(h, x) ==
  \A a \in DOMAIN h \ {MemSize} :
    h[a].next # MemSize /\ a # x /\ h[a].next # x => h[a].used \/ h[h[a].next].used
Apart(h) ==
  \A a \in DOMAIN h \ {MemSize} :
    h[a].next # MemSize => h[a].used \/ h[h[a].next].used

FreeAt(m) == m.lfree \in DOMAIN m.heap /\ ~m.heap[m.lfree].used

(* g is what the blocks in use of h are, and where they end. *)
SameUsed(h, g) ==
  /\ \A b : b \in DOMAIN g /\ g[b].used <=> b \in DOMAIN h /\ h[b].used
  /\ \A b \in DOMAIN h \ {MemSize} : h[b].used => g[b].next = h[b].next

LEMMA Consts ==
  /\ MemSize \in Nat \ {0} /\ Hdr \in Nat \ {0} /\ PbufHdr \in Nat \ {0} /\ Room \in Nat \ {0}
  /\ TcpHlen \in Nat \ {0} /\ MaxRef \in Nat \ {0} /\ MinSize \in Nat /\ NumPbuf \in Nat
  /\ Align \in Nat \ {0} /\ Sizes \subseteq Nat /\ TcpHlen <= Room
  /\ MemSize % Align = 0 /\ Hdr % Align = 0 /\ PbufHdr % Align = 0 /\ Room % Align = 0
BY LwipMemAssumption

LEMMA AlignBounds ==
  ASSUME NEW x \in Nat
  PROVE  AlignUp(x) \in Nat /\ AlignUp(x) >= x
<1>1. Align \in Nat /\ Align > 0
  BY Consts
<1>2. PICK q, r : q = (x + Align - 1) \div Align /\ r = (x + Align - 1) % Align
  OBVIOUS
<1>3. x + Align - 1 = Align * q + r /\ r \in 0 .. Align - 1 /\ q \in Int
  BY <1>1, <1>2
<1>4. q >= 0
  BY <1>1, <1>2, <1>3
<1>5. q * Align = Align * q /\ Align * q \in Int
  BY <1>1, <1>3
<1>6. x + Align - 1 - r >= x
  BY <1>1, <1>3
<1>7. q * Align >= x
  BY <1>1, <1>3, <1>5, <1>6
<1> QED BY <1>2, <1>3, <1>5, <1>7 DEF AlignUp

LEMMA AlignKeeps ==
  ASSUME NEW x \in Nat, x % Align = 0
  PROVE  AlignUp(x) = x
<1>1. Align \in Nat /\ Align > 0
  BY Consts
<1>2. PICK k : k = x \div Align
  OBVIOUS
<1>3. x = Align * k /\ k \in Int
  BY <1>1, <1>2
<1>4. (x + Align - 1) \div Align = k
  BY <1>1, <1>3
<1> QED BY <1>1, <1>3, <1>4 DEF AlignUp

LEMMA AlignSum ==
  ASSUME NEW x \in Int, NEW y \in Int, x % Align = 0, y % Align = 0
  PROVE  (x + y) % Align = 0 /\ (x - y) % Align = 0
<1>1. Align \in Nat /\ Align > 0
  BY Consts
<1>2. PICK k, l : k = x \div Align /\ l = y \div Align
  OBVIOUS
<1>3. x = Align * k /\ y = Align * l /\ k \in Int /\ l \in Int
  BY <1>1, <1>2
<1>4. x + y = Align * (k + l) /\ x - y = Align * (k - l)
  BY <1>1, <1>3
<1> QED BY <1>1, <1>3, <1>4

LEMMA AlignThree ==
  ASSUME NEW x \in Nat, NEW y \in Nat, NEW z \in Nat, x % Align = 0, y % Align = 0, z % Align = 0
  PROVE  AlignUp(x + y + z) = x + y + z
<1>1. PICK u : u = x + y
  OBVIOUS
<1>2. u \in Nat /\ u \in Int /\ x \in Int /\ y \in Int /\ z \in Int
  BY <1>1
<1>3. u % Align = 0
  BY ONLY <1>1, <1>2, x % Align = 0, y % Align = 0, AlignSum, Zenon
<1>4. PICK v : v = u + z
  OBVIOUS
<1>5. v % Align = 0
  BY ONLY <1>2, <1>3, <1>4, z % Align = 0, AlignSum, Zenon
<1>6. v \in Nat
  BY <1>2, <1>4
<1>7. AlignUp(v) = v
  BY ONLY <1>5, <1>6, AlignKeeps, Zenon
<1> QED BY <1>1, <1>4, <1>7

LEMMA NextFacts ==
  ASSUME NEW h, Linked(h), NEW a \in DOMAIN h \ {MemSize}
  PROVE  /\ a \in Int /\ h[a].next \in Int /\ h[a].next \in DOMAIN h /\ a < h[a].next
         /\ a >= 0 /\ a < MemSize /\ h[a].next <= MemSize
         /\ \A b \in DOMAIN h : b \in Int /\ b >= 0 /\ b <= MemSize /\ (b <= a \/ b >= h[a].next)
         /\ h[a].next # MemSize => h[h[a].next].prev = a
<1>1. MemSize \in Nat
  BY Consts
<1>2. h[a].next \in DOMAIN h /\ a < h[a].next /\ \A b \in DOMAIN h : b <= a \/ b >= h[a].next
  BY DEF Linked
<1>3. \A b \in DOMAIN h : b \in Int /\ b >= 0 /\ b <= MemSize
  BY <1>1 DEF Linked
<1>4. ASSUME h[a].next # MemSize PROVE h[h[a].next].prev = a
  <2>1. PICK n : n = h[a].next
    OBVIOUS
  <2>2. PICK p : p = h[n].prev
    OBVIOUS
  <2>3. n \in DOMAIN h \ {0, MemSize}
    BY <1>2, <1>3, <1>4, <2>1
  <2>4. p \in DOMAIN h \ {MemSize} /\ h[p].next = n
    BY <2>2, <2>3 DEF Linked
  <2>5. p <= a \/ p >= n
    BY <1>2, <2>1, <2>4
  <2>6. p < n /\ (a <= p \/ a >= n)
    BY <2>4 DEF Linked
  <2>7. p \in Int /\ a \in Int /\ n \in Int /\ a < n
    BY <1>2, <1>3, <2>1, <2>4
  <2> QED BY <2>1, <2>2, <2>5, <2>6, <2>7
<1> QED BY <1>1, <1>2, <1>3, <1>4

(* The block at a is joined with the free one behind it. *)
Joined(h, g, a, n) ==
  /\ DOMAIN g = DOMAIN h \ {n}
  /\ g \in [DOMAIN g -> Blocks]
  /\ g[a].next = h[n].next /\ g[a].prev = h[a].prev
  /\ \A b \in DOMAIN g : /\ g[b].used = h[b].used
                         /\ b # a => g[b].next = h[b].next
                         /\ b # h[n].next => g[b].prev = h[b].prev
  /\ g[h[n].next].prev = a

LEMMA JoinedLinked ==
  ASSUME NEW h, Linked(h), NEW a \in DOMAIN h \ {MemSize}, NEW n, n = h[a].next, n # MemSize,
         NEW g, Joined(h, g, a, n)
  PROVE  Linked(g)
<1>1. /\ a \in Int /\ n \in Int /\ n \in DOMAIN h /\ a < n /\ a >= 0 /\ n <= MemSize
      /\ \A b \in DOMAIN h : b \in Int /\ b >= 0 /\ b <= MemSize /\ (b <= a \/ b >= n)
  BY NextFacts
<1>2. PICK e : e = h[n].next
  OBVIOUS
<1>3. /\ e \in Int /\ e \in DOMAIN h /\ n < e
      /\ \A b \in DOMAIN h : b <= n \/ b >= e
      /\ e # MemSize => h[e].prev = n
  BY <1>1, <1>2, NextFacts
<1>4. /\ DOMAIN g = DOMAIN h \ {n} /\ g \in [DOMAIN g -> Blocks]
      /\ g[a].next = e /\ g[a].prev = h[a].prev
      /\ \A b \in DOMAIN g : /\ g[b].used = h[b].used
                             /\ b # a => g[b].next = h[b].next
                             /\ b # e => g[b].prev = h[b].prev
      /\ g[e].prev = a
  BY <1>2 DEF Joined
<1>5. MemSize \in Nat /\ MemSize > 0
  BY Consts
<1>6. DOMAIN g \subseteq 0 .. MemSize /\ 0 \in DOMAIN g /\ MemSize \in DOMAIN g
  BY <1>1, <1>4, <1>5 DEF Linked
<1>7. ASSUME NEW b \in DOMAIN g \ {MemSize}
      PROVE  /\ g[b].next \in DOMAIN g /\ b < g[b].next
             /\ \A c \in DOMAIN g : c <= b \/ c >= g[b].next
  <2>1. CASE b = a
    BY <1>1, <1>3, <1>4, <2>1
  <2>2. CASE b # a
    <3>1. g[b].next = h[b].next /\ b \in DOMAIN h \ {MemSize}
      BY <1>4, <2>2
    <3>2. /\ h[b].next \in DOMAIN h /\ b < h[b].next
          /\ \A c \in DOMAIN h : c <= b \/ c >= h[b].next
      BY <3>1 DEF Linked
    <3>3. h[b].next # n
      <4>1. h[b].next = n => a <= b \/ a >= n
        BY <3>2
      <4> QED BY <1>1, <2>2, <3>1, <3>2, <4>1
    <3> QED BY <1>4, <3>1, <3>2, <3>3
  <2> QED BY <2>1, <2>2
<1>8. ASSUME NEW b \in DOMAIN g \ {0, MemSize}
      PROVE  g[b].prev \in DOMAIN g \ {MemSize} /\ g[g[b].prev].next = b
  <2>1. CASE b = e
    BY <1>1, <1>3, <1>4, <2>1
  <2>2. CASE b # e
    <3>1. g[b].prev = h[b].prev /\ b \in DOMAIN h \ {0, MemSize}
      BY <1>4, <2>2
    <3>2. h[b].prev \in DOMAIN h \ {MemSize} /\ h[h[b].prev].next = b
      BY <3>1 DEF Linked
    <3>3. h[b].prev # n /\ h[b].prev # a
      BY <1>2, <1>4, <2>2, <3>2
    <3> QED BY <1>4, <3>1, <3>2, <3>3
  <2> QED BY <2>1, <2>2
<1>9. g[0].prev = 0
  BY <1>1, <1>3, <1>4, <1>6 DEF Linked
<1>10. g[MemSize].used
  BY <1>4, <1>6 DEF Linked
<1> QED BY <1>4, <1>6, <1>7, <1>8, <1>9, <1>10 DEF Linked

(* Joining keeps the blocks in use, and only the joined one gets new neighbours. *)
LEMMA JoinedApart ==
  ASSUME NEW h, Linked(h), NEW a \in DOMAIN h \ {MemSize}, NEW n, n = h[a].next, n # MemSize,
         NEW g, Joined(h, g, a, n), ~h[a].used, ~h[n].used, NEW x, x = a \/ x = n,
         ApartBut(h, x)
  PROVE  /\ ApartBut(g, a) /\ SameUsed(h, g)
         /\ x = a => g[a].next = MemSize \/ g[g[a].next].used
         /\ x = n => g[a].prev = a \/ g[g[a].prev].used
<1>1. /\ a \in Int /\ n \in Int /\ n \in DOMAIN h /\ a < n
      /\ \A b \in DOMAIN h : b \in Int /\ (b <= a \/ b >= n)
  BY NextFacts
<1>2. PICK e : e = h[n].next
  OBVIOUS
<1>3. e \in Int /\ e \in DOMAIN h /\ n < e
  BY <1>1, <1>2, NextFacts
<1>4. /\ DOMAIN g = DOMAIN h \ {n}
      /\ g[a].next = e /\ g[a].prev = h[a].prev
      /\ \A b \in DOMAIN g : /\ g[b].used = h[b].used
                             /\ b # a => g[b].next = h[b].next
  BY <1>2 DEF Joined
<1>5. Linked(g)
  BY JoinedLinked
<1>6. ASSUME NEW b \in DOMAIN g \ {MemSize}, g[b].next # MemSize, b # a, g[b].next # a
      PROVE  g[b].used \/ g[g[b].next].used
  <2>1. b \in DOMAIN h \ {MemSize} /\ g[b].next = h[b].next /\ h[b].next # n /\ b # n
    BY <1>1, <1>4, <1>5, <1>6 DEF Linked
  <2>2. h[b].used \/ h[h[b].next].used
    BY <1>6, <2>1 DEF ApartBut
  <2> QED BY <1>4, <1>5, <1>6, <2>1, <2>2 DEF Linked
<1>7. ApartBut(g, a)
  BY <1>6 DEF ApartBut
<1>8. SameUsed(h, g)
  BY <1>1, <1>4 DEF SameUsed
<1>9. ASSUME x = a PROVE g[a].next = MemSize \/ g[g[a].next].used
  BY <1>1, <1>2, <1>3, <1>4, <1>9 DEF ApartBut
<1>10. ASSUME x = n PROVE g[a].prev = a \/ g[g[a].prev].used
  <2>1. CASE a = 0
    BY <1>4, <2>1 DEF Linked
  <2>2. CASE a # 0
    <3>1. h[a].prev \in DOMAIN h \ {MemSize} /\ h[h[a].prev].next = a
      BY <2>2 DEF Linked
    <3>2. h[a].prev # n
      BY <1>1, <1>2, <1>3, <3>1
    <3>3. h[h[a].prev].used
      BY <1>1, <1>10, <3>1, <3>2 DEF ApartBut
    <3> QED BY <1>4, <3>1, <3>2, <3>3
  <2> QED BY <2>1, <2>2
<1> QED BY <1>7, <1>8, <1>9, <1>10

LEMMA ForwardFacts ==
  ASSUME NEW m, Linked(m.heap), NEW a \in DOMAIN m.heap \ {MemSize}, ~m.heap[a].used,
         ApartBut(m.heap, a), FreeAt(m), m = [heap |-> m.heap, lfree |-> m.lfree],
         NEW k, k = PlugForward(m, a)
  PROVE  /\ Linked(k.heap) /\ ApartBut(k.heap, a) /\ FreeAt(k) /\ SameUsed(m.heap, k.heap)
         /\ a \in DOMAIN k.heap /\ ~k.heap[a].used /\ DOMAIN k.heap \subseteq DOMAIN m.heap
         /\ k.heap[a].next = MemSize \/ k.heap[k.heap[a].next].used
         /\ k.heap[a].prev = m.heap[a].prev
         /\ k = [heap |-> k.heap, lfree |-> k.lfree]
<1>1. PICK h, n : h = m.heap /\ n = h[a].next
  OBVIOUS
<1>2. CASE n = MemSize \/ h[n].used
  <2>1. k = m
    BY <1>1, <1>2 DEF PlugForward
  <2> QED BY <1>1, <1>2, <2>1 DEF SameUsed
<1>3. CASE ~(n = MemSize \/ h[n].used)
  <2>1. PICK g : g = [b \in DOMAIN h \ {n} |->
                        CASE b = a -> [h[a] EXCEPT !.next = h[n].next]
                          [] b = h[n].next -> [h[b] EXCEPT !.prev = a]
                          [] OTHER -> h[b]]
    OBVIOUS
  <2>2. k = [heap |-> g, lfree |-> IF m.lfree = n THEN a ELSE m.lfree]
    BY <1>1, <1>3, <2>1 DEF PlugForward
  <2>3. /\ h[n].next \in DOMAIN h /\ n \in DOMAIN h /\ h[n].next # n /\ h[n].next # a /\ a # n
        /\ a \in DOMAIN h /\ h[n].next \in Int /\ a \in Int
    BY <1>1, <1>3, NextFacts
  <2>4. h \in [DOMAIN h -> Blocks]
    BY <1>1 DEF Linked
  <2>5. Joined(h, g, a, n)
    <3>1. DOMAIN g = DOMAIN h \ {n}
      BY <2>1
    <3>2. \A b \in DOMAIN g :
            g[b] = CASE b = a -> [h[a] EXCEPT !.next = h[n].next]
                     [] b = h[n].next -> [h[b] EXCEPT !.prev = a]
                     [] OTHER -> h[b]
      BY <2>1
    <3>3. \A b \in DOMAIN g : h[b] \in Blocks
      BY <2>4, <3>1
    <3>4. g[a] = [h[a] EXCEPT !.next = h[n].next]
      BY <2>3, <3>1, <3>2
    <3>5. g[h[n].next] = [h[h[n].next] EXCEPT !.prev = a]
      BY <2>3, <3>1, <3>2
    <3>6. \A b \in DOMAIN g : b # a /\ b # h[n].next => g[b] = h[b]
      BY <3>2
    <3>7. g[a].next = h[n].next /\ g[a].prev = h[a].prev /\ g[a].used = h[a].used /\ g[a] \in Blocks
      BY <2>3, <3>1, <3>3, <3>4 DEF Blocks
    <3>8. LET e == h[n].next IN
          g[e].next = h[e].next /\ g[e].prev = a /\ g[e].used = h[e].used /\ g[e] \in Blocks
      BY <2>3, <3>1, <3>3, <3>5 DEF Blocks
    <3>9. g \in [DOMAIN g -> Blocks]
      BY <2>1, <3>3, <3>6, <3>7, <3>8
    <3> QED BY <3>1, <3>6, <3>7, <3>8, <3>9 DEF Joined
  <2>6. Linked(g)
    BY <1>1, <1>3, <2>5, JoinedLinked
  <2>7. ApartBut(g, a) /\ SameUsed(h, g) /\ (g[a].next = MemSize \/ g[g[a].next].used)
    BY <1>1, <1>3, <2>5, JoinedApart
  <2>8. FreeAt(k)
    BY <1>1, <2>2, <2>3, <2>5 DEF FreeAt, Joined
  <2> QED BY <1>1, <2>2, <2>3, <2>5, <2>6, <2>7, <2>8 DEF Joined
<1> QED BY <1>2, <1>3

LEMMA BackwardFacts ==
  ASSUME NEW m, Linked(m.heap), NEW a \in DOMAIN m.heap \ {MemSize}, ~m.heap[a].used,
         ApartBut(m.heap, a), m.heap[a].next = MemSize \/ m.heap[m.heap[a].next].used,
         FreeAt(m), m = [heap |-> m.heap, lfree |-> m.lfree],
         NEW k, k = PlugBackward(m, a)
  PROVE  /\ Linked(k.heap) /\ Apart(k.heap) /\ FreeAt(k) /\ SameUsed(m.heap, k.heap)
         /\ DOMAIN k.heap \subseteq DOMAIN m.heap
         /\ k = [heap |-> k.heap, lfree |-> k.lfree]
<1>1. PICK h, p : h = m.heap /\ p = h[a].prev
  OBVIOUS
<1>2. CASE p = a \/ h[p].used
  <2>1. k = m
    BY <1>1, <1>2 DEF PlugBackward
  <2>2. ASSUME NEW b \in DOMAIN h \ {MemSize}, h[b].next # MemSize
        PROVE  h[b].used \/ h[h[b].next].used
    <3>1. CASE b = a
      BY <1>1, <2>2, <3>1
    <3>2. CASE h[b].next = a
      <4>1. h[a].prev = b /\ b # a
        BY <1>1, <3>2, NextFacts
      <4> QED BY <1>1, <1>2, <4>1
    <3>3. CASE b # a /\ h[b].next # a
      BY <1>1, <2>2, <3>3 DEF ApartBut
    <3> QED BY <3>1, <3>2, <3>3
  <2> QED BY <1>1, <2>1, <2>2 DEF SameUsed, Apart
<1>3. CASE ~(p = a \/ h[p].used)
  <2>1. a # 0
    BY <1>1, <1>3 DEF Linked
  <2>2. p \in DOMAIN h \ {MemSize} /\ h[p].next = a
    BY <1>1, <2>1 DEF Linked
  <2>3. PICK g : g = [b \in DOMAIN h \ {a} |->
                        CASE b = p -> [h[p] EXCEPT !.next = h[a].next]
                          [] b = h[a].next -> [h[b] EXCEPT !.prev = p]
                          [] OTHER -> h[b]]
    OBVIOUS
  <2>4. k = [heap |-> g, lfree |-> IF m.lfree = a THEN p ELSE m.lfree]
    BY <1>1, <1>3, <2>3 DEF PlugBackward
  <2>5. /\ h[a].next \in DOMAIN h /\ a \in DOMAIN h /\ h[a].next # a /\ h[a].next # p /\ a # p
        /\ h[a].next \in Int /\ p \in Int
    BY <1>1, <2>2, NextFacts
  <2>6. h \in [DOMAIN h -> Blocks]
    BY <1>1 DEF Linked
  <2>7. Joined(h, g, p, a)
    <3>1. DOMAIN g = DOMAIN h \ {a}
      BY <2>3
    <3>2. \A b \in DOMAIN g :
            g[b] = CASE b = p -> [h[p] EXCEPT !.next = h[a].next]
                     [] b = h[a].next -> [h[b] EXCEPT !.prev = p]
                     [] OTHER -> h[b]
      BY <2>3
    <3>3. \A b \in DOMAIN g : h[b] \in Blocks
      BY <2>6, <3>1
    <3>4. g[p] = [h[p] EXCEPT !.next = h[a].next]
      BY <2>2, <2>5, <3>1, <3>2
    <3>5. g[h[a].next] = [h[h[a].next] EXCEPT !.prev = p]
      BY <2>5, <3>1, <3>2
    <3>6. \A b \in DOMAIN g : b # p /\ b # h[a].next => g[b] = h[b]
      BY <3>2
    <3>7. g[p].next = h[a].next /\ g[p].prev = h[p].prev /\ g[p].used = h[p].used /\ g[p] \in Blocks
      BY <2>2, <2>5, <3>1, <3>3, <3>4 DEF Blocks
    <3>8. LET e == h[a].next IN
          g[e].next = h[e].next /\ g[e].prev = p /\ g[e].used = h[e].used /\ g[e] \in Blocks
      BY <2>5, <3>1, <3>3, <3>5 DEF Blocks
    <3>9. g \in [DOMAIN g -> Blocks]
      BY <2>3, <3>3, <3>6, <3>7, <3>8
    <3> QED BY <3>1, <3>6, <3>7, <3>8, <3>9 DEF Joined
  <2>8. Linked(g)
    BY <1>1, <2>2, <2>7, JoinedLinked
  <2>9. ApartBut(g, p) /\ SameUsed(h, g) /\ (g[p].prev = p \/ g[g[p].prev].used)
    BY <1>1, <1>3, <2>2, <2>7, JoinedApart
  <2>10. g[p].next = MemSize \/ g[g[p].next].used
    BY <1>1, <2>2, <2>5, <2>7 DEF Joined
  <2>11. ASSUME NEW b \in DOMAIN g \ {MemSize}, g[b].next # MemSize
         PROVE  g[b].used \/ g[g[b].next].used
    <3>1. CASE b = p
      BY <2>10, <2>11, <3>1
    <3>2. CASE g[b].next = p
      <4>1. g[p].prev = b /\ b # p
        BY <2>2, <2>8, <2>11, <3>2, NextFacts
      <4> QED BY <2>9, <4>1
    <3>3. CASE b # p /\ g[b].next # p
      BY <2>9, <2>11, <3>3 DEF ApartBut
    <3> QED BY <3>1, <3>2, <3>3
  <2>12. FreeAt(k)
    BY <1>1, <1>3, <2>2, <2>4, <2>7 DEF FreeAt, Joined
  <2> QED BY <1>1, <2>4, <2>7, <2>8, <2>9, <2>11, <2>12 DEF Joined, Apart
<1> QED BY <1>2, <1>3

LEMMA SameUsedTrans ==
  ASSUME NEW f, NEW g, NEW h, SameUsed(f, g), SameUsed(g, h)
  PROVE  SameUsed(f, h)
BY DEF SameUsed

(* plug_holes *)
LEMMA PlugFacts ==
  ASSUME NEW m, Linked(m.heap), NEW a \in DOMAIN m.heap \ {MemSize}, ~m.heap[a].used,
         ApartBut(m.heap, a), FreeAt(m), m = [heap |-> m.heap, lfree |-> m.lfree],
         NEW k, k = PlugHoles(m, a)
  PROVE  /\ Linked(k.heap) /\ Apart(k.heap) /\ FreeAt(k) /\ SameUsed(m.heap, k.heap)
         /\ DOMAIN k.heap \subseteq DOMAIN m.heap
         /\ k = [heap |-> k.heap, lfree |-> k.lfree]
<1>1. PICK f : f = PlugForward(m, a)
  OBVIOUS
<1>2. /\ Linked(f.heap) /\ ApartBut(f.heap, a) /\ FreeAt(f) /\ SameUsed(m.heap, f.heap)
      /\ a \in DOMAIN f.heap /\ ~f.heap[a].used /\ DOMAIN f.heap \subseteq DOMAIN m.heap
      /\ f.heap[a].next = MemSize \/ f.heap[f.heap[a].next].used
      /\ f = [heap |-> f.heap, lfree |-> f.lfree]
  BY <1>1, ForwardFacts
<1>3. k = PlugBackward(f, a)
  BY <1>1 DEF PlugHoles
<1>4. /\ Linked(k.heap) /\ Apart(k.heap) /\ FreeAt(k) /\ SameUsed(f.heap, k.heap)
      /\ DOMAIN k.heap \subseteq DOMAIN f.heap
      /\ k = [heap |-> k.heap, lfree |-> k.lfree]
  BY <1>2, <1>3, BackwardFacts
<1> QED BY <1>2, <1>4, SameUsedTrans

(* A memory between two calls. *)
GoodMem(m) == /\ Linked(m.heap) /\ Apart(m.heap) /\ FreeAt(m)
              /\ m = [heap |-> m.heap, lfree |-> m.lfree]

(* The least number of a set. *)
Less == {ss \in Nat \X Nat : ss[1] < ss[2]}

LEMMA Least ==
  ASSUME NEW S \in SUBSET Nat, S # {}
  PROVE  \E x \in S : \A y \in S : x <= y
<1>1. IsWellFoundedOn(Less, Nat)
  BY NatLessThanWellFounded DEF OpToRel, Less
<1>2. S \subseteq Nat
  OBVIOUS
<1>3. PICK x \in S : \A y \in S : ~(<<y, x>> \in Less)
  BY <1>1, <1>2, WFMin, Zenon
<1>4. \A y \in S : y \in Nat /\ x \in Nat /\ <<y, x>> \in Nat \X Nat
  OBVIOUS
<1>5. \A y \in S : ~(y < x)
  BY <1>3, <1>4 DEF Less
<1> QED BY <1>4, <1>5

(* mem_malloc may stop at this block. *)
Stop(m, size, ptr) ==
  \/ ptr = MemSize
  \/ /\ ~m.heap[ptr].used
     /\ m.heap[ptr].next - (ptr + Hdr) >= size + Hdr

FitAt(m, size) == CHOOSE fit : fit = [ptr \in DOMAIN m.heap |->
                   IF Stop(m, size, ptr) THEN ptr ELSE fit[m.heap[ptr].next]]

LEMMA FitsDef ==
  ASSUME NEW m, NEW size
  PROVE  FirstFit(m, size) = FitAt(m, size)[m.lfree]
BY DEF FirstFit, FitAt, Stop

LEMMA FitsExists ==
  ASSUME NEW m, NEW size, Linked(m.heap)
  PROVE  FitAt(m, size) = [ptr \in DOMAIN m.heap |->
           IF Stop(m, size, ptr) THEN ptr ELSE FitAt(m, size)[m.heap[ptr].next]]
<1> DEFINE D == DOMAIN m.heap
           Ends(ptr) == {b \in D : b >= ptr /\ Stop(m, size, b)}
           g == [ptr \in D |-> CHOOSE b \in Ends(ptr) : \A c \in Ends(ptr) : b <= c]
<1>1. D \subseteq Nat /\ MemSize \in D /\ \A b \in D : b <= MemSize
  BY Consts DEF Linked
<1>2. ASSUME NEW ptr \in D, Stop(m, size, ptr) PROVE g[ptr] = ptr
  <2>1. ptr \in Ends(ptr) /\ \A c \in Ends(ptr) : ptr <= c
    BY <1>1, <1>2
  <2>2. \A b \in Ends(ptr) : (\A c \in Ends(ptr) : b <= c) => b = ptr
    BY <1>1, <2>1
  <2> QED BY <2>1, <2>2
<1>3. ASSUME NEW ptr \in D, ~Stop(m, size, ptr) PROVE g[ptr] = g[m.heap[ptr].next]
  <2>1. ptr \in D \ {MemSize}
    BY <1>3 DEF Stop
  <2>2. m.heap[ptr].next \in D /\ ptr < m.heap[ptr].next
        /\ \A b \in D : b <= ptr \/ b >= m.heap[ptr].next
    BY <2>1 DEF Linked
  <2>3. ASSUME NEW b \in D PROVE b \in Ends(ptr) <=> b \in Ends(m.heap[ptr].next)
    BY <1>1, <1>3, <2>2
  <2>4. Ends(ptr) = Ends(m.heap[ptr].next)
    BY <2>3
  <2> QED BY <2>2, <2>4
<1>4. PICK f : f = g
  OBVIOUS
<1>5. \E F : f = [ptr \in D |-> F[ptr]]
  BY <1>4
<1> HIDE DEF g
<1>6. ASSUME NEW ptr \in D
      PROVE  f[ptr] = IF Stop(m, size, ptr) THEN ptr ELSE f[m.heap[ptr].next]
  <2>1. CASE Stop(m, size, ptr)
    BY <1>2, <1>4, <2>1
  <2>2. CASE ~Stop(m, size, ptr)
    BY <1>3, <1>4, <2>2
  <2> QED BY <2>1, <2>2
<1>7. f = [ptr \in D |-> IF Stop(m, size, ptr) THEN ptr ELSE f[m.heap[ptr].next]]
  BY <1>5, <1>6
<1> QED BY <1>7 DEF FitAt

LEMMA FirstFitFacts ==
  ASSUME NEW m, NEW size, Linked(m.heap), FreeAt(m), NEW a, a = FirstFit(m, size), a # MemSize
  PROVE  /\ a \in DOMAIN m.heap \ {MemSize} /\ ~m.heap[a].used
         /\ m.heap[a].next - (a + Hdr) >= size + Hdr
<1>1. PICK f : f = FitAt(m, size)
  OBVIOUS
<1>2. \A ptr \in DOMAIN m.heap :
        f[ptr] = IF Stop(m, size, ptr) THEN ptr ELSE f[m.heap[ptr].next]
  BY <1>1, FitsExists
<1> DEFINE Good(ptr) == f[ptr] \in DOMAIN m.heap /\ Stop(m, size, f[ptr])
           Bad == {k \in Nat : \E ptr \in DOMAIN m.heap : ~Good(ptr) /\ k = MemSize - ptr}
<1>3. DOMAIN m.heap \subseteq 0 .. MemSize /\ MemSize \in Nat
  BY Consts DEF Linked
<1>4. Bad = {}
  <2> SUFFICES ASSUME Bad # {} PROVE FALSE
    OBVIOUS
  <2>1. Bad \in SUBSET Nat
    OBVIOUS
  <2>2. PICK k \in Bad : \A y \in Bad : k <= y
    BY <2>1, Least
  <2>3. PICK ptr \in DOMAIN m.heap : ~Good(ptr) /\ k = MemSize - ptr
    OBVIOUS
  <2>4. ~Stop(m, size, ptr)
    BY <1>2, <2>3
  <2>5. f[ptr] = f[m.heap[ptr].next]
    BY <1>2, <2>4
  <2>6. ptr # MemSize
    BY <2>4 DEF Stop
  <2>7. m.heap[ptr].next \in DOMAIN m.heap /\ ptr < m.heap[ptr].next
    BY <2>6 DEF Linked
  <2>8. ~Good(m.heap[ptr].next)
    BY <2>3, <2>5
  <2>9. MemSize - m.heap[ptr].next \in Nat /\ MemSize - m.heap[ptr].next < k /\ k \in Int
    BY <1>3, <2>3, <2>7
  <2>10. MemSize - m.heap[ptr].next \in Bad
    BY <2>7, <2>8, <2>9
  <2> HIDE DEF Bad
  <2> QED BY <2>2, <2>9, <2>10
<1>5. \A ptr \in DOMAIN m.heap : MemSize - ptr \in Nat
  BY <1>3
<1>6. \A ptr \in DOMAIN m.heap : Good(ptr)
  BY <1>4, <1>5
<1>7. m.lfree \in DOMAIN m.heap /\ a = f[m.lfree]
  BY <1>1, FitsDef DEF FreeAt
<1>8. a \in DOMAIN m.heap /\ Stop(m, size, a)
  BY <1>6, <1>7
<1> QED BY <1>8 DEF Stop

(* The block at a is cut at b. *)
LEMMA CutFacts ==
  ASSUME NEW m, Linked(m.heap), m = [heap |-> m.heap, lfree |-> m.lfree],
         NEW a \in DOMAIN m.heap \ {MemSize}, NEW b \in Int, a < b, b < m.heap[a].next,
         NEW k, k = Cut(m, a, b)
  PROVE  /\ Linked(k.heap) /\ DOMAIN k.heap = DOMAIN m.heap \cup {b} /\ b \notin DOMAIN m.heap
         /\ k.heap[a].next = b /\ k.heap[b].next = m.heap[a].next /\ k.heap[b].prev = a
         /\ ~k.heap[b].used
         /\ \A c \in DOMAIN m.heap : /\ k.heap[c].used = m.heap[c].used
                                     /\ c # a => k.heap[c].next = m.heap[c].next
         /\ k = [heap |-> k.heap, lfree |-> m.lfree]
<1>1. PICK h, n : h = m.heap /\ n = h[a].next
  OBVIOUS
<1>2. /\ a \in Int /\ n \in Int /\ n \in DOMAIN h /\ a < n /\ a >= 0 /\ a < MemSize /\ n <= MemSize
      /\ \A c \in DOMAIN h : c \in Int /\ c >= 0 /\ c <= MemSize /\ (c <= a \/ c >= n)
      /\ n # MemSize => h[n].prev = a
  BY <1>1, NextFacts
<1>3. a < b /\ b < n /\ b \notin DOMAIN h
  BY <1>1, <1>2
<1>4. PICK g : g = [c \in DOMAIN h \cup {b} |->
         CASE c = a -> [h[a] EXCEPT !.next = b]
           [] c = b -> [next |-> n, prev |-> a, used |-> FALSE]
           [] c = n /\ n # MemSize -> [h[n] EXCEPT !.prev = b]
           [] OTHER -> h[c]]
  OBVIOUS
<1>5. k = [heap |-> g, lfree |-> m.lfree]
  <2>1. k = [m EXCEPT !.heap = g]
    BY <1>1, <1>4 DEF Cut
  <2> QED BY <2>1
<1>6. h \in [DOMAIN h -> Blocks]
  BY <1>1 DEF Linked
<1>7. DOMAIN g = DOMAIN h \cup {b}
  BY <1>4
<1>8. g[a] = [h[a] EXCEPT !.next = b]
  <2>1. a \in DOMAIN h \cup {b} /\ a # b /\ a # n
    BY <1>1, <1>2, <1>3
  <2>2. \A c \in DOMAIN h \cup {b} :
          g[c] = CASE c = a -> [h[a] EXCEPT !.next = b]
                   [] c = b -> [next |-> n, prev |-> a, used |-> FALSE]
                   [] c = n /\ n # MemSize -> [h[n] EXCEPT !.prev = b]
                   [] OTHER -> h[c]
    BY <1>4
  <2> QED BY <2>1, <2>2
<1>9. g[b] = [next |-> n, prev |-> a, used |-> FALSE]
  BY <1>3, <1>4, <1>1
<1>10. n # MemSize => g[n] = [h[n] EXCEPT !.prev = b]
  BY <1>2, <1>3, <1>4
<1>11. \A c \in DOMAIN h : c # a /\ (c # n \/ n = MemSize) => g[c] = h[c]
  BY <1>3, <1>4
<1>12. /\ g[a].next = b /\ g[a].prev = h[a].prev /\ g[a].used = h[a].used /\ g[a] \in Blocks
  BY <1>1, <1>6, <1>8 DEF Blocks
<1>13. g[b].next = n /\ g[b].prev = a /\ ~g[b].used /\ g[b] \in Blocks
  BY <1>2, <1>9 DEF Blocks
<1>14. n # MemSize => /\ g[n].next = h[n].next /\ g[n].prev = b /\ g[n].used = h[n].used
                      /\ g[n] \in Blocks
  BY <1>2, <1>6, <1>10 DEF Blocks
<1>15. \A c \in DOMAIN h : /\ g[c].used = h[c].used
                           /\ c # a => g[c].next = h[c].next
                           /\ c # n => g[c].prev = h[c].prev
  BY <1>11, <1>12, <1>14
<1>16. g \in [DOMAIN g -> Blocks]
  <2>1. \A c \in DOMAIN h \cup {b} : g[c] \in Blocks
    BY <1>6, <1>11, <1>12, <1>13, <1>14
  <2> QED BY <1>4, <2>1
<1>17. MemSize \in Nat /\ 0 \in DOMAIN h /\ MemSize \in DOMAIN h
  BY <1>1, Consts DEF Linked
<1>18. DOMAIN g \subseteq 0 .. MemSize /\ 0 \in DOMAIN g /\ MemSize \in DOMAIN g
  BY <1>2, <1>3, <1>7, <1>17
<1>19. ASSUME NEW c \in DOMAIN g \ {MemSize}
       PROVE  /\ g[c].next \in DOMAIN g /\ c < g[c].next
              /\ \A d \in DOMAIN g : d <= c \/ d >= g[c].next
  <2>1. CASE c = a
    BY <1>2, <1>3, <1>7, <1>12, <2>1
  <2>2. CASE c = b
    BY <1>2, <1>3, <1>7, <1>13, <2>2
  <2>3. CASE c # a /\ c # b
    <3>1. c \in DOMAIN h \ {MemSize} /\ g[c].next = h[c].next
      BY <1>7, <1>15, <2>3
    <3>2. h[c].next \in DOMAIN h /\ c < h[c].next /\ \A d \in DOMAIN h : d <= c \/ d >= h[c].next
      BY <1>1, <3>1 DEF Linked
    <3>3. b <= c \/ b >= h[c].next
      <4>1. a <= c \/ a >= h[c].next
        BY <1>1, <3>2
      <4>2. c <= a \/ c >= n
        BY <1>2, <3>1
      <4>3. h[c].next \in Int /\ c \in Int
        BY <1>2, <3>1, <3>2
      <4> QED BY <1>2, <1>3, <2>3, <3>2, <4>1, <4>2, <4>3
    <3> QED BY <1>7, <3>1, <3>2, <3>3
  <2> QED BY <2>1, <2>2, <2>3
<1>20. ASSUME NEW c \in DOMAIN g \ {0, MemSize}
       PROVE  g[c].prev \in DOMAIN g \ {MemSize} /\ g[g[c].prev].next = c
  <2>1. CASE c = b
    BY <1>7, <1>12, <1>13, <2>1, <1>1
  <2>2. CASE c = n
    BY <1>2, <1>3, <1>7, <1>13, <1>14, <1>20, <2>2
  <2>3. CASE c # b /\ c # n
    <3>1. c \in DOMAIN h \ {0, MemSize} /\ g[c].prev = h[c].prev
      BY <1>7, <1>15, <2>3
    <3>2. h[c].prev \in DOMAIN h \ {MemSize} /\ h[h[c].prev].next = c
      BY <1>1, <3>1 DEF Linked
    <3>3. h[c].prev # a
      BY <1>1, <2>3, <3>2
    <3> QED BY <1>7, <1>15, <3>1, <3>2, <3>3
  <2> QED BY <2>1, <2>2, <2>3
<1>21. g[0].prev = 0 /\ g[MemSize].used
  BY <1>1, <1>2, <1>15, <1>17 DEF Linked
<1>22. Linked(g)
  BY <1>16, <1>18, <1>19, <1>20, <1>21 DEF Linked
<1> QED BY <1>1, <1>3, <1>5, <1>7, <1>12, <1>13, <1>15, <1>22

(* k is m with n bytes and a header at a in use. *)
Taken(m, k, a, n) ==
  /\ GoodMem(k) /\ a \in DOMAIN m.heap \ {MemSize} /\ ~m.heap[a].used
  /\ a \in DOMAIN k.heap /\ k.heap[a].used
  /\ k.heap[a].next = a + Hdr + AlignUp(n)
  /\ \A b : b # a => (b \in DOMAIN k.heap /\ k.heap[b].used <=>
                      b \in DOMAIN m.heap /\ m.heap[b].used)
  /\ \A b \in DOMAIN m.heap \ {MemSize} : b # a /\ m.heap[b].used
       => k.heap[b].next = m.heap[b].next

(* mem_malloc *)
LEMMA MallocFacts ==
  ASSUME NEW m, GoodMem(m), NEW n \in Nat, NEW a, a = Found(m, n), a # MemSize,
         NEW k, k = MemMalloc(m, a, n)
  PROVE  Taken(m, k, a, n)
<1>1. a = FirstFit(m, AlignUp(n))
  BY DEF Found
<1>2. /\ a \in DOMAIN m.heap \ {MemSize} /\ ~m.heap[a].used
      /\ m.heap[a].next - (a + Hdr) >= AlignUp(n) + Hdr
  BY <1>1, FirstFitFacts DEF GoodMem
<1>3. PICK e, b : e = m.heap[a].next /\ b = a + Hdr + AlignUp(n)
  OBVIOUS
<1>4. AlignUp(n) \in Nat /\ Hdr \in Nat /\ Hdr > 0
  BY AlignBounds, Consts
<1>5. a \in Int /\ e \in Int
  BY <1>2, <1>3, NextFacts DEF GoodMem
<1>6. b \in Int /\ a < b /\ b < m.heap[a].next
  BY <1>2, <1>3, <1>4, <1>5
<1>7. PICK c : c = Cut(m, a, b)
  OBVIOUS
<1>8. /\ Linked(c.heap) /\ DOMAIN c.heap = DOMAIN m.heap \cup {b} /\ b \notin DOMAIN m.heap
      /\ c.heap[a].next = b /\ c.heap[b].next = e /\ c.heap[b].prev = a
      /\ ~c.heap[b].used
      /\ \A d \in DOMAIN m.heap : /\ c.heap[d].used = m.heap[d].used
                                  /\ d # a => c.heap[d].next = m.heap[d].next
  BY <1>2, <1>3, <1>6, <1>7, CutFacts DEF GoodMem
<1>9. PICK h, g : h = c.heap /\ g = [h EXCEPT ![a].used = TRUE]
  OBVIOUS
<1>10. k = [heap |-> g, lfree |-> IF m.lfree = a THEN h[a].next ELSE m.lfree]
  BY <1>3, <1>7, <1>9 DEF MemMalloc
<1>11. h \in [DOMAIN h -> Blocks] /\ a \in DOMAIN h
  BY <1>2, <1>8, <1>9 DEF Linked
<1>12. /\ DOMAIN g = DOMAIN h /\ g \in [DOMAIN g -> Blocks] /\ g[a].used
       /\ \A d \in DOMAIN h : /\ g[d].next = h[d].next /\ g[d].prev = h[d].prev
                              /\ d # a => g[d].used = h[d].used
  BY <1>9, <1>11 DEF Blocks
<1>13. Linked(g)
  <2>1. Linked(h)
    BY <1>8, <1>9
  <2>2. g[MemSize].used
    BY <1>2, <1>12, <2>1 DEF Linked
  <2> QED BY <1>12, <2>1, <2>2 DEF Linked
<1>14. Apart(g)
  <2> SUFFICES ASSUME NEW d \in DOMAIN g \ {MemSize}, g[d].next # MemSize
               PROVE  g[d].used \/ g[g[d].next].used
    BY DEF Apart
  <2>1. CASE d = a
    BY <1>12, <2>1
  <2>2. CASE d = b
    <3>1. g[d].next = e /\ e \in DOMAIN m.heap
      BY <1>2, <1>3, <1>8, <1>9, <1>12, <2>2 DEF GoodMem, Linked
    <3>2. m.heap[e].used
      BY <1>2, <1>3, <3>1 DEF GoodMem, Apart
    <3>3. e # a
      BY <1>2, <3>2
    <3> QED BY <1>8, <1>9, <1>12, <3>1, <3>2, <3>3
  <2>3. CASE d # a /\ d # b
    <3>1. d \in DOMAIN m.heap \ {MemSize} /\ g[d].next = m.heap[d].next
      BY <1>8, <1>9, <1>12, <2>3
    <3>2. m.heap[d].used \/ m.heap[m.heap[d].next].used
      BY <3>1 DEF GoodMem, Apart
    <3>3. m.heap[d].next \in DOMAIN m.heap
      BY <3>1 DEF GoodMem, Linked
    <3> QED BY <1>2, <1>8, <1>9, <1>12, <3>1, <3>2, <3>3
  <2> QED BY <2>1, <2>2, <2>3
<1>15. FreeAt(k)
  <2>1. m.lfree \in DOMAIN m.heap /\ ~m.heap[m.lfree].used
    BY DEF GoodMem, FreeAt
  <2>2. a # b
    BY <1>6, <1>5
  <2> QED BY <1>8, <1>9, <1>10, <1>12, <2>1, <2>2 DEF FreeAt
<1>16. GoodMem(k)
  BY <1>10, <1>13, <1>14, <1>15 DEF GoodMem
<1> QED BY <1>2, <1>3, <1>8, <1>9, <1>10, <1>12, <1>16 DEF Taken

(* k is m with the block at a in use no more. *)
Freed(m, k, a) ==
  /\ GoodMem(k) /\ DOMAIN k.heap \subseteq DOMAIN m.heap
  /\ \A b : b \in DOMAIN k.heap /\ k.heap[b].used <=>
             b # a /\ b \in DOMAIN m.heap /\ m.heap[b].used
  /\ \A b \in DOMAIN m.heap \ {MemSize} : b # a /\ m.heap[b].used
        => k.heap[b].next = m.heap[b].next

(* mem_free *)
LEMMA FreeFacts ==
  ASSUME NEW m, GoodMem(m), NEW p \in Int, NEW a, a = HeaderOf(p),
         a \in DOMAIN m.heap \ {MemSize}, m.heap[a].used,
         NEW k, k = MemFree(m, p)
  PROVE  Freed(m, k, a)
<1>1. PICK h, g : h = m.heap /\ g = [h EXCEPT ![a].used = FALSE]
  OBVIOUS
<1>2. PICK f : f = [heap |-> g, lfree |-> IF a < m.lfree THEN a ELSE m.lfree]
  OBVIOUS
<1>3. k = PlugHoles(f, a)
  BY <1>1, <1>2 DEF MemFree
<1>4. h \in [DOMAIN h -> Blocks] /\ a \in DOMAIN h /\ Linked(h) /\ Apart(h)
  BY <1>1 DEF Linked, GoodMem
<1>5. /\ DOMAIN g = DOMAIN h /\ g \in [DOMAIN g -> Blocks] /\ ~g[a].used
      /\ \A d \in DOMAIN h : /\ g[d].next = h[d].next /\ g[d].prev = h[d].prev
                             /\ d # a => g[d].used = h[d].used
  BY <1>1, <1>4 DEF Blocks
<1>6. Linked(g)
  <2>1. g[MemSize].used
    BY <1>1, <1>4, <1>5 DEF Linked
  <2> QED BY <1>4, <1>5, <2>1 DEF Linked
<1>7. ApartBut(g, a)
  <2>1. \A d \in DOMAIN h \ {MemSize} : h[d].next \in DOMAIN h
    BY <1>4 DEF Linked
  <2> QED BY <1>4, <1>5, <2>1 DEF Apart, ApartBut
<1>8. FreeAt(f)
  <2>1. m.lfree \in DOMAIN h /\ ~h[m.lfree].used /\ m.lfree # a
    BY <1>1 DEF GoodMem, FreeAt
  <2>2. f.heap = g /\ f.lfree \in {a, m.lfree}
    BY <1>2
  <2> QED BY <1>4, <1>5, <2>1, <2>2 DEF FreeAt
<1>9. /\ Linked(k.heap) /\ Apart(k.heap) /\ FreeAt(k) /\ SameUsed(g, k.heap)
      /\ DOMAIN k.heap \subseteq DOMAIN g
      /\ k = [heap |-> k.heap, lfree |-> k.lfree]
  <2>1. f.heap = g /\ f = [heap |-> f.heap, lfree |-> f.lfree]
    BY <1>2
  <2>2. a \in DOMAIN g \ {MemSize}
    BY <1>5, <1>1
  <2> QED BY <1>3, <1>5, <1>6, <1>7, <1>8, <2>1, <2>2, PlugFacts
<1> QED BY <1>1, <1>5, <1>9 DEF GoodMem, SameUsed, Freed

(* k is m with the block at a, whose data is at p, cut to n bytes of it or left as it was. *)
Reallocated(m, k, p, a, n) ==
  /\ GoodMem(k)
  /\ \A b : b \in DOMAIN k.heap /\ k.heap[b].used <=> b \in DOMAIN m.heap /\ m.heap[b].used
  /\ \A b \in DOMAIN m.heap \ {MemSize} : b # a /\ m.heap[b].used
       => k.heap[b].next = m.heap[b].next
  /\ k.heap[a].next = m.heap[a].next \/ k.heap[a].next = p + n

(* mem_realloc *)
LEMMA ReallocFacts ==
  ASSUME NEW m, GoodMem(m), NEW p \in Int, NEW a, a = HeaderOf(p),
         a \in DOMAIN m.heap \ {MemSize}, m.heap[a].used, NEW n \in Nat,
         NEW k, k = MemRealloc(m, p, n)
  PROVE  Reallocated(m, k, p, a, n)
<1>1. PICK b : b = a + Hdr + n
  OBVIOUS
<1>2. CASE n + Hdr + MinSize < m.heap[a].next - p
  <2>1. k = PlugHoles(Cut(m, a, b), b)
    BY <1>1, <1>2 DEF MemRealloc
  <2>2. PICK c : c = Cut(m, a, b)
    OBVIOUS
  <2>3. /\ a \in Int /\ m.heap[a].next \in Int /\ m.heap[a].next \in DOMAIN m.heap
        /\ a < m.heap[a].next /\ m.heap[a].next <= MemSize
    BY NextFacts DEF GoodMem
  <2>4. Hdr \in Nat /\ Hdr > 0 /\ MinSize \in Nat /\ MemSize \in Nat
    BY Consts
  <2>5. a = p - Hdr
    BY DEF HeaderOf
  <2>6. b \in Int /\ a < b /\ b < m.heap[a].next /\ b = p + n /\ b < MemSize
    BY <1>1, <1>2, <2>3, <2>4, <2>5
  <2>7. /\ Linked(c.heap) /\ DOMAIN c.heap = DOMAIN m.heap \cup {b} /\ b \notin DOMAIN m.heap
        /\ c.heap[a].next = b /\ c.heap[b].next = m.heap[a].next
        /\ ~c.heap[b].used
        /\ \A d \in DOMAIN m.heap : /\ c.heap[d].used = m.heap[d].used
                                    /\ d # a => c.heap[d].next = m.heap[d].next
        /\ c = [heap |-> c.heap, lfree |-> m.lfree]
    BY <2>2, <2>6, CutFacts DEF GoodMem
  <2>8. ApartBut(c.heap, b)
    <3> SUFFICES ASSUME NEW d \in DOMAIN c.heap \ {MemSize}, c.heap[d].next # MemSize, d # b,
                        c.heap[d].next # b
                 PROVE  c.heap[d].used \/ c.heap[c.heap[d].next].used
      BY DEF ApartBut
    <3>1. d \in DOMAIN m.heap \ {MemSize} /\ d # a /\ c.heap[d].next = m.heap[d].next
      BY <2>7
    <3>2. m.heap[d].next \in DOMAIN m.heap
      BY <3>1 DEF GoodMem, Linked
    <3>3. m.heap[d].used \/ m.heap[m.heap[d].next].used
      BY <3>1 DEF GoodMem, Apart
    <3> QED BY <2>7, <3>1, <3>2, <3>3
  <2>9. FreeAt(c)
    <3>1. m.lfree \in DOMAIN m.heap /\ ~m.heap[m.lfree].used /\ c.lfree = m.lfree
      BY <2>7 DEF GoodMem, FreeAt
    <3> QED BY <2>7, <3>1 DEF FreeAt
  <2>10. /\ Linked(k.heap) /\ Apart(k.heap) /\ FreeAt(k) /\ SameUsed(c.heap, k.heap)
         /\ k = [heap |-> k.heap, lfree |-> k.lfree]
    <3>1. b \in DOMAIN c.heap \ {MemSize} /\ c = [heap |-> c.heap, lfree |-> c.lfree]
      BY <2>6, <2>7, <2>4
    <3> QED BY <2>1, <2>2, <2>7, <2>8, <2>9, <3>1, PlugFacts
  <2>11. k.heap[a].next = b
    BY <2>7, <2>10 DEF SameUsed
  <2> QED BY <2>6, <2>7, <2>10, <2>11 DEF GoodMem, SameUsed, Reallocated
<1>3. CASE ~(n + Hdr + MinSize < m.heap[a].next - p)
  <2>1. k = m
    BY <1>3 DEF MemRealloc
  <2> QED BY <2>1 DEF Reallocated
<1> QED BY <1>2, <1>3

-----------------------------------------------------------------------------
Pbufs == [pay : Int, len : Int, tot : Int, ref : Int, next : Int, out : BOOLEAN]

(* The headers that are not in D are in the pool, each once. *)
PoolOK(q, D) ==
  /\ q \in Seq(Int) /\ \A i, j \in 1 .. Len(q) : q[i] = q[j] => i = j
  /\ \A i \in 1 .. Len(q) : q[i] \in -NumPbuf .. -1 /\ q[i] \notin D
  /\ \A x \in -NumPbuf .. -1 : x \in D \/ \E i \in 1 .. Len(q) : q[i] = x
  /\ \A x \in D : x < 0 => x >= -NumPbuf

(* The blocks in use are those of the pbufs in RAM. *)
RamOK(h, D) ==
  \A a \in Int : (a \in DOMAIN h \ {MemSize} /\ h[a].used) <=> (a + Hdr \in D /\ a + Hdr > 0)

(* What is known of one pbuf, whose block ends at e. *)
Sane(p, b, held_p, e) ==
  /\ b.next = Null => b.tot = b.len
  /\ p < 0 => b.out
  /\ p > 0 => p + PbufHdr <= b.pay
  /\ p > 0 /\ p % Align = 0 => b.pay + b.len <= e
  /\ held_p > 0 => b.ref = held_p

Base(s) ==
  /\ s = [m |-> s.m, pool |-> s.pool, pbuf |-> s.pbuf, held |-> s.held]
  /\ GoodMem(s.m)
  /\ DOMAIN s.pbuf \subseteq Int \ {0}
  /\ s.pbuf \in [DOMAIN s.pbuf -> Pbufs] /\ s.held \in [DOMAIN s.pbuf -> Nat]
  /\ PoolOK(s.pool, DOMAIN s.pbuf)
  /\ RamOK(s.m.heap, DOMAIN s.pbuf)
  /\ \A p \in DOMAIN s.pbuf : Sane(p, s.pbuf[p], s.held[p], s.m.heap[p - Hdr].next)

LEMMA PoolPush ==
  ASSUME NEW q, NEW D \in SUBSET Int, PoolOK(q, D), NEW p \in D, p < 0
  PROVE  PoolOK(<<p>> \o q, D \ {p})
<1>1. NumPbuf \in Nat /\ q \in Seq(Int) /\ p \in Int /\ p \in -NumPbuf .. -1
  BY Consts DEF PoolOK
<1>2. PICK r : r = <<p>> \o q
  OBVIOUS
<1>3. r \in Seq(Int) /\ Len(r) = Len(q) + 1 /\ r[1] = p /\ Len(q) \in Nat
      /\ \A i \in 2 .. Len(r) : r[i] = q[i - 1]
  BY <1>1, <1>2
<1>4. \A i \in 2 .. Len(r) : i - 1 \in 1 .. Len(q) /\ r[i] = q[i - 1] /\ r[i] # p
  BY <1>3 DEF PoolOK
<1>5. ASSUME NEW i \in 1 .. Len(r), NEW j \in 1 .. Len(r), r[i] = r[j] PROVE i = j
  <2>1. CASE i = 1 \/ j = 1
    BY <1>3, <1>4, <1>5, <2>1
  <2>2. CASE i # 1 /\ j # 1
    <3>1. i \in 2 .. Len(r) /\ j \in 2 .. Len(r)
      BY <2>2, <1>3
    <3>2. i - 1 = j - 1
      BY <1>4, <1>5, <3>1 DEF PoolOK
    <3> QED BY <3>2, <3>1
  <2> QED BY <2>1, <2>2
<1>6. ASSUME NEW i \in 1 .. Len(r) PROVE r[i] \in -NumPbuf .. -1 /\ r[i] \notin D \ {p}
  <2>1. CASE i = 1
    BY <1>1, <1>3, <2>1
  <2>2. CASE i # 1
    <3>1. i \in 2 .. Len(r)
      BY <1>3, <2>2
    <3>2. i - 1 \in 1 .. Len(q) /\ r[i] = q[i - 1]
      BY <1>4, <3>1
    <3>3. q[i - 1] \in -NumPbuf .. -1 /\ q[i - 1] \notin D
      BY ONLY <3>2, PoolOK(q, D) DEF PoolOK
    <3> QED BY <3>2, <3>3
  <2> QED BY <2>1, <2>2
<1>7. ASSUME NEW x \in -NumPbuf .. -1, x \notin D \ {p} PROVE \E i \in 1 .. Len(r) : r[i] = x
  <2>1. CASE x = p
    BY <1>3, <2>1
  <2>2. CASE x # p
    <3>1. PICK i \in 1 .. Len(q) : q[i] = x
      BY <1>7, <2>2 DEF PoolOK
    <3>2. i + 1 \in 1 .. Len(r) /\ i + 1 \in 2 .. Len(r) /\ (i + 1) - 1 = i
      BY <1>3
    <3>3. r[i + 1] = x
      BY <1>3, <3>1, <3>2
    <3> QED BY <3>2, <3>3
  <2> QED BY <2>1, <2>2
<1> QED BY <1>2, <1>3, <1>5, <1>6, <1>7 DEF PoolOK

LEMMA PoolTake ==
  ASSUME NEW q, NEW D \in SUBSET Int, PoolOK(q, D), q # << >>
  PROVE  Head(q) \in Int /\ Head(q) < 0 /\ Head(q) \notin D /\ PoolOK(Tail(q), D \cup {Head(q)})
<1>1. NumPbuf \in Nat /\ q \in Seq(Int) /\ Len(q) \in Nat /\ Len(q) >= 1 /\ Head(q) = q[1]
  BY Consts DEF PoolOK
<1>2. PICK r : r = Tail(q)
  OBVIOUS
<1>3. r \in Seq(Int) /\ Len(r) = Len(q) - 1 /\ \A i \in 1 .. Len(r) : r[i] = q[i + 1]
  BY <1>1, <1>2
<1>4. \A i \in 1 .. Len(r) : i + 1 \in 1 .. Len(q) /\ i + 1 # 1
  BY <1>1, <1>3
<1>5. q[1] \in -NumPbuf .. -1 /\ q[1] \notin D /\ 1 \in 1 .. Len(q)
  BY <1>1 DEF PoolOK
<1>6. ASSUME NEW i \in 1 .. Len(r), NEW j \in 1 .. Len(r), r[i] = r[j] PROVE i = j
  <2>1. q[i + 1] = q[j + 1] /\ i + 1 \in 1 .. Len(q) /\ j + 1 \in 1 .. Len(q)
    BY <1>3, <1>4, <1>6
  <2>2. i + 1 = j + 1
    BY <2>1 DEF PoolOK
  <2> QED BY <2>2
<1>7. ASSUME NEW i \in 1 .. Len(r) PROVE r[i] \in -NumPbuf .. -1 /\ r[i] \notin D \cup {q[1]}
  BY <1>3, <1>4, <1>5 DEF PoolOK
<1>8. ASSUME NEW x \in -NumPbuf .. -1, x \notin D \cup {q[1]} PROVE \E i \in 1 .. Len(r) : r[i] = x
  <2>1. PICK i \in 1 .. Len(q) : q[i] = x
    BY <1>8 DEF PoolOK
  <2>2. i - 1 \in 1 .. Len(r) /\ r[i - 1] = x
    BY <1>1, <1>3, <1>8, <2>1
  <2> QED BY <2>2
<1>9. \A x \in D \cup {q[1]} : x < 0 => x >= -NumPbuf
  BY <1>1, <1>5 DEF PoolOK
<1>10. PoolOK(r, D \cup {q[1]})
  BY ONLY <1>3, <1>6, <1>7, <1>8, <1>9 DEF PoolOK
<1>11. q[1] \in Int /\ q[1] < 0
  BY <1>1, <1>5
<1> QED BY <1>1, <1>2, <1>5, <1>10, <1>11

LEMMA PoolKeeps ==
  ASSUME NEW q, NEW D \in SUBSET Int, PoolOK(q, D), NEW p \in Int, p > 0
  PROVE  PoolOK(q, D \cup {p}) /\ PoolOK(q, D \ {p})
<1>1. NumPbuf \in Nat /\ \A x \in -NumPbuf .. -1 : x # p
  BY Consts
<1> QED BY <1>1 DEF PoolOK

LEMMA RamBlock ==
  ASSUME NEW s, Base(s), NEW p \in DOMAIN s.pbuf, p > 0
  PROVE  /\ p \in Int /\ p - Hdr = HeaderOf(p) /\ p - Hdr \in DOMAIN s.m.heap \ {MemSize}
         /\ s.m.heap[p - Hdr].used /\ p - Hdr \in Int
<1>1. p \in Int /\ Hdr \in Nat
  BY Consts DEF Base
<1>2. p - Hdr \in Int /\ (p - Hdr) + Hdr = p
  BY <1>1
<1> QED BY <1>1, <1>2 DEF Base, RamOK, HeaderOf

(* k is s without the pbuf p. *)
Without(s, k, p) ==
  /\ Base(k)
  /\ k.pbuf = [q \in DOMAIN s.pbuf \ {p} |-> s.pbuf[q]]
  /\ k.held = [q \in DOMAIN s.pbuf \ {p} |-> s.held[q]]

(* One pbuf is given back. *)
LEMMA ReleaseFacts ==
  ASSUME NEW s, Base(s), NEW p \in DOMAIN s.pbuf, NEW k, k = Release(s, p)
  PROVE  Without(s, k, p)
<1> DEFINE D == DOMAIN s.pbuf
<1>1. /\ s = [m |-> s.m, pool |-> s.pool, pbuf |-> s.pbuf, held |-> s.held]
      /\ DOMAIN s.held = D /\ p \in Int /\ p # 0 /\ D \in SUBSET Int
  BY DEF Base
<1>2. PICK m : m = IF InRam(p) THEN MemFree(s.m, p) ELSE s.m
  OBVIOUS
<1>3. PICK pl : pl = IF InRam(p) THEN s.pool ELSE <<p>> \o s.pool
  OBVIOUS
<1>4. PICK b : b = [q \in D \ {p} |-> s.pbuf[q]]
  OBVIOUS
<1>5. PICK hd : hd = [q \in D \ {p} |-> s.held[q]]
  OBVIOUS
<1>6. k = [m |-> m, pool |-> pl, pbuf |-> b, held |-> hd]
  BY <1>1, <1>2, <1>3, <1>4, <1>5 DEF Release
<1>7. k.m = m /\ k.pool = pl /\ k.pbuf = b /\ k.held = hd
  BY <1>6
<1>8. DOMAIN b = D \ {p} /\ DOMAIN hd = D \ {p}
      /\ \A q \in D \ {p} : b[q] = s.pbuf[q] /\ hd[q] = s.held[q]
  BY <1>4, <1>5
<1>9. b \in [DOMAIN b -> Pbufs] /\ hd \in [DOMAIN b -> Nat]
  BY <1>4, <1>5 DEF Base
<1>10. GoodMem(m) /\ RamOK(m.heap, D \ {p}) /\ PoolOK(pl, D \ {p})
       /\ \A q \in D \ {p} : q > 0 => m.heap[q - Hdr].next = s.m.heap[q - Hdr].next
  <2>0. Hdr \in Nat
    BY Consts
  <2>1. CASE p > 0
    <3>1. PICK a : a = HeaderOf(p)
      OBVIOUS
    <3>2. m = MemFree(s.m, p) /\ pl = s.pool /\ a = p - Hdr
      BY <1>2, <1>3, <2>1, <3>1 DEF InRam, HeaderOf
    <3>3. a \in DOMAIN s.m.heap \ {MemSize} /\ s.m.heap[a].used /\ a \in Int
      BY <2>1, <3>2, RamBlock
    <3>4. Freed(s.m, m, a)
      <4>1. GoodMem(s.m) /\ p \in Int
        BY DEF Base
      <4> QED BY <3>1, <3>2, <3>3, <4>1, FreeFacts
    <3>5. PoolOK(pl, D \ {p})
      BY <1>1, <2>1, <3>2, PoolKeeps DEF Base
    <3>6. RamOK(m.heap, D \ {p})
      <4>1. ASSUME NEW c \in Int
            PROVE  c \in DOMAIN m.heap \ {MemSize} /\ m.heap[c].used
                   <=> c + Hdr \in D \ {p} /\ c + Hdr > 0
        <5>1. c # a <=> c + Hdr # p
          BY <1>1, <2>0, <3>2
        <5>2. c \in DOMAIN s.m.heap \ {MemSize} /\ s.m.heap[c].used <=> c + Hdr \in D /\ c + Hdr > 0
          BY DEF Base, RamOK
        <5> QED BY <3>4, <5>1, <5>2 DEF Freed
      <4> QED BY <4>1 DEF RamOK
    <3>7. ASSUME NEW q \in D \ {p}, q > 0 PROVE m.heap[q - Hdr].next = s.m.heap[q - Hdr].next
      <4>1. q - Hdr \in DOMAIN s.m.heap \ {MemSize} /\ s.m.heap[q - Hdr].used /\ q \in Int
        BY <3>7, RamBlock
      <4>2. q - Hdr # a
        BY <1>1, <2>0, <3>2, <4>1
      <4> QED BY <3>4, <4>1, <4>2 DEF Freed
    <3> QED BY <3>4, <3>5, <3>6, <3>7 DEF Freed
  <2>2. CASE ~(p > 0)
    <3>1. m = s.m /\ pl = <<p>> \o s.pool /\ p < 0
      BY <1>1, <1>2, <1>3, <2>2 DEF InRam
    <3>2. PoolOK(pl, D \ {p})
      BY <1>1, <3>1, PoolPush DEF Base
    <3>3. RamOK(m.heap, D \ {p})
      BY <2>2, <3>1 DEF Base, RamOK
    <3> QED BY <3>1, <3>2, <3>3 DEF Base
  <2> QED BY <2>1, <2>2
<1>11. ASSUME NEW q \in D \ {p} PROVE Sane(q, b[q], hd[q], m.heap[q - Hdr].next)
  <2>1. Sane(q, s.pbuf[q], s.held[q], s.m.heap[q - Hdr].next)
    BY DEF Base
  <2> QED BY <1>8, <1>10, <2>1 DEF Sane
<1>12. DOMAIN b \subseteq Int \ {0}
  BY <1>8 DEF Base
<1> HIDE DEF D
<1>13. Base(k)
  BY <1>6, <1>7, <1>8, <1>9, <1>10, <1>11, <1>12 DEF Base
<1> QED BY <1>4, <1>5, <1>7, <1>13 DEF D, Without

-----------------------------------------------------------------------------
(* c is a chain of bufs. *)
Chained(bufs, c) ==
  /\ c \in Seq(DOMAIN bufs) /\ Len(c) >= 1
  /\ \A i \in 1 .. Len(c) - 1 : bufs[c[i]].next = c[i + 1]
  /\ bufs[c[Len(c)]].next = Null

(* The chains ch of the heads H have every pbuf once. *)
Owned(bufs, H, ch) ==
  /\ \A h \in H : Chained(bufs, ch[h]) /\ ch[h][1] = h
  /\ \A p \in DOMAIN bufs : \E h \in H : \E i \in 1 .. Len(ch[h]) : ch[h][i] = p
  /\ \A h, g \in H : \A i \in 1 .. Len(ch[h]), j \in 1 .. Len(ch[g]) :
       ch[h][i] = ch[g][j] => h = g /\ i = j

Links(bufs, c) ==
  c = [q \in DOMAIN bufs |-> IF bufs[q].next = Null THEN <<q>> ELSE <<q>> \o c[bufs[q].next]]

LEMMA ChainDef ==
  ASSUME NEW bufs, NEW p
  PROVE  Chain(bufs, p) = (CHOOSE c : Links(bufs, c))[p]
BY DEF Chain, Links

LEMMA Prepended ==
  ASSUME NEW S, NEW x \in S, NEW q \in Seq(S), NEW f, f = <<x>> \o q
  PROVE  /\ f \in Seq(S) /\ Len(f) = Len(q) + 1 /\ f[1] = x
         /\ \A k \in 2 .. Len(q) + 1 : f[k] = q[k - 1]
<1>1. <<x>> \in Seq(S) /\ Len(<<x>>) = 1 /\ <<x>>[1] = x /\ Len(q) \in Nat
  OBVIOUS
<1> QED BY <1>1, ConcatProperties

LEMMA Suffix ==
  ASSUME NEW S, NEW c \in Seq(S), NEW i \in 1 .. Len(c) - 1
  PROVE  SubSeq(c, i, Len(c)) = <<c[i]>> \o SubSeq(c, i + 1, Len(c))
<1>1. Len(c) \in Nat /\ i \in 1 .. Len(c) /\ i + 1 \in 1 .. Len(c)
  OBVIOUS
<1>2. PICK d, e : d = SubSeq(c, i, Len(c)) /\ e = SubSeq(c, i + 1, Len(c))
  OBVIOUS
<1>3. /\ d \in Seq(S) /\ Len(d) = Len(c) - i + 1 /\ \A k \in 1 .. Len(d) : d[k] = c[i + k - 1]
  BY <1>1, <1>2, SubSeqProperties
<1>4. /\ e \in Seq(S) /\ Len(e) = Len(c) - i /\ \A k \in 1 .. Len(e) : e[k] = c[i + k]
  BY <1>1, <1>2, SubSeqProperties
<1>5. c[i] \in S
  BY <1>1
<1>6. PICK f : f = <<c[i]>> \o e
  OBVIOUS
<1>7. /\ f \in Seq(S) /\ Len(f) = Len(c) - i + 1 /\ f[1] = c[i]
      /\ \A k \in 2 .. Len(f) : f[k] = e[k - 1]
  <2>1. PICK x : x = c[i]
    OBVIOUS
  <2>2. x \in S /\ e \in Seq(S) /\ f = <<x>> \o e
    BY <1>4, <1>5, <1>6, <2>1
  <2>3. /\ f \in Seq(S) /\ Len(f) = Len(e) + 1 /\ f[1] = x
        /\ \A k \in 2 .. Len(e) + 1 : f[k] = e[k - 1]
    BY <2>2, Prepended
  <2>4. Len(e) + 1 = Len(c) - i + 1
    BY <1>1, <1>4
  <2> QED BY <2>1, <2>3, <2>4
<1>8. ASSUME NEW k \in 1 .. Len(d) PROVE d[k] = f[k]
  <2>1. CASE k = 1
    BY <1>1, <1>3, <1>7, <2>1
  <2>2. CASE k # 1
    <3>1. k \in 2 .. Len(f) /\ k - 1 \in 1 .. Len(e) /\ i + (k - 1) = i + k - 1
      BY <1>1, <1>3, <1>4, <1>7, <2>2
    <3> QED BY <1>3, <1>4, <1>7, <3>1
  <2> QED BY <2>1, <2>2
<1>9. d = f
  <2>1. Len(d) = Len(f)
    BY <1>3, <1>7
  <2> QED BY <1>3, <1>7, <1>8, <2>1, SeqEqual
<1> QED BY <1>2, <1>6, <1>9

LEMMA LastSuffix ==
  ASSUME NEW S, NEW c \in Seq(S), Len(c) >= 1
  PROVE  SubSeq(c, Len(c), Len(c)) = <<c[Len(c)]>>
<1>1. PICK n, d : n = Len(c) /\ d = SubSeq(c, n, n)
  OBVIOUS
<1>2. n \in Nat /\ n >= 1 /\ c[n] \in S /\ n + 1 - 1 = n /\ 1 \in 1 .. n - n + 1
  BY <1>1
<1>3. \A i \in n .. n : c[i] \in S
  BY <1>2
<1>4. d \in Seq(S) /\ Len(d) = 1 /\ d[1] = c[n]
  BY <1>1, <1>2, <1>3, SubSeqProperties
<1>5. <<c[n]>> \in Seq(S) /\ Len(<<c[n]>>) = 1 /\ <<c[n]>>[1] = c[n]
  BY <1>2
<1>6. PICK e : e = <<c[n]>>
  OBVIOUS
<1>7. e \in Seq(S) /\ Len(d) = Len(e) /\ \A i \in 1 .. Len(d) : d[i] = e[i]
  BY <1>4, <1>5, <1>6
<1>8. d = e
  BY <1>4, <1>7, SeqEqual
<1> QED BY <1>1, <1>6, <1>8

LEMMA ChainIs ==
  ASSUME NEW bufs, NEW H, NEW ch, Owned(bufs, H, ch), 0 \notin DOMAIN bufs, NEW h \in H
  PROVE  Chain(bufs, h) = ch[h]
<1> DEFINE D == DOMAIN bufs
           At(q, g, i) == g \in H /\ i \in 1 .. Len(ch[g]) /\ ch[g][i] = q
           Hd(q) == CHOOSE g \in H : \E i \in 1 .. Len(ch[g]) : ch[g][i] = q
           Ix(q) == CHOOSE i \in 1 .. Len(ch[Hd(q)]) : ch[Hd(q)][i] = q
           f == [q \in D |-> SubSeq(ch[Hd(q)], Ix(q), Len(ch[Hd(q)]))]
<1>1. \A g \in H : /\ ch[g] \in Seq(D) /\ Len(ch[g]) \in Nat /\ Len(ch[g]) >= 1
                   /\ \A i \in 1 .. Len(ch[g]) : ch[g][i] \in D
  BY DEF Owned, Chained
<1>2. \A q \in D : At(q, Hd(q), Ix(q))
  BY DEF Owned
<1>3. \A q, g, i, g2, i2 : At(q, g, i) /\ At(q, g2, i2) => g = g2 /\ i = i2
  BY DEF Owned
<1>4. \A q, g, i : At(q, g, i) => q \in D
  BY <1>1
<1>5. ASSUME NEW q, NEW g, NEW i, At(q, g, i)
      PROVE  /\ bufs[q].next = Null <=> i = Len(ch[g])
             /\ i # Len(ch[g]) => At(bufs[q].next, g, i + 1)
  <2>1. Chained(bufs, ch[g]) /\ Len(ch[g]) \in Nat
    BY <1>1, <1>5 DEF Owned
  <2>2. CASE i = Len(ch[g])
    BY <1>5, <2>1, <2>2 DEF Chained
  <2>3. CASE i # Len(ch[g])
    <3>1. i \in 1 .. Len(ch[g]) - 1 /\ i + 1 \in 1 .. Len(ch[g])
      BY <1>5, <2>1, <2>3
    <3>2. bufs[q].next = ch[g][i + 1]
      BY <1>5, <2>1, <3>1 DEF Chained
    <3>3. ch[g][i + 1] # Null
      BY <1>1, <1>5, <3>1 DEF Null
    <3> QED BY <1>5, <2>3, <3>1, <3>2, <3>3
  <2> QED BY <2>2, <2>3
<1> HIDE DEF Hd, Ix
<1>6. \A q, g, i : At(q, g, i) => f[q] = SubSeq(ch[g], i, Len(ch[g]))
  <2>1. ASSUME NEW q, NEW g, NEW i, At(q, g, i) PROVE f[q] = SubSeq(ch[g], i, Len(ch[g]))
    <3>1. q \in D
      BY <1>4, <2>1
    <3>2. At(q, Hd(q), Ix(q))
      BY <1>2, <3>1
    <3>3. Hd(q) = g /\ Ix(q) = i
      BY <1>3, <2>1, <3>2
    <3> QED BY <3>1, <3>3
  <2> QED BY <2>1
<1>7. ASSUME NEW g \in H, NEW i \in 1 .. Len(ch[g]) - 1
      PROVE  SubSeq(ch[g], i, Len(ch[g])) = <<ch[g][i]>> \o SubSeq(ch[g], i + 1, Len(ch[g]))
  BY <1>1, <1>7, Suffix
<1>8. ASSUME NEW g \in H
      PROVE  SubSeq(ch[g], Len(ch[g]), Len(ch[g])) = <<ch[g][Len(ch[g])]>>
  BY <1>1, LastSuffix
<1>9. PICK ff : ff = f
  OBVIOUS
<1>10. \E F : ff = [q \in D |-> F[q]]
  BY <1>9
<1> HIDE DEF f
<1>11. ASSUME NEW q \in D
       PROVE  ff[q] = IF bufs[q].next = Null THEN <<q>> ELSE <<q>> \o ff[bufs[q].next]
  <2>1. PICK g, i : At(q, g, i)
    BY <1>2
  <2>2. ff[q] = SubSeq(ch[g], i, Len(ch[g]))
    BY <1>6, <1>9, <2>1
  <2>3. CASE i = Len(ch[g])
    BY <1>5, <1>8, <2>1, <2>2, <2>3
  <2>4. CASE i # Len(ch[g])
    <3>1. At(bufs[q].next, g, i + 1) /\ bufs[q].next # Null
      BY <1>5, <2>1, <2>4
    <3>2. ff[bufs[q].next] = SubSeq(ch[g], i + 1, Len(ch[g]))
      BY <1>6, <1>9, <3>1
    <3>3. i \in 1 .. Len(ch[g]) - 1
      BY <1>1, <2>1, <2>4
    <3> QED BY <1>7, <2>1, <2>2, <3>1, <3>2, <3>3
  <2> QED BY <2>3, <2>4
<1>12. Links(bufs, ff)
  BY <1>10, <1>11 DEF Links
<1>13. PICK c : c = CHOOSE x : Links(bufs, x)
  OBVIOUS
<1>14. Links(bufs, c)
  BY <1>12, <1>13
<1>15. \A q \in D : c[q] = IF bufs[q].next = Null THEN <<q>> ELSE <<q>> \o c[bufs[q].next]
  BY <1>14 DEF Links
<1> DEFINE n == Len(ch[h])
           Bad == {k \in Nat : k < n /\ c[ch[h][n - k]] # SubSeq(ch[h], n - k, n)}
<1>16. Bad = {}
  <2> SUFFICES ASSUME Bad # {} PROVE FALSE
    OBVIOUS
  <2>1. Bad \in SUBSET Nat
    OBVIOUS
  <2>2. PICK k \in Bad : \A y \in Bad : k <= y
    BY <2>1, Least
  <2>3. n \in Nat /\ n >= 1 /\ k \in Nat /\ k < n
    BY <1>1
  <2>4. PICK i, q : i = n - k /\ q = ch[h][i]
    OBVIOUS
  <2>5. i \in 1 .. n /\ At(q, h, i) /\ q \in D
    BY <1>1, <2>3, <2>4
  <2>6. c[q] # SubSeq(ch[h], i, n)
    BY <2>4
  <2>7. CASE i = n
    <3>1. bufs[q].next = Null
      BY <1>5, <2>5, <2>7
    <3>2. c[q] = <<q>>
      BY <1>15, <2>5, <3>1
    <3>3. SubSeq(ch[h], i, n) = <<q>>
      BY <1>8, <2>4, <2>7
    <3> QED BY <2>6, <3>2, <3>3
  <2>8. CASE i # n
    <3>1. At(bufs[q].next, h, i + 1) /\ bufs[q].next # Null
      BY <1>5, <2>5, <2>8
    <3>2. k - 1 \in Nat /\ k - 1 < n /\ n - (k - 1) = i + 1 /\ ~(k <= k - 1)
      <4>1. PICK l : l = n
        OBVIOUS
      <4>2. l \in Nat /\ l >= 1 /\ k \in Nat /\ k < l /\ i = l - k /\ i \in 1 .. l /\ i # l
        BY <2>3, <2>4, <2>5, <2>8, <4>1
      <4>3. k - 1 \in Nat /\ k - 1 < l /\ l - (k - 1) = i + 1 /\ ~(k <= k - 1)
        BY ONLY <4>2
      <4> QED BY <4>1, <4>3
    <3>3. k - 1 \notin Bad
      BY <2>2, <3>2
    <3>4. c[ch[h][i + 1]] = SubSeq(ch[h], i + 1, n)
      BY <3>2, <3>3
    <3>5. i \in 1 .. n - 1
      BY <2>3, <2>5, <2>8
    <3>6. SubSeq(ch[h], i, n) = <<q>> \o SubSeq(ch[h], i + 1, n)
      BY <1>7, <2>4, <3>5
    <3>7. bufs[q].next = ch[h][i + 1]
      BY <3>1
    <3>8. c[q] = <<q>> \o c[ch[h][i + 1]]
      BY <1>15, <2>5, <3>1, <3>7
    <3> QED BY <2>6, <3>4, <3>6, <3>8
  <2> QED BY <2>7, <2>8
<1>17. c[ch[h][1]] = SubSeq(ch[h], 1, n)
  <2>1. n \in Nat /\ n >= 1
    BY <1>1
  <2>2. n - 1 \in Nat /\ n - 1 < n /\ n - (n - 1) = 1
    BY <2>1
  <2> QED BY <1>16, <2>2
<1>18. SubSeq(ch[h], 1, n) = ch[h]
  BY <1>1
<1>19. ch[h][1] = h
  BY DEF Owned
<1> QED BY <1>13, <1>17, <1>18, <1>19, ChainDef

(* r is what each pbuf and the ones behind it carry. *)
Summed(bufs, r) ==
  /\ r \in [DOMAIN bufs -> Int]
  /\ \A q \in DOMAIN bufs :
       r[q] = bufs[q].len + IF bufs[q].next = Null THEN 0 ELSE r[bufs[q].next]

Sums(bufs, n) ==
  n = [q \in DOMAIN bufs |-> bufs[q].len + IF bufs[q].next = Null THEN 0 ELSE n[bufs[q].next]]

LEMMA BytesDef ==
  ASSUME NEW bufs, NEW p
  PROVE  Bytes(bufs, p) = (CHOOSE n : Sums(bufs, n))[p]
BY DEF Bytes, Sums

LEMMA BytesIs ==
  ASSUME NEW bufs, NEW H, NEW ch, Owned(bufs, H, ch), NEW r, Summed(bufs, r), NEW h \in H
  PROVE  Bytes(bufs, h) = r[h]
<1> DEFINE D == DOMAIN bufs
<1>1. Sums(bufs, r)
  BY DEF Summed, Sums
<1>2. PICK f : f = CHOOSE x : Sums(bufs, x)
  OBVIOUS
<1>3. Sums(bufs, f)
  BY <1>1, <1>2
<1>4. \A q \in D : f[q] = bufs[q].len + IF bufs[q].next = Null THEN 0 ELSE f[bufs[q].next]
  BY <1>3 DEF Sums
<1>5. \A q \in D : r[q] = bufs[q].len + IF bufs[q].next = Null THEN 0 ELSE r[bufs[q].next]
  BY DEF Summed
<1>6. PICK c : c = ch[h]
  OBVIOUS
<1>7. /\ c \in Seq(D) /\ Len(c) \in Nat /\ Len(c) >= 1 /\ c[1] = h
      /\ \A i \in 1 .. Len(c) - 1 : bufs[c[i]].next = c[i + 1]
      /\ bufs[c[Len(c)]].next = Null
      /\ \A i \in 1 .. Len(c) : c[i] \in D
  BY <1>6 DEF Owned, Chained
<1> DEFINE n == Len(c)
           Bad == {k \in Nat : k < n /\ f[c[n - k]] # r[c[n - k]]}
<1>8. Bad = {}
  <2> SUFFICES ASSUME Bad # {} PROVE FALSE
    OBVIOUS
  <2>1. Bad \in SUBSET Nat
    OBVIOUS
  <2>2. PICK k \in Bad : \A y \in Bad : k <= y
    BY <2>1, Least
  <2>3. PICK i, q : i = n - k /\ q = c[i]
    OBVIOUS
  <2>4. k \in Nat /\ i \in 1 .. n /\ q \in D /\ f[q] # r[q]
    BY <1>7, <2>3
  <2>5. CASE i = n
    BY <1>4, <1>5, <1>7, <2>3, <2>4, <2>5
  <2>6. CASE i # n
    <3>1. i \in 1 .. n - 1 /\ i + 1 \in 1 .. n
      BY <1>7, <2>4, <2>6
    <3>2. k - 1 \in Nat /\ k - 1 < n /\ n - (k - 1) = i + 1 /\ ~(k <= k - 1)
      <4>1. PICK l : l = n
        OBVIOUS
      <4>2. l \in Nat /\ k \in Nat /\ i = l - k /\ i \in 1 .. l /\ i # l
        BY <1>7, <2>3, <2>4, <2>6, <4>1
      <4>3. k - 1 \in Nat /\ k - 1 < l /\ l - (k - 1) = i + 1 /\ ~(k <= k - 1)
        BY ONLY <4>2
      <4> QED BY <4>1, <4>3
    <3>3. k - 1 \notin Bad
      BY <2>2, <3>2
    <3>4. f[c[i + 1]] = r[c[i + 1]]
      BY <3>2, <3>3
    <3>5. bufs[q].next = c[i + 1]
      BY <1>7, <2>3, <3>1
    <3>6. f[q] = r[q]
      BY <1>4, <1>5, <2>4, <3>4, <3>5
    <3> QED BY <2>4, <3>6
  <2> QED BY <2>5, <2>6
<1>9. n - 1 \in Nat /\ n - 1 < n /\ n - (n - 1) = 1
  BY <1>7
<1>10. f[c[1]] = r[c[1]]
  BY <1>8, <1>9
<1> QED BY <1>2, <1>7, <1>10, BytesDef

HeadsOf(s) == {p \in DOMAIN s.pbuf : s.held[p] > 0}

(* What every call of the stack finds and leaves. *)
Whole(s) ==
  /\ Base(s)
  /\ \E ch, r : /\ Owned(s.pbuf, HeadsOf(s), ch) /\ Summed(s.pbuf, r)
                /\ \A h \in HeadsOf(s) : s.pbuf[h].tot = r[h]

(* The same but for where the data of a pbuf ends. *)
LooseBase(s) ==
  /\ s = [m |-> s.m, pool |-> s.pool, pbuf |-> s.pbuf, held |-> s.held]
  /\ GoodMem(s.m)
  /\ DOMAIN s.pbuf \subseteq Int \ {0}
  /\ s.pbuf \in [DOMAIN s.pbuf -> Pbufs] /\ s.held \in [DOMAIN s.pbuf -> Nat]
  /\ PoolOK(s.pool, DOMAIN s.pbuf)
  /\ RamOK(s.m.heap, DOMAIN s.pbuf)
  /\ \A p \in DOMAIN s.pbuf : s.held[p] > 0 => s.pbuf[p].ref = s.held[p]
Loose(s) ==
  /\ LooseBase(s)
  /\ \E ch, r : /\ Owned(s.pbuf, HeadsOf(s), ch) /\ Summed(s.pbuf, r)
                /\ \A h \in HeadsOf(s) : s.pbuf[h].tot = r[h]

LEMMA WholeLoose ==
  ASSUME NEW s, Whole(s)
  PROVE  Loose(s)
<1>1. LooseBase(s)
  BY DEF Whole, Base, LooseBase, Sane
<1> QED BY <1>1 DEF Whole, Loose

(* The pbuf p and the memory get new values, and nothing else. *)
Edit(s, p, m, pay, len, tot, ref) ==
  [m |-> m, pool |-> s.pool,
   pbuf |-> [q \in DOMAIN s.pbuf |->
               IF q = p THEN [pay |-> pay, len |-> len, tot |-> tot, ref |-> ref,
                              next |-> s.pbuf[p].next, out |-> s.pbuf[p].out]
               ELSE s.pbuf[q]],
   held |-> [q \in DOMAIN s.pbuf |-> IF q = p THEN ref ELSE s.held[q]]]

LEMMA NextPlace ==
  ASSUME NEW bufs, NEW H, NEW ch, Owned(bufs, H, ch), 0 \notin DOMAIN bufs, NEW q \in DOMAIN bufs,
         bufs[q].next # Null
  PROVE  bufs[q].next \in DOMAIN bufs \ H
<1>1. PICK g, i : g \in H /\ i \in 1 .. Len(ch[g]) /\ ch[g][i] = q
  BY DEF Owned
<1>2. /\ ch[g] \in Seq(DOMAIN bufs) /\ Len(ch[g]) \in Nat
      /\ \A j \in 1 .. Len(ch[g]) - 1 : bufs[ch[g][j]].next = ch[g][j + 1]
      /\ bufs[ch[g][Len(ch[g])]].next = Null
  BY <1>1 DEF Owned, Chained
<1>3. i \in 1 .. Len(ch[g]) - 1 /\ i + 1 \in 1 .. Len(ch[g]) /\ i + 1 # 1
  BY <1>1, <1>2
<1>4. bufs[q].next = ch[g][i + 1] /\ ch[g][i + 1] \in DOMAIN bufs
  BY <1>1, <1>2, <1>3
<1>5. ASSUME ch[g][i + 1] \in H PROVE FALSE
  <2>1. PICK h \in H : h = ch[g][i + 1]
    BY <1>5
  <2>2. ch[h][1] = h /\ 1 \in 1 .. Len(ch[h])
    BY DEF Owned, Chained
  <2>3. i + 1 = 1
    BY <1>1, <1>3, <2>1, <2>2 DEF Owned
  <2> QED BY <1>3, <2>3
<1> QED BY <1>4, <1>5

LEMMA SameLinks ==
  ASSUME NEW b, NEW c, NEW H, NEW ch, Owned(b, H, ch), DOMAIN c = DOMAIN b,
         \A q \in DOMAIN b : c[q].next = b[q].next
  PROVE  Owned(c, H, ch)
<1>1. ASSUME NEW h \in H PROVE Chained(c, ch[h]) /\ ch[h][1] = h
  <2>1. Chained(b, ch[h]) /\ ch[h][1] = h
    BY DEF Owned
  <2>2. /\ ch[h] \in Seq(DOMAIN b) /\ Len(ch[h]) \in Nat /\ Len(ch[h]) >= 1
        /\ \A j \in 1 .. Len(ch[h]) : ch[h][j] \in DOMAIN b
    BY <2>1 DEF Chained
  <2> QED BY <2>1, <2>2 DEF Chained
<1> QED BY <1>1 DEF Owned

LEMMA EditLoose ==
  ASSUME NEW s, Whole(s), NEW p \in HeadsOf(s), NEW m, NEW pay \in Int, NEW len \in Int,
         NEW tot \in Int, NEW ref \in Nat \ {0}, NEW k, k = Edit(s, p, m, pay, len, tot, ref),
         tot - s.pbuf[p].tot = len - s.pbuf[p].len,
         GoodMem(m), RamOK(m.heap, DOMAIN s.pbuf)
  PROVE  Loose(k) /\ HeadsOf(k) = HeadsOf(s) /\ DOMAIN k.pbuf = DOMAIN s.pbuf
<1> DEFINE D == DOMAIN s.pbuf
<1>1. Base(s) /\ p \in D
  BY DEF Whole, HeadsOf
<1>2. /\ D \subseteq Int \ {0} /\ s.pbuf \in [D -> Pbufs] /\ s.held \in [D -> Nat]
      /\ PoolOK(s.pool, D)
      /\ \A q \in D : Sane(q, s.pbuf[q], s.held[q], s.m.heap[q - Hdr].next)
  BY <1>1 DEF Base
<1>3. PICK x : x = [pay |-> pay, len |-> len, tot |-> tot, ref |-> ref,
                    next |-> s.pbuf[p].next, out |-> s.pbuf[p].out]
  OBVIOUS
<1>4. PICK b : b = [q \in D |-> IF q = p THEN x ELSE s.pbuf[q]]
  OBVIOUS
<1>5. PICK hd : hd = [q \in D |-> IF q = p THEN ref ELSE s.held[q]]
  OBVIOUS
<1>6. k = [m |-> m, pool |-> s.pool, pbuf |-> b, held |-> hd]
  BY <1>3, <1>4, <1>5 DEF Edit
<1>7. k.m = m /\ k.pool = s.pool /\ k.pbuf = b /\ k.held = hd
  BY <1>6
<1>8. s.pbuf[p] \in Pbufs /\ x \in Pbufs /\ x.pay = pay /\ x.len = len /\ x.tot = tot /\ x.ref = ref
      /\ x.next = s.pbuf[p].next /\ x.out = s.pbuf[p].out
  BY <1>1, <1>2, <1>3 DEF Pbufs
<1>9. /\ DOMAIN b = D /\ DOMAIN hd = D /\ b[p] = x /\ hd[p] = ref
      /\ \A q \in D \ {p} : b[q] = s.pbuf[q] /\ hd[q] = s.held[q]
      /\ \A q \in D : b[q].next = s.pbuf[q].next
  BY <1>1, <1>4, <1>5, <1>8
<1>10. b \in [D -> Pbufs] /\ hd \in [D -> Nat]
  BY <1>2, <1>4, <1>5, <1>8
<1>11. ASSUME NEW q \in D, hd[q] > 0 PROVE b[q].ref = hd[q]
  <2>1. CASE q = p
    BY <1>8, <1>9, <2>1
  <2>2. CASE q # p
    BY <1>2, <1>9, <1>11, <2>2 DEF Sane
  <2> QED BY <2>1, <2>2
<1>12. LooseBase(k)
  <2> HIDE DEF D
  <2>1. DOMAIN s.pbuf = D
    BY DEF D
  <2>2. D \subseteq Int \ {0} /\ PoolOK(s.pool, D) /\ RamOK(m.heap, D)
    BY <1>2, <2>1
  <2> QED BY <1>6, <1>7, <1>9, <1>10, <1>11, <2>2 DEF LooseBase
<1>13. HeadsOf(k) = HeadsOf(s)
  BY <1>1, <1>2, <1>7, <1>9 DEF HeadsOf
<1>14. PICK ch, r : /\ Owned(s.pbuf, HeadsOf(s), ch) /\ Summed(s.pbuf, r)
                    /\ \A h \in HeadsOf(s) : s.pbuf[h].tot = r[h]
  BY DEF Whole
<1>15. Owned(k.pbuf, HeadsOf(k), ch)
  BY <1>7, <1>9, <1>13, <1>14, SameLinks
<1>16. PICK t : t = [q \in D |-> IF q = p THEN tot ELSE r[q]]
  OBVIOUS
<1>17. r \in [D -> Int] /\ t \in [D -> Int] /\ t[p] = tot /\ \A q \in D \ {p} : t[q] = r[q]
  BY <1>1, <1>14, <1>16 DEF Summed
<1>18. ASSUME NEW q \in D
       PROVE  t[q] = b[q].len + IF b[q].next = Null THEN 0 ELSE t[b[q].next]
  <2>1. b[q].next # Null => b[q].next \in D /\ b[q].next # p
    BY <1>2, <1>9, <1>14, NextPlace
  <2>2. r[q] = s.pbuf[q].len + IF s.pbuf[q].next = Null THEN 0 ELSE r[s.pbuf[q].next]
    BY <1>14 DEF Summed
  <2>3. CASE q = p
    <3>1. r[p] = s.pbuf[p].tot
      BY <1>14
    <3>2. s.pbuf[p].len \in Int /\ s.pbuf[p].tot \in Int
      BY <1>8 DEF Pbufs
    <3>3. CASE b[q].next = Null
      BY <1>8, <1>9, <1>17, <2>2, <2>3, <3>1, <3>2, <3>3
    <3>4. CASE b[q].next # Null
      <4>1. b[p].next = s.pbuf[p].next
        BY <1>9, <1>1
      <4>2. t[b[p].next] = r[b[p].next] /\ r[b[p].next] \in Int
        BY <1>17, <2>1, <2>3, <3>4
      <4>3. r[p] = s.pbuf[p].len + r[b[p].next]
        BY <2>2, <2>3, <3>4, <4>1
      <4>4. tot = len + r[b[p].next]
        BY <3>1, <3>2, <4>2, <4>3
      <4> QED BY <1>8, <1>9, <1>17, <2>3, <3>4, <4>2, <4>4
    <3> QED BY <3>3, <3>4
  <2>4. CASE q # p
    BY <1>9, <1>17, <2>1, <2>2, <2>4
  <2> QED BY <2>3, <2>4
<1>19. Summed(k.pbuf, t)
  BY <1>7, <1>9, <1>17, <1>18 DEF Summed
<1>20. ASSUME NEW h \in HeadsOf(k) PROVE k.pbuf[h].tot = t[h]
  <2>1. h \in HeadsOf(s) /\ h \in D
    BY <1>13, <1>20 DEF HeadsOf
  <2> QED BY <1>7, <1>8, <1>9, <1>14, <1>17, <2>1
<1> QED BY <1>7, <1>9, <1>12, <1>13, <1>15, <1>19, <1>20 DEF Loose

LEMMA EditWhole ==
  ASSUME NEW s, Whole(s), NEW p \in HeadsOf(s), NEW m, NEW pay \in Int, NEW len \in Int,
         NEW tot \in Int, NEW ref \in Nat \ {0}, NEW k, k = Edit(s, p, m, pay, len, tot, ref),
         tot - s.pbuf[p].tot = len - s.pbuf[p].len,
         GoodMem(m), RamOK(m.heap, DOMAIN s.pbuf),
         \A q \in DOMAIN s.pbuf \ {p} : q > 0 => m.heap[q - Hdr].next = s.m.heap[q - Hdr].next,
         p > 0 => p + PbufHdr <= pay,
         p > 0 /\ p % Align = 0 => pay + len <= m.heap[p - Hdr].next
  PROVE  Whole(k) /\ HeadsOf(k) = HeadsOf(s) /\ DOMAIN k.pbuf = DOMAIN s.pbuf
<1> DEFINE D == DOMAIN s.pbuf
<1>1. Base(s) /\ p \in D
  BY DEF Whole, HeadsOf
<1>2. /\ D \subseteq Int \ {0} /\ s.pbuf \in [D -> Pbufs] /\ s.held \in [D -> Nat]
      /\ PoolOK(s.pool, D)
      /\ \A q \in D : Sane(q, s.pbuf[q], s.held[q], s.m.heap[q - Hdr].next)
  BY <1>1 DEF Base
<1>3. PICK x : x = [pay |-> pay, len |-> len, tot |-> tot, ref |-> ref,
                    next |-> s.pbuf[p].next, out |-> s.pbuf[p].out]
  OBVIOUS
<1>4. PICK b : b = [q \in D |-> IF q = p THEN x ELSE s.pbuf[q]]
  OBVIOUS
<1>5. PICK hd : hd = [q \in D |-> IF q = p THEN ref ELSE s.held[q]]
  OBVIOUS
<1>6. k = [m |-> m, pool |-> s.pool, pbuf |-> b, held |-> hd]
  BY <1>3, <1>4, <1>5 DEF Edit
<1>7. k.m = m /\ k.pool = s.pool /\ k.pbuf = b /\ k.held = hd
  BY <1>6
<1>8. s.pbuf[p] \in Pbufs /\ x \in Pbufs /\ x.pay = pay /\ x.len = len /\ x.tot = tot /\ x.ref = ref
      /\ x.next = s.pbuf[p].next /\ x.out = s.pbuf[p].out
  BY <1>1, <1>2, <1>3 DEF Pbufs
<1>9. /\ DOMAIN b = D /\ DOMAIN hd = D /\ b[p] = x /\ hd[p] = ref
      /\ \A q \in D \ {p} : b[q] = s.pbuf[q] /\ hd[q] = s.held[q]
      /\ \A q \in D : b[q].next = s.pbuf[q].next
  BY <1>1, <1>4, <1>5, <1>8
<1>10. b \in [D -> Pbufs] /\ hd \in [D -> Nat]
  BY <1>2, <1>4, <1>5, <1>8
<1>11. ASSUME NEW q \in D PROVE Sane(q, b[q], hd[q], m.heap[q - Hdr].next)
  <2>1. Sane(q, s.pbuf[q], s.held[q], s.m.heap[q - Hdr].next)
    BY <1>2
  <2>2. CASE q = p
    <3>1. /\ x.next = Null => x.tot = x.len
          /\ p < 0 => x.out
      BY <1>8, <2>1, <2>2 DEF Sane, Pbufs
    <3> QED BY <1>8, <1>9, <2>2, <3>1 DEF Sane
  <2>3. CASE q # p
    BY <1>9, <2>1, <2>3 DEF Sane
  <2> QED BY <2>2, <2>3
<1>12. Base(k)
  <2> HIDE DEF D
  <2>1. DOMAIN s.pbuf = D
    BY DEF D
  <2>2. D \subseteq Int \ {0} /\ PoolOK(s.pool, D) /\ RamOK(m.heap, D)
    BY <1>2, <2>1
  <2> QED BY <1>6, <1>7, <1>9, <1>10, <1>11, <2>2 DEF Base
<1>13. Loose(k) /\ HeadsOf(k) = HeadsOf(s) /\ DOMAIN k.pbuf = DOMAIN s.pbuf
  BY EditLoose
<1> QED BY <1>12, <1>13 DEF Whole, Loose

(* pbuf_header *)
LEMMA HeaderFacts ==
  ASSUME NEW s, Whole(s), NEW p \in HeadsOf(s), p > 0, NEW n \in Int,
         NEW k, k = PbufHeader(s, p, n)
  PROVE  Whole(k) /\ HeadsOf(k) = HeadsOf(s) /\ DOMAIN k.pbuf = DOMAIN s.pbuf
<1>1. CASE s.pbuf[p].pay - n < p + PbufHdr
  <2>1. k = s
    BY <1>1 DEF PbufHeader
  <2> QED BY <2>1
<1>2. CASE ~(s.pbuf[p].pay - n < p + PbufHdr)
  <2>1. PICK b : b = s.pbuf[p]
    OBVIOUS
  <2>2. Base(s) /\ p \in DOMAIN s.pbuf /\ s.held[p] > 0
    BY DEF Whole, HeadsOf
  <2>3. /\ s = [m |-> s.m, pool |-> s.pool, pbuf |-> s.pbuf, held |-> s.held]
        /\ s.pbuf \in [DOMAIN s.pbuf -> Pbufs] /\ s.held \in [DOMAIN s.pbuf -> Nat] /\ p \in Int
    BY <2>2 DEF Base
  <2>4. b \in Pbufs
    BY <2>1, <2>2, <2>3
  <2>5. PICK x : x = [b EXCEPT !.pay = @ - n, !.len = @ + n, !.tot = @ + n]
    OBVIOUS
  <2>6. x = [pay |-> b.pay - n, len |-> b.len + n, tot |-> b.tot + n, ref |-> b.ref,
             next |-> b.next, out |-> b.out]
    BY <2>4, <2>5 DEF Pbufs
  <2>7. k = [s EXCEPT !.pbuf = With(s.pbuf, p, x)]
    BY <1>2, <2>1, <2>5 DEF PbufHeader
  <2>8. k = [m |-> s.m, pool |-> s.pool, pbuf |-> With(s.pbuf, p, x), held |-> s.held]
    BY <2>3, <2>7
  <2>9. /\ Sane(p, b, s.held[p], s.m.heap[p - Hdr].next)
        /\ GoodMem(s.m) /\ RamOK(s.m.heap, DOMAIN s.pbuf)
    BY <2>1, <2>2 DEF Base
  <2>10. b.ref = s.held[p] /\ b.ref \in Nat \ {0}
    BY <2>2, <2>3, <2>9 DEF Sane
  <2>11. s.held = [q \in DOMAIN s.pbuf |-> IF q = p THEN b.ref ELSE s.held[q]]
    BY <2>2, <2>3, <2>10
  <2>12. k = Edit(s, p, s.m, b.pay - n, b.len + n, b.tot + n, b.ref)
    <3>1. With(s.pbuf, p, x) = [q \in DOMAIN s.pbuf |-> IF q = p THEN x ELSE s.pbuf[q]]
      BY <2>2 DEF With
    <3> QED BY <2>1, <2>6, <2>8, <2>11, <3>1 DEF Edit
  <2>13. b.pay - n \in Int /\ b.len + n \in Int /\ b.tot + n \in Int
         /\ (b.tot + n) - b.tot = (b.len + n) - b.len /\ PbufHdr \in Nat
    BY <2>4, Consts DEF Pbufs
  <2>14. p + PbufHdr <= b.pay - n
    BY <1>2, <2>1, <2>3, <2>13
  <2>15. p % Align = 0 => (b.pay - n) + (b.len + n) <= s.m.heap[p - Hdr].next
    BY <2>4, <2>9 DEF Sane, Pbufs
  <2> QED BY <2>1, <2>9, <2>10, <2>12, <2>13, <2>14, <2>15, EditWhole
<1> QED BY <1>1, <1>2

(* pbuf_realloc *)
LEMMA TrimFacts ==
  ASSUME NEW s, Whole(s), NEW p \in HeadsOf(s), p > 0, NEW n \in Nat, s.pbuf[p].next = Null,
         NEW k, k = PbufRealloc(s, p, n)
  PROVE  Whole(k) /\ HeadsOf(k) = HeadsOf(s) /\ DOMAIN k.pbuf = DOMAIN s.pbuf
<1>1. CASE s.pbuf[p].tot <= n
  <2>1. k = s
    BY <1>1 DEF PbufRealloc
  <2> QED BY <2>1
<1>2. CASE ~(s.pbuf[p].tot <= n)
  <2>1. PICK b : b = s.pbuf[p]
    OBVIOUS
  <2>2. Base(s) /\ p \in DOMAIN s.pbuf /\ s.held[p] > 0
    BY DEF Whole, HeadsOf
  <2>3. /\ s = [m |-> s.m, pool |-> s.pool, pbuf |-> s.pbuf, held |-> s.held]
        /\ s.pbuf \in [DOMAIN s.pbuf -> Pbufs] /\ s.held \in [DOMAIN s.pbuf -> Nat] /\ p \in Int
    BY <2>2 DEF Base
  <2>4. b \in Pbufs
    BY <2>1, <2>2, <2>3
  <2>5. PICK x : x = [b EXCEPT !.len = n, !.tot = n]
    OBVIOUS
  <2>6. x = [pay |-> b.pay, len |-> n, tot |-> n, ref |-> b.ref, next |-> b.next, out |-> b.out]
    BY <2>4, <2>5 DEF Pbufs
  <2>7. PICK m : m = MemRealloc(s.m, p, b.pay - p + n)
    OBVIOUS
  <2>8. k = [s EXCEPT !.m = m, !.pbuf = With(s.pbuf, p, x)]
    BY <1>2, <2>1, <2>5, <2>7 DEF PbufRealloc
  <2>9. k = [m |-> m, pool |-> s.pool, pbuf |-> With(s.pbuf, p, x), held |-> s.held]
    BY <2>3, <2>8
  <2>10. /\ Sane(p, b, s.held[p], s.m.heap[p - Hdr].next)
         /\ GoodMem(s.m) /\ RamOK(s.m.heap, DOMAIN s.pbuf)
    BY <2>1, <2>2 DEF Base
  <2>11. b.ref = s.held[p] /\ b.ref \in Nat \ {0} /\ b.tot = b.len /\ p + PbufHdr <= b.pay
    BY <2>1, <2>2, <2>3, <2>10 DEF Sane
  <2>12. s.held = [q \in DOMAIN s.pbuf |-> IF q = p THEN b.ref ELSE s.held[q]]
    BY <2>2, <2>3, <2>11
  <2>13. k = Edit(s, p, m, b.pay, n, n, b.ref)
    <3>1. With(s.pbuf, p, x) = [q \in DOMAIN s.pbuf |-> IF q = p THEN x ELSE s.pbuf[q]]
      BY <2>2 DEF With
    <3> QED BY <2>1, <2>6, <2>9, <2>12, <3>1 DEF Edit
  <2>14. b.pay - p + n \in Nat /\ b.pay \in Int /\ n - b.tot = n - b.len /\ b.len > n
         /\ p + (b.pay - p + n) = b.pay + n
    BY <1>2, <2>1, <2>3, <2>4, <2>11, Consts DEF Pbufs
  <2>15. PICK a : a = HeaderOf(p)
    OBVIOUS
  <2>16. a = p - Hdr /\ a \in DOMAIN s.m.heap \ {MemSize} /\ s.m.heap[a].used /\ a \in Int
    BY <2>2, <2>15, RamBlock
  <2>17. Reallocated(s.m, m, p, a, b.pay - p + n)
    BY <2>3, <2>7, <2>10, <2>14, <2>15, <2>16, ReallocFacts
  <2>18. GoodMem(m) /\ RamOK(m.heap, DOMAIN s.pbuf)
    BY <2>10, <2>17 DEF Reallocated, RamOK
  <2>19. ASSUME NEW q \in DOMAIN s.pbuf \ {p}, q > 0
         PROVE  m.heap[q - Hdr].next = s.m.heap[q - Hdr].next
    <3>1. q - Hdr \in DOMAIN s.m.heap \ {MemSize} /\ s.m.heap[q - Hdr].used /\ q \in Int
      BY <2>2, <2>19, RamBlock
    <3>2. q - Hdr # a
      BY <2>3, <2>16, <3>1, Consts
    <3> QED BY <2>17, <3>1, <3>2 DEF Reallocated
  <2>20. p % Align = 0 => b.pay + n <= m.heap[p - Hdr].next
    <3>1. s.m.heap[a].next \in Int
      BY <2>10, <2>16, NextFacts DEF GoodMem
    <3> QED BY <2>4, <2>10, <2>14, <2>16, <2>17, <3>1 DEF Sane, Reallocated, Pbufs
  <2>21. n \in Int /\ n - s.pbuf[p].tot = n - s.pbuf[p].len
    BY <2>1, <2>14
  <2> QED BY <2>11, <2>13, <2>14, <2>18, <2>19, <2>20, <2>21, EditWhole
<1> QED BY <1>1, <1>2

(* The pbuf x at p is new to s; m and pl are the memory and the pool that are left. *)
Fresh(s, p, m, pl, x) ==
  /\ p \in Int \ {0} /\ p \notin DOMAIN s.pbuf
  /\ x \in Pbufs /\ x.next = Null /\ x.tot = x.len
  /\ GoodMem(m) /\ RamOK(m.heap, DOMAIN s.pbuf \cup {p}) /\ PoolOK(pl, DOMAIN s.pbuf \cup {p})
  /\ \A q \in DOMAIN s.pbuf : q > 0 => m.heap[q - Hdr].next = s.m.heap[q - Hdr].next
  /\ Sane(p, x, 1, m.heap[p - Hdr].next)

Added(s, k, p) ==
  Whole(k) /\ HeadsOf(k) = HeadsOf(s) \cup {p} /\ DOMAIN k.pbuf = DOMAIN s.pbuf \cup {p}

(* A new pbuf is a chain of its own. *)
LEMMA AddWhole ==
  ASSUME NEW s, Whole(s), NEW p, NEW m, NEW pl, NEW x, Fresh(s, p, m, pl, x), NEW k,
         k = [m |-> m, pool |-> pl, pbuf |-> With(s.pbuf, p, x), held |-> With(s.held, p, 1)]
  PROVE  Added(s, k, p)
<1>0. /\ p \in Int \ {0} /\ p \notin DOMAIN s.pbuf
      /\ x \in Pbufs /\ x.next = Null /\ x.tot = x.len
      /\ GoodMem(m) /\ RamOK(m.heap, DOMAIN s.pbuf \cup {p}) /\ PoolOK(pl, DOMAIN s.pbuf \cup {p})
      /\ \A q \in DOMAIN s.pbuf : q > 0 => m.heap[q - Hdr].next = s.m.heap[q - Hdr].next
      /\ Sane(p, x, 1, m.heap[p - Hdr].next)
  BY DEF Fresh
<1> DEFINE D == DOMAIN s.pbuf
<1>1. Base(s)
  BY DEF Whole
<1>2. /\ D \subseteq Int \ {0} /\ s.pbuf \in [D -> Pbufs] /\ s.held \in [D -> Nat]
      /\ \A q \in D : Sane(q, s.pbuf[q], s.held[q], s.m.heap[q - Hdr].next)
  BY <1>1 DEF Base
<1>3. PICK b : b = With(s.pbuf, p, x)
  OBVIOUS
<1>4. PICK hd : hd = With(s.held, p, 1)
  OBVIOUS
<1>5. k = [m |-> m, pool |-> pl, pbuf |-> b, held |-> hd]
  BY <1>3, <1>4
<1>6. k.m = m /\ k.pool = pl /\ k.pbuf = b /\ k.held = hd
  BY <1>5
<1>7. /\ DOMAIN b = D \cup {p} /\ DOMAIN hd = D \cup {p} /\ b[p] = x /\ hd[p] = 1
      /\ \A q \in D : b[q] = s.pbuf[q] /\ hd[q] = s.held[q]
  BY <1>0, <1>2, <1>3, <1>4 DEF With
<1>8. b \in [D \cup {p} -> Pbufs] /\ hd \in [D \cup {p} -> Nat]
  BY <1>0, <1>2, <1>3, <1>4, <1>7 DEF With
<1>9. ASSUME NEW q \in D \cup {p} PROVE Sane(q, b[q], hd[q], m.heap[q - Hdr].next)
  <2>1. CASE q = p
    BY <1>0, <1>7, <2>1
  <2>2. CASE q # p
    <3>1. Sane(q, s.pbuf[q], s.held[q], s.m.heap[q - Hdr].next) /\ q \in D
      BY <1>2, <2>2
    <3> QED BY <1>0, <1>7, <3>1 DEF Sane
  <2> QED BY <2>1, <2>2
<1>10. Base(k)
  <2>1. D \cup {p} \subseteq Int \ {0} /\ PoolOK(pl, D \cup {p}) /\ RamOK(m.heap, D \cup {p})
    BY <1>0, <1>2
  <2>2. GoodMem(m)
    BY <1>0
  <2> HIDE DEF D
  <2> QED BY <1>5, <1>6, <1>7, <1>8, <1>9, <2>1, <2>2 DEF Base
<1>11. HeadsOf(k) = HeadsOf(s) \cup {p}
  BY <1>0, <1>2, <1>6, <1>7 DEF HeadsOf
<1>12. PICK ch, r : /\ Owned(s.pbuf, HeadsOf(s), ch) /\ Summed(s.pbuf, r)
                    /\ \A h \in HeadsOf(s) : s.pbuf[h].tot = r[h]
  BY DEF Whole
<1> DEFINE H == HeadsOf(s)
<1>13. PICK c2 : c2 = [h \in H \cup {p} |-> IF h = p THEN <<p>> ELSE ch[h]]
  OBVIOUS
<1>14. p \notin H /\ H \subseteq D
  BY <1>0 DEF HeadsOf
<1>15. c2[p] = <<p>> /\ \A h \in H : c2[h] = ch[h]
  BY <1>13, <1>14
<1>16. <<p>> \in Seq(D \cup {p}) /\ Len(<<p>>) = 1 /\ <<p>>[1] = p
  OBVIOUS
<1>17. \A h \in H : /\ Chained(s.pbuf, ch[h]) /\ ch[h][1] = h
                    /\ ch[h] \in Seq(D) /\ Len(ch[h]) \in Nat /\ Len(ch[h]) >= 1
                    /\ \A i \in 1 .. Len(ch[h]) : ch[h][i] \in D
  BY <1>12 DEF Owned, Chained
<1>18. Owned(b, H \cup {p}, c2)
  <2>1. ASSUME NEW h \in H \cup {p} PROVE Chained(b, c2[h]) /\ c2[h][1] = h
    <3>1. CASE h = p
      <4>1. PICK c : c = c2[p]
        OBVIOUS
      <4>2. c \in Seq(D \cup {p}) /\ Len(c) = 1 /\ c[1] = p
        BY <1>15, <1>16, <4>1
      <4>3. \A i \in 1 .. Len(c) - 1 : b[c[i]].next = c[i + 1]
        BY <4>2
      <4>4. b[c[Len(c)]].next = Null
        BY <1>0, <1>7, <4>2
      <4>5. c \in Seq(DOMAIN b)
        BY <1>7, <4>2
      <4> QED BY <3>1, <4>1, <4>2, <4>3, <4>4, <4>5 DEF Chained
    <3>2. CASE h # p
      <4>1. h \in H /\ c2[h] = ch[h]
        BY <1>15, <3>2
      <4>2. ch[h] \in Seq(D \cup {p})
        BY <1>17, <4>1
      <4> QED BY <1>7, <1>17, <4>1, <4>2 DEF Chained
    <3> QED BY <3>1, <3>2
  <2>2. ASSUME NEW q \in D \cup {p}
        PROVE  \E h \in H \cup {p} : \E i \in 1 .. Len(c2[h]) : c2[h][i] = q
    <3>1. CASE q = p
      BY <1>15, <1>16, <3>1
    <3>2. CASE q # p
      <4>1. PICK h \in H : \E i \in 1 .. Len(ch[h]) : ch[h][i] = q
        BY <1>12, <3>2 DEF Owned
      <4> QED BY <1>15, <4>1
    <3> QED BY <3>1, <3>2
  <2>3. ASSUME NEW h \in H \cup {p}, NEW g \in H \cup {p}, NEW i \in 1 .. Len(c2[h]),
               NEW j \in 1 .. Len(c2[g]), c2[h][i] = c2[g][j]
        PROVE  h = g /\ i = j
    <3>1. CASE h = p /\ g = p
      BY <1>15, <1>16, <2>3, <3>1
    <3>2. CASE h = p /\ g # p
      <4>1. c2[g][j] \in D
        BY <1>15, <1>17, <3>2
      <4>2. c2[h] = <<p>> /\ i \in 1 .. Len(c2[h])
        BY <1>15, <3>2
      <4>3. i \in 1 .. 1
        BY <1>16, <4>2
      <4>4. c2[h][i] = p
        BY <1>16, <4>2, <4>3
      <4> QED BY <1>0, <2>3, <4>1, <4>4
    <3>3. CASE h # p /\ g = p
      <4>1. c2[h][i] \in D
        BY <1>15, <1>17, <3>3
      <4>2. c2[g] = <<p>> /\ j \in 1 .. Len(c2[g])
        BY <1>15, <3>3
      <4>3. j \in 1 .. 1
        BY <1>16, <4>2
      <4>4. c2[g][j] = p
        BY <1>16, <4>2, <4>3
      <4> QED BY <1>0, <2>3, <4>1, <4>4
    <3>4. CASE h # p /\ g # p
      BY <1>12, <1>15, <2>3, <3>4 DEF Owned
    <3> QED BY <3>1, <3>2, <3>3, <3>4
  <2> HIDE DEF D, H
  <2>4. DOMAIN b = D \cup {p}
    BY <1>7
  <2> QED BY <2>1, <2>2, <2>3, <2>4 DEF Owned
<1>19. PICK t : t = [q \in D \cup {p} |-> IF q = p THEN x.len ELSE r[q]]
  OBVIOUS
<1>20. r \in [D -> Int] /\ x.len \in Int /\ t \in [D \cup {p} -> Int] /\ t[p] = x.len
       /\ \A q \in D : t[q] = r[q]
  BY <1>0, <1>12, <1>19 DEF Summed, Pbufs
<1>21. ASSUME NEW q \in D \cup {p}
       PROVE  t[q] = b[q].len + IF b[q].next = Null THEN 0 ELSE t[b[q].next]
  <2>1. CASE q = p
    BY <1>0, <1>7, <1>20, <2>1
  <2>2. CASE q # p
    <3>1. q \in D /\ (s.pbuf[q].next # Null => s.pbuf[q].next \in D)
      BY <1>2, <1>12, <2>2, NextPlace
    <3>2. r[q] = s.pbuf[q].len + IF s.pbuf[q].next = Null THEN 0 ELSE r[s.pbuf[q].next]
      BY <1>12, <3>1 DEF Summed
    <3> QED BY <1>7, <1>20, <3>1, <3>2
  <2> QED BY <2>1, <2>2
<1>22. Summed(k.pbuf, t)
  BY <1>6, <1>7, <1>20, <1>21 DEF Summed
<1>23. ASSUME NEW h \in HeadsOf(k) PROVE k.pbuf[h].tot = t[h]
  BY <1>0, <1>6, <1>7, <1>11, <1>12, <1>14, <1>20, <1>23
<1>24. Owned(k.pbuf, HeadsOf(k), c2)
  BY <1>6, <1>11, <1>18
<1>25. Whole(k)
  BY <1>10, <1>22, <1>23, <1>24 DEF Whole
<1> QED BY <1>6, <1>7, <1>11, <1>25 DEF Added

(* pbuf_alloc(PBUF_RAM) *)
LEMMA AllocRamFacts ==
  ASSUME NEW s, Whole(s), NEW len \in Nat, NEW room \in {0, Room}, NEW a, a = RamAt(s, len, room),
         a # MemSize, NEW k, k = PbufAllocRam(s, a, len, room), NEW p, p = a + Hdr
  PROVE  Added(s, k, p) /\ p \in Int /\ p > 0 /\ p \notin DOMAIN s.pbuf
<1> DEFINE D == DOMAIN s.pbuf
<1>1. Base(s)
  BY DEF Whole
<1>2. /\ s = [m |-> s.m, pool |-> s.pool, pbuf |-> s.pbuf, held |-> s.held]
      /\ GoodMem(s.m) /\ D \subseteq Int \ {0} /\ PoolOK(s.pool, D) /\ RamOK(s.m.heap, D)
  BY <1>1 DEF Base
<1>3. /\ Hdr \in Nat /\ Hdr > 0 /\ PbufHdr \in Nat /\ room \in Nat /\ Room \in Nat
      /\ PbufHdr % Align = 0 /\ room % Align = 0 /\ Align \in Nat /\ Align > 0
  BY Consts
<1>4. PICK w, n : w = PbufHdr + len + room /\ n = RamBytes(len, room)
  OBVIOUS
<1>5. w \in Nat /\ n = AlignUp(w) /\ n \in Nat /\ n >= w /\ AlignUp(n) \in Nat /\ AlignUp(n) >= n
  <2>1. w \in Nat /\ n = AlignUp(w)
    BY <1>3, <1>4 DEF RamBytes
  <2>2. n \in Nat /\ n >= w
    BY <2>1, AlignBounds
  <2> QED BY <2>1, <2>2, AlignBounds
<1>6. PICK m : m = MemMalloc(s.m, a, n)
  OBVIOUS
<1>7. a = Found(s.m, n)
  BY <1>4 DEF RamAt
<1>8. Taken(s.m, m, a, n)
  BY <1>2, <1>5, <1>6, <1>7, MallocFacts
<1>9. a \in Int /\ a >= 0 /\ a \in DOMAIN s.m.heap \ {MemSize} /\ ~s.m.heap[a].used
  BY <1>2, <1>8, NextFacts DEF Taken, GoodMem
<1>10. p \in Int /\ p > 0 /\ p - Hdr = a
  BY <1>3, <1>9
<1>11. p \notin D
  BY <1>2, <1>9, <1>10 DEF RamOK
<1>12. PICK pay : pay = AlignUp(p + PbufHdr + room)
  OBVIOUS
<1>13. pay \in Nat /\ p + PbufHdr <= pay
  <2>1. p + PbufHdr + room \in Nat /\ p + PbufHdr + room >= p + PbufHdr
    BY <1>3, <1>10
  <2> QED BY <1>3, <1>10, <1>12, <2>1, AlignBounds
<1>14. PICK x : x = NewPbuf(pay, len, room > 0)
  OBVIOUS
<1>15. x \in Pbufs /\ x.pay = pay /\ x.len = len /\ x.tot = len /\ x.next = Null /\ x.ref = 1
  BY <1>13, <1>14 DEF NewPbuf, Pbufs, Null
<1>16. k = [m |-> m, pool |-> s.pool, pbuf |-> With(s.pbuf, p, x), held |-> With(s.held, p, 1)]
  <2>1. k = [s EXCEPT !.m = m, !.pbuf = With(s.pbuf, p, x), !.held = With(s.held, p, 1)]
    BY <1>4, <1>6, <1>12, <1>14 DEF PbufAllocRam
  <2> QED BY <1>2, <2>1
<1>17. m.heap[p - Hdr].next = p + AlignUp(n)
  BY <1>3, <1>8, <1>10, <1>9 DEF Taken
<1>18. ASSUME p % Align = 0 PROVE pay + len <= p + AlignUp(n)
  <2>1. p \in Nat
    BY <1>10
  <2>2. PbufHdr \in Nat /\ room \in Nat /\ PbufHdr % Align = 0 /\ room % Align = 0
    BY <1>3
  <2>3. AlignUp(p + PbufHdr + room) = p + PbufHdr + room
    BY ONLY <1>18, <2>1, <2>2, AlignThree, Zenon
  <2>4. pay = p + PbufHdr + room
    BY <1>12, <2>3
  <2> QED BY <1>3, <1>4, <1>5, <1>10, <2>4
<1>19. Sane(p, x, 1, m.heap[p - Hdr].next)
  BY <1>10, <1>13, <1>15, <1>17, <1>18 DEF Sane
<1>20. GoodMem(m) /\ PoolOK(s.pool, D \cup {p})
  BY <1>2, <1>8, <1>10, PoolKeeps DEF Taken
<1>21. RamOK(m.heap, D \cup {p})
  <2>1. ASSUME NEW c \in Int
        PROVE  c \in DOMAIN m.heap \ {MemSize} /\ m.heap[c].used
               <=> c + Hdr \in D \cup {p} /\ c + Hdr > 0
    <3>1. CASE c = a
      BY <1>8, <1>9, <1>10, <3>1 DEF Taken
    <3>2. CASE c # a
      <4>1. c + Hdr # p
        BY <1>3, <1>10, <1>9, <3>2
      <4>2. c \in DOMAIN s.m.heap \ {MemSize} /\ s.m.heap[c].used <=> c + Hdr \in D /\ c + Hdr > 0
        BY <1>2 DEF RamOK
      <4> QED BY <1>8, <3>2, <4>1, <4>2 DEF Taken
    <3> QED BY <3>1, <3>2
  <2> QED BY <2>1 DEF RamOK
<1>22. ASSUME NEW q \in D, q > 0 PROVE m.heap[q - Hdr].next = s.m.heap[q - Hdr].next
  <2>1. q - Hdr \in DOMAIN s.m.heap \ {MemSize} /\ s.m.heap[q - Hdr].used
    BY <1>1, <1>22, RamBlock
  <2>2. q - Hdr # a
    BY <1>9, <2>1
  <2> QED BY <1>8, <2>1, <2>2 DEF Taken
<1>23. p \in Int \ {0} /\ x.tot = x.len
  BY <1>10, <1>15
<1>24. Fresh(s, p, m, s.pool, x)
  BY <1>11, <1>15, <1>19, <1>20, <1>21, <1>22, <1>23 DEF Fresh
<1> QED BY <1>10, <1>11, <1>16, <1>24, AddWhole

(* pbuf_alloc(PBUF_ROM) *)
LEMMA AllocRomFacts ==
  ASSUME NEW s, Whole(s), s.pool # << >>, NEW len \in Nat, NEW k, k = PbufAllocRom(s, len),
         NEW p, p = Head(s.pool)
  PROVE  Added(s, k, p) /\ p \in Int /\ p < 0 /\ p \notin DOMAIN s.pbuf
<1> DEFINE D == DOMAIN s.pbuf
<1>1. Base(s)
  BY DEF Whole
<1>2. /\ s = [m |-> s.m, pool |-> s.pool, pbuf |-> s.pbuf, held |-> s.held]
      /\ GoodMem(s.m) /\ D \subseteq Int \ {0} /\ PoolOK(s.pool, D) /\ RamOK(s.m.heap, D)
  BY <1>1 DEF Base
<1>3. p \in Int /\ p < 0 /\ p \notin D /\ PoolOK(Tail(s.pool), D \cup {p})
  BY <1>2, PoolTake
<1>4. PICK x : x = NewPbuf(Null, len, TRUE)
  OBVIOUS
<1>5. x \in Pbufs /\ x.len = len /\ x.tot = len /\ x.next = Null /\ x.ref = 1 /\ x.out
  BY <1>4 DEF NewPbuf, Pbufs, Null
<1>6. k = [m |-> s.m, pool |-> Tail(s.pool), pbuf |-> With(s.pbuf, p, x), held |-> With(s.held, p, 1)]
  <2>1. k = [s EXCEPT !.pool = Tail(s.pool), !.pbuf = With(s.pbuf, p, x), !.held = With(s.held, p, 1)]
    BY <1>4 DEF PbufAllocRom
  <2> QED BY <1>2, <2>1
<1>7. Sane(p, x, 1, s.m.heap[p - Hdr].next)
  BY <1>3, <1>5 DEF Sane
<1>8. RamOK(s.m.heap, D \cup {p})
  BY <1>2, <1>3 DEF RamOK
<1>9. p \in Int \ {0} /\ x.tot = x.len
  BY <1>3, <1>5
<1>10. Fresh(s, p, s.m, Tail(s.pool), x)
  <2>1. GoodMem(s.m)
    BY <1>2
  <2> QED BY <2>1, <1>3, <1>5, <1>7, <1>8, <1>9 DEF Fresh
<1> QED BY <1>3, <1>6, <1>10, AddWhole

(* e has the n items of x and then the m items of y. *)
Joint(e, x, n, y, m) ==
  /\ Len(e) = n + m
  /\ \A i \in 1 .. n : i \in 1 .. n + m /\ e[i] = x[i]
  /\ \A j \in 1 .. m : n + j \in 1 .. n + m /\ e[n + j] = y[j]
  /\ \A i \in 1 .. n + m : i \in 1 .. n \/ \E j \in 1 .. m : i = n + j

LEMMA ConcatAt ==
  ASSUME NEW S, NEW x \in Seq(S), NEW y \in Seq(S), NEW e, e = x \o y, NEW n, n = Len(x),
         NEW m, m = Len(y)
  PROVE  e \in Seq(S) /\ Joint(e, x, n, y, m)
<1>1. n \in Nat /\ m \in Nat
  OBVIOUS
<1>2. /\ e \in Seq(S) /\ Len(e) = n + m
      /\ \A i \in 1 .. n + m : e[i] = IF i <= n THEN x[i] ELSE y[i - n]
  BY ConcatProperties
<1>3. ASSUME NEW i \in 1 .. n PROVE i \in 1 .. n + m /\ e[i] = x[i]
  <2>1. i \in 1 .. n + m /\ i <= n
    BY <1>1
  <2> QED BY <1>2, <2>1
<1>4. ASSUME NEW j \in 1 .. m PROVE n + j \in 1 .. n + m /\ e[n + j] = y[j]
  <2>1. n + j \in 1 .. n + m /\ ~(n + j <= n) /\ (n + j) - n = j
    BY <1>1
  <2> QED BY <1>2, <2>1
<1>5. ASSUME NEW i \in 1 .. n + m PROVE i \in 1 .. n \/ \E j \in 1 .. m : i = n + j
  <2>1. CASE i <= n
    BY <1>1, <2>1
  <2>2. CASE ~(i <= n)
    <3>1. i - n \in 1 .. m /\ i = n + (i - n)
      BY <1>1, <2>2
    <3> QED BY <3>1
  <2> QED BY <2>1, <2>2
<1> QED BY <1>1, <1>2, <1>3, <1>4, <1>5 DEF Joint

(* c is b with the link of l to t. *)
Relinked(D, b, c, l, t) ==
  /\ DOMAIN b = D /\ DOMAIN c = D /\ 0 \notin D
  /\ c[l].next = t /\ \A q \in D \ {l} : c[q].next = b[q].next

(* The chain of t follows the chain of h. *)
LEMMA JoinChains ==
  ASSUME NEW D, NEW b, NEW H, NEW ch, Owned(b, H, ch),
         NEW h \in H, NEW t \in H, h # t, NEW l, l = ch[h][Len(ch[h])],
         NEW c, Relinked(D, b, c, l, t)
  PROVE  \E c2 : Owned(c, H \ {t}, c2)
<1>0. /\ DOMAIN b = D /\ DOMAIN c = D /\ 0 \notin D
      /\ c[l].next = t /\ \A q \in D \ {l} : c[q].next = b[q].next
  BY DEF Relinked
<1> USE <1>0
<1>1. ASSUME NEW g \in H
      PROVE  /\ ch[g] \in Seq(D) /\ Len(ch[g]) \in Nat /\ Len(ch[g]) >= 1 /\ ch[g][1] = g
             /\ \A i \in 1 .. Len(ch[g]) : ch[g][i] \in D
             /\ \A i \in 1 .. Len(ch[g]) - 1 : b[ch[g][i]].next = ch[g][i + 1]
             /\ b[ch[g][Len(ch[g])]].next = Null
  <2>1. PICK v : v = ch[g]
    OBVIOUS
  <2>2. Chained(b, v) /\ v[1] = g
    BY <2>1 DEF Owned
  <2>3. /\ v \in Seq(D) /\ Len(v) >= 1 /\ \A i \in 1 .. Len(v) - 1 : b[v[i]].next = v[i + 1]
        /\ b[v[Len(v)]].next = Null
    BY <2>2 DEF Chained
  <2>4. Len(v) \in Nat /\ \A i \in 1 .. Len(v) : v[i] \in D
    BY <2>3
  <2> QED BY <2>1, <2>2, <2>3, <2>4
<1>2. \A g, f \in H : \A i \in 1 .. Len(ch[g]), j \in 1 .. Len(ch[f]) :
        ch[g][i] = ch[f][j] => g = f /\ i = j
  BY DEF Owned
<1>3. PICK x, y, e : x = ch[h] /\ y = ch[t] /\ e = x \o y
  OBVIOUS
<1>4. PICK n, m : n = Len(x) /\ m = Len(y)
  OBVIOUS
<1>5. /\ x \in Seq(D) /\ n \in Nat /\ n >= 1 /\ x[1] = h /\ x[n] = l /\ 1 \in 1 .. n /\ n \in 1 .. n
      /\ \A i \in 1 .. n : x[i] \in D
      /\ \A i \in 1 .. n - 1 : b[x[i]].next = x[i + 1]
  BY <1>1, <1>3, <1>4
<1>6. /\ y \in Seq(D) /\ m \in Nat /\ m >= 1 /\ y[1] = t /\ 1 \in 1 .. m /\ m \in 1 .. m
      /\ \A i \in 1 .. m : y[i] \in D
      /\ \A i \in 1 .. m - 1 : b[y[i]].next = y[i + 1]
      /\ b[y[m]].next = Null
  BY <1>1, <1>3, <1>4
<1>7. /\ \A i \in 1 .. n, j \in 1 .. n : x[i] = x[j] => i = j
      /\ \A i \in 1 .. m, j \in 1 .. m : y[i] = y[j] => i = j
      /\ \A i \in 1 .. n, j \in 1 .. m : x[i] # y[j]
      /\ \A g \in H \ {h, t} : \A j \in 1 .. Len(ch[g]) :
           /\ \A i \in 1 .. n : x[i] # ch[g][j]
           /\ \A i \in 1 .. m : y[i] # ch[g][j]
  BY <1>2, <1>3, <1>4
<1>8. /\ e \in Seq(D) /\ Len(e) = n + m
      /\ \A i \in 1 .. n : i \in 1 .. n + m /\ e[i] = x[i]
      /\ \A j \in 1 .. m : n + j \in 1 .. n + m /\ e[n + j] = y[j]
      /\ \A i \in 1 .. n + m : i \in 1 .. n \/ \E j \in 1 .. m : i = n + j
  <2>1. e \in Seq(D) /\ Joint(e, x, n, y, m)
    BY <1>3, <1>4, <1>5, <1>6, ConcatAt
  <2> QED BY <2>1 DEF Joint
<1>9. PICK c2 : c2 = [g \in H |-> IF g = h THEN e ELSE ch[g]]
  OBVIOUS
<1>10. c2[h] = e /\ \A g \in H \ {h} : c2[g] = ch[g]
  BY <1>9
<1>11. Chained(c, e) /\ e[1] = h
  <2>1. ASSUME NEW i \in 1 .. n + m - 1 PROVE c[e[i]].next = e[i + 1]
    <3>0. i \in 1 .. n + m
      BY <1>5, <1>6
    <3>1. CASE i \in 1 .. n - 1
      <4>1. i \in 1 .. n /\ i + 1 \in 1 .. n /\ i # n
        BY <1>5, <3>1
      <4>2. x[i] \in D \ {l}
        BY <1>5, <1>7, <4>1
      <4> QED BY <1>5, <1>8, <3>1, <4>1, <4>2
    <3>2. CASE i = n
      <4>1. e[i] = l
        BY <1>5, <1>8, <3>2
      <4>2. e[i + 1] = t
        BY <1>6, <1>8, <3>2
      <4> QED BY <4>1, <4>2
    <3>3. CASE i \notin 1 .. n
      <4>1. PICK j \in 1 .. m : i = n + j
        BY <1>8, <3>0, <3>3
      <4>2. j \in 1 .. m - 1 /\ j + 1 \in 1 .. m /\ n + (j + 1) = i + 1
        BY <1>5, <1>6, <4>1
      <4>3. e[i] = y[j] /\ e[n + (j + 1)] = y[j + 1]
        BY <1>8, <4>1, <4>2
      <4>4. y[j] \in D \ {l}
        BY <1>5, <1>6, <1>7, <4>1
      <4> QED BY <1>6, <4>2, <4>3, <4>4
    <3> QED BY <1>5, <3>1, <3>2, <3>3
  <2>2. e[n + m] = y[m] /\ y[m] \in D \ {l}
    BY <1>5, <1>6, <1>7, <1>8
  <2>3. c[e[n + m]].next = Null
    BY <1>6, <2>2
  <2>4. e[1] = h /\ n + m >= 1
    BY <1>5, <1>6, <1>8
  <2>5. Len(e) = n + m /\ e \in Seq(DOMAIN c)
    BY <1>8
  <2>6. Len(e) >= 1 /\ c[e[Len(e)]].next = Null /\ \A i \in 1 .. Len(e) - 1 : c[e[i]].next = e[i + 1]
    <3>1. Len(e) >= 1 /\ c[e[Len(e)]].next = Null
      BY <2>3, <2>4, <2>5
    <3>2. ASSUME NEW i \in 1 .. Len(e) - 1 PROVE c[e[i]].next = e[i + 1]
      <4>1. i \in 1 .. n + m - 1
        BY <1>5, <1>6, <2>5
      <4> QED BY <2>1, <4>1
    <3> QED BY <3>1, <3>2
  <2> QED BY <2>4, <2>5, <2>6 DEF Chained
<1>12. ASSUME NEW g \in H \ {t} PROVE Chained(c, c2[g]) /\ c2[g][1] = g
  <2>1. CASE g = h
    BY <1>10, <1>11, <2>1
  <2>2. CASE g # h
    <3>1. c2[g] = ch[g] /\ g \in H
      BY <1>10, <2>2
    <3>2. \A i \in 1 .. Len(ch[g]) : ch[g][i] \in D \ {l}
      BY <1>1, <1>5, <1>7, <2>2, <3>1
    <3>3. PICK v : v = ch[g]
      OBVIOUS
    <3>4. /\ v \in Seq(DOMAIN c) /\ Len(v) \in Nat /\ Len(v) >= 1 /\ v[1] = g
          /\ \A i \in 1 .. Len(v) : v[i] \in D \ {l}
          /\ \A i \in 1 .. Len(v) - 1 : b[v[i]].next = v[i + 1]
          /\ b[v[Len(v)]].next = Null
      BY <1>1, <3>1, <3>2, <3>3
    <3>5. \A i \in 1 .. Len(v) : c[v[i]].next = b[v[i]].next
      BY <3>4
    <3>6. (\A i \in 1 .. Len(v) - 1 : i \in 1 .. Len(v)) /\ Len(v) \in 1 .. Len(v)
      BY <3>4
    <3>7. Chained(c, v)
      BY <3>4, <3>5, <3>6 DEF Chained
    <3> QED BY <3>1, <3>3, <3>4, <3>7
  <2> QED BY <2>1, <2>2
<1>13. ASSUME NEW q \in D PROVE \E g \in H \ {t} : \E i \in 1 .. Len(c2[g]) : c2[g][i] = q
  <2>1. PICK g, i : g \in H /\ i \in 1 .. Len(ch[g]) /\ ch[g][i] = q
    BY DEF Owned
  <2>2. CASE g = h
    <3>1. i \in 1 .. n /\ x[i] = q
      BY <1>3, <1>4, <2>1, <2>2
    <3>2. e[i] = q /\ i \in 1 .. Len(e)
      BY <1>8, <3>1
    <3> QED BY <1>10, <3>2
  <2>3. CASE g = t
    <3>1. i \in 1 .. m /\ y[i] = q
      BY <1>3, <1>4, <2>1, <2>3
    <3>2. e[n + i] = q /\ n + i \in 1 .. Len(e)
      BY <1>8, <3>1
    <3> QED BY <1>10, <3>2
  <2>4. CASE g # h /\ g # t
    BY <1>10, <2>1, <2>4
  <2> QED BY <2>2, <2>3, <2>4
<1>14. ASSUME NEW i \in 1 .. n + m, NEW j \in 1 .. n + m, e[i] = e[j] PROVE i = j
  <2>1. CASE i \in 1 .. n /\ j \in 1 .. n
    BY <1>7, <1>8, <1>14, <2>1
  <2>2. CASE i \notin 1 .. n /\ j \notin 1 .. n
    BY <1>7, <1>8, <1>14, <2>2
  <2>3. CASE i \in 1 .. n /\ j \notin 1 .. n
    BY <1>7, <1>8, <1>14, <2>3
  <2>4. CASE i \notin 1 .. n /\ j \in 1 .. n
    BY <1>7, <1>8, <1>14, <2>4
  <2> QED BY <2>1, <2>2, <2>3, <2>4
<1>15. ASSUME NEW g \in H \ {h, t}, NEW j \in 1 .. Len(ch[g]), NEW i \in 1 .. n + m
       PROVE  e[i] # ch[g][j]
  BY <1>7, <1>8
<1>16. ASSUME NEW g \in H \ {t}, NEW f \in H \ {t}, NEW i \in 1 .. Len(c2[g]),
              NEW j \in 1 .. Len(c2[f]), c2[g][i] = c2[f][j]
       PROVE  g = f /\ i = j
  <2>1. CASE g = h /\ f = h
    BY <1>8, <1>10, <1>14, <1>16, <2>1
  <2>2. CASE g = h /\ f # h
    BY <1>8, <1>10, <1>15, <1>16, <2>2
  <2>3. CASE g # h /\ f = h
    BY <1>8, <1>10, <1>15, <1>16, <2>3
  <2>4. CASE g # h /\ f # h
    BY <1>2, <1>10, <1>16, <2>4
  <2> QED BY <2>1, <2>2, <2>3, <2>4
<1>17. Owned(c, H \ {t}, c2)
  BY <1>12, <1>13, <1>16 DEF Owned
<1> QED BY <1>17

(* pbuf_chain *)
LEMMA ChainFacts ==
  ASSUME NEW s, Whole(s), NEW h \in HeadsOf(s), NEW t \in HeadsOf(s), h # t,
         NEW k, k = PbufChain(s, h, t)
  PROVE  Whole(k) /\ HeadsOf(k) = HeadsOf(s) \ {t} /\ DOMAIN k.pbuf = DOMAIN s.pbuf
<1> DEFINE D == DOMAIN s.pbuf
           H == HeadsOf(s)
<1>1. Base(s)
  BY DEF Whole
<1>2. /\ s = [m |-> s.m, pool |-> s.pool, pbuf |-> s.pbuf, held |-> s.held]
      /\ D \subseteq Int \ {0} /\ s.pbuf \in [D -> Pbufs] /\ s.held \in [D -> Nat]
      /\ \A q \in D : Sane(q, s.pbuf[q], s.held[q], s.m.heap[q - Hdr].next)
  BY <1>1 DEF Base
<1>3. GoodMem(s.m) /\ PoolOK(s.pool, D) /\ RamOK(s.m.heap, D)
  BY <1>1 DEF Base
<1>4. h \in D /\ t \in D /\ H \subseteq D /\ 0 \notin D
  BY <1>2 DEF HeadsOf
<1>5. PICK ch, r : /\ Owned(s.pbuf, H, ch) /\ Summed(s.pbuf, r)
                   /\ \A g \in H : s.pbuf[g].tot = r[g]
  BY DEF Whole
<1>6. PICK l, n, x : x = ch[h] /\ n = Len(x) /\ l = x[n]
  OBVIOUS
<1>7. l = Last(Chain(s.pbuf, h))
  BY <1>4, <1>5, <1>6, ChainIs DEF Last
<1>8. /\ x \in Seq(D) /\ n \in Nat /\ n >= 1 /\ x[1] = h /\ s.pbuf[l].next = Null
      /\ \A i \in 1 .. n : x[i] \in D
      /\ \A i \in 1 .. n - 1 : s.pbuf[x[i]].next = x[i + 1]
  <2>1. Chained(s.pbuf, x) /\ x[1] = h
    BY <1>5, <1>6 DEF Owned
  <2> QED BY <1>6, <2>1 DEF Chained
<1>9. l \in D /\ 1 \in 1 .. n /\ n \in 1 .. n
  BY <1>6, <1>8
<1>10. PICK b : b = [q \in D |-> [s.pbuf[q] EXCEPT !.next = IF q = l THEN t ELSE @,
                                  !.tot = IF q = h THEN @ + s.pbuf[t].tot ELSE @]]
  OBVIOUS
<1>11. PICK hd : hd = With(s.held, t, 0)
  OBVIOUS
<1>12. k = [m |-> s.m, pool |-> s.pool, pbuf |-> b, held |-> hd]
  <2>1. k = [s EXCEPT !.pbuf = b, !.held = hd]
    BY <1>7, <1>10, <1>11 DEF PbufChain
  <2> QED BY <1>2, <2>1
<1>13. k.m = s.m /\ k.pool = s.pool /\ k.pbuf = b /\ k.held = hd
  BY <1>12
<1>14. DOMAIN hd = D /\ hd \in [D -> Nat] /\ hd[t] = 0 /\ \A q \in D \ {t} : hd[q] = s.held[q]
  BY <1>2, <1>4, <1>11 DEF With
<1>15. \A q \in D : s.pbuf[q] \in Pbufs
  BY <1>2
<1>16. ASSUME NEW q \in D
       PROVE  /\ b[q] \in Pbufs
              /\ b[q].next = IF q = l THEN t ELSE s.pbuf[q].next
              /\ b[q].tot = IF q = h THEN s.pbuf[q].tot + s.pbuf[t].tot ELSE s.pbuf[q].tot
              /\ b[q].pay = s.pbuf[q].pay /\ b[q].len = s.pbuf[q].len /\ b[q].ref = s.pbuf[q].ref
              /\ b[q].out = s.pbuf[q].out
  <2>1. PICK y, u, v : /\ y = s.pbuf[q] /\ u = (IF q = l THEN t ELSE y.next)
                       /\ v = (IF q = h THEN y.tot + s.pbuf[t].tot ELSE y.tot)
    OBVIOUS
  <2>2. y \in Pbufs /\ s.pbuf[t].tot \in Int /\ t \in Int
    BY <1>2, <1>4, <1>15, <2>1 DEF Pbufs
  <2>3. b[q] = [y EXCEPT !.next = u, !.tot = v]
    <3>1. b[q] = [y EXCEPT !.next = IF q = l THEN t ELSE @,
                           !.tot = IF q = h THEN @ + s.pbuf[t].tot ELSE @]
      BY <1>10, <2>1
    <3> QED BY <2>1, <2>2, <3>1 DEF Pbufs
  <2>4. u \in Int /\ v \in Int
    BY <2>1, <2>2 DEF Pbufs
  <2>5. b[q] \in Pbufs /\ b[q].next = u /\ b[q].tot = v /\ b[q].pay = y.pay /\ b[q].len = y.len
        /\ b[q].ref = y.ref /\ b[q].out = y.out
    BY <2>2, <2>3, <2>4 DEF Pbufs
  <2> QED BY <2>1, <2>5
<1>17. DOMAIN b = D /\ b \in [D -> Pbufs]
  BY <1>10, <1>16
<1>18. b[h].next # Null
  <2>1. CASE h = l
    BY <1>4, <1>16, <2>1 DEF Null
  <2>2. CASE h # l
    <3>1. n # 1
      BY <1>6, <1>8, <2>2
    <3>2. 1 \in 1 .. n - 1 /\ 2 \in 1 .. n /\ 1 + 1 = 2
      BY <1>8, <3>1
    <3>3. s.pbuf[h].next = x[2] /\ x[2] \in D
      BY <1>8, <3>2
    <3> QED BY <1>4, <1>16, <2>2, <3>3 DEF Null
  <2> QED BY <2>1, <2>2
<1>19. ASSUME NEW q \in D PROVE Sane(q, b[q], hd[q], s.m.heap[q - Hdr].next)
  <2>1. Sane(q, s.pbuf[q], s.held[q], s.m.heap[q - Hdr].next)
    BY <1>2
  <2>2. b[q].next = Null => b[q].tot = b[q].len
    <3>1. CASE q = h
      BY <1>18, <3>1
    <3>2. CASE q # h
      <4>1. t # Null
        BY <1>4 DEF Null
      <4> QED BY <1>16, <2>1, <3>2, <4>1 DEF Sane
    <3> QED BY <3>1, <3>2
  <2>3. hd[q] > 0 => b[q].ref = hd[q]
    BY <1>14, <1>16, <2>1 DEF Sane
  <2> QED BY <1>16, <2>1, <2>2, <2>3 DEF Sane
<1>20. Base(k)
  <2>1. D \subseteq Int \ {0}
    BY <1>2
  <2> HIDE DEF D
  <2> QED BY <1>3, <1>12, <1>13, <1>14, <1>17, <1>19, <2>1 DEF Base
<1>21. HeadsOf(k) = H \ {t}
  BY <1>4, <1>13, <1>14, <1>17 DEF HeadsOf
<1>22. PICK c2 : Owned(b, H \ {t}, c2)
  <2>1. b[l].next = t /\ \A q \in D \ {l} : b[q].next = s.pbuf[q].next
    BY <1>9, <1>16
  <2>2. l = ch[h][Len(ch[h])]
    BY <1>6
  <2> HIDE DEF H, D
  <2>3. h \in H /\ t \in H /\ DOMAIN s.pbuf = D
    BY DEF H, D
  <2>4. Relinked(D, s.pbuf, b, l, t)
    BY <1>4, <1>17, <2>1, <2>3 DEF Relinked
  <2> QED BY <1>5, <2>2, <2>3, <2>4, JoinChains
<1> DEFINE In(q) == \E i \in 1 .. n : x[i] = q
<1>23. PICK w : w = [q \in D |-> IF In(q) THEN r[q] + r[t] ELSE r[q]]
  OBVIOUS
<1>24. r \in [D -> Int]
  BY <1>5 DEF Summed
<1>25. w \in [D -> Int] /\ \A q \in D : w[q] = IF In(q) THEN r[q] + r[t] ELSE r[q]
  BY <1>4, <1>23, <1>24
<1>26. \A g \in H \ {h} : ~In(g)
  <2>1. ASSUME NEW g \in H \ {h}, In(g) PROVE FALSE
    <3>1. PICK i \in 1 .. n : x[i] = g
      BY <2>1
    <3>2. ch[g][1] = g /\ 1 \in 1 .. Len(ch[g])
      BY <1>5 DEF Owned, Chained
    <3>3. i \in 1 .. Len(ch[h]) /\ ch[h][i] = ch[g][1]
      BY <1>6, <3>1, <3>2
    <3> QED BY <1>5, <3>2, <3>3 DEF Owned
  <2> QED BY <2>1
<1>27. ASSUME NEW q \in D, q # l, s.pbuf[q].next # Null
       PROVE  s.pbuf[q].next \in D /\ (In(q) <=> In(s.pbuf[q].next))
  <2>1. PICK g, i : g \in H /\ i \in 1 .. Len(ch[g]) /\ ch[g][i] = q
    BY <1>5 DEF Owned
  <2>2. PICK y : y = ch[g]
    OBVIOUS
  <2>3. /\ y \in Seq(D) /\ Len(y) \in Nat /\ s.pbuf[y[Len(y)]].next = Null
        /\ \A j \in 1 .. Len(y) - 1 : s.pbuf[y[j]].next = y[j + 1]
    <3>1. Chained(s.pbuf, y)
      BY <1>5, <2>1, <2>2 DEF Owned
    <3> QED BY <3>1 DEF Chained
  <2>4. i \in 1 .. Len(y) - 1 /\ i + 1 \in 1 .. Len(y)
    BY <1>27, <2>1, <2>2, <2>3
  <2>5. s.pbuf[q].next = y[i + 1] /\ y[i + 1] \in D
    BY <2>1, <2>2, <2>3, <2>4
  <2>6. CASE g = h
    BY <1>6, <2>1, <2>2, <2>4, <2>5, <2>6
  <2>7. CASE g # h
    <3>1. \A j \in 1 .. n, v \in 1 .. Len(y) : x[j] # y[v]
      BY <1>5, <1>6, <2>1, <2>2, <2>7 DEF Owned
    <3> QED BY <2>1, <2>2, <2>4, <2>5, <3>1
  <2> QED BY <2>6, <2>7
<1>28. In(l) /\ In(h) /\ ~In(t)
  BY <1>6, <1>8, <1>9, <1>26
<1> HIDE DEF In
<1>29. ASSUME NEW q \in D
       PROVE  w[q] = b[q].len + IF b[q].next = Null THEN 0 ELSE w[b[q].next]
  <2>1. r[q] = s.pbuf[q].len + IF s.pbuf[q].next = Null THEN 0 ELSE r[s.pbuf[q].next]
    BY <1>5 DEF Summed
  <2>2. s.pbuf[q].len \in Int /\ r[t] \in Int /\ r[q] \in Int
    BY <1>4, <1>15, <1>24 DEF Pbufs
  <2>3. CASE q = l
    <3>1. r[l] = s.pbuf[l].len
      BY <1>8, <2>1, <2>2, <2>3
    <3>2. w[l] = r[l] + r[t] /\ w[t] = r[t]
      BY <1>4, <1>9, <1>25, <1>28
    <3>3. b[l].next = t /\ b[l].next # Null /\ b[l].len = s.pbuf[l].len
      BY <1>4, <1>9, <1>16 DEF Null
    <3> QED BY <2>3, <3>1, <3>2, <3>3
  <2>4. CASE q # l /\ s.pbuf[q].next = Null
    <3>1. ~In(q)
      <4>1. ASSUME NEW i \in 1 .. n, x[i] = q PROVE FALSE
        <5>1. i # n
          BY <1>6, <2>4, <4>1
        <5>2. i \in 1 .. n - 1 /\ i + 1 \in 1 .. n
          BY <1>8, <5>1
        <5>3. s.pbuf[q].next = x[i + 1] /\ x[i + 1] \in D
          BY <1>8, <4>1, <5>2
        <5> QED BY <1>4, <2>4, <5>3 DEF Null
      <4> QED BY <4>1 DEF In
    <3> QED BY <1>16, <1>25, <2>1, <2>4, <3>1
  <2>5. CASE q # l /\ s.pbuf[q].next # Null
    <3>1. PICK z : z = s.pbuf[q].next
      OBVIOUS
    <3>2. z \in D /\ (In(q) <=> In(z)) /\ z # Null /\ b[q].next = z /\ b[q].len = s.pbuf[q].len
      BY <1>16, <1>27, <2>5, <3>1
    <3>3. r[q] = s.pbuf[q].len + r[z] /\ r[z] \in Int
      BY <1>24, <2>1, <2>5, <3>1, <3>2
    <3>4. CASE In(q)
      <4>1. w[q] = r[q] + r[t] /\ w[z] = r[z] + r[t]
        BY <1>25, <3>2, <3>4
      <4> QED BY <2>2, <3>2, <3>3, <4>1
    <3>5. CASE ~In(q)
      <4>1. w[q] = r[q] /\ w[z] = r[z]
        BY <1>25, <3>2, <3>5
      <4> QED BY <2>2, <3>2, <3>3, <4>1
    <3> QED BY <3>4, <3>5
  <2> QED BY <2>3, <2>4, <2>5
<1>30. Summed(b, w)
  BY <1>17, <1>25, <1>29 DEF Summed
<1>31. ASSUME NEW g \in H \ {t} PROVE b[g].tot = w[g]
  <2>1. CASE g = h
    BY <1>4, <1>5, <1>16, <1>25, <1>28, <2>1
  <2>2. CASE g # h
    BY <1>4, <1>5, <1>16, <1>25, <1>26, <2>2
  <2> QED BY <2>1, <2>2
<1>32. Whole(k)
  BY <1>13, <1>20, <1>21, <1>22, <1>30, <1>31 DEF Whole
<1> QED BY <1>13, <1>17, <1>21, <1>32

Steps(s, c, n, f) ==
  f = [k \in 0 .. n |-> IF k = 0 THEN s ELSE Release(f[k - 1], c[k])]

LEMMA StepsExist ==
  ASSUME NEW s, NEW c, NEW n \in Nat
  PROVE  \E f : Steps(s, c, n, f)
<1> DEFINE Bad == {i \in Nat : ~\E f : Steps(s, c, i, f)}
<1>1. Bad = {}
  <2> SUFFICES ASSUME Bad # {} PROVE FALSE
    OBVIOUS
  <2>1. Bad \in SUBSET Nat
    OBVIOUS
  <2>2. PICK i \in Bad : \A y \in Bad : i <= y
    BY <2>1, Least
  <2>3. i \in Nat /\ ~\E f : Steps(s, c, i, f)
    OBVIOUS
  <2>4. CASE i = 0
    <3>1. PICK f : f = [k \in 0 .. 0 |-> s]
      OBVIOUS
    <3>2. f = [k \in 0 .. 0 |-> IF k = 0 THEN s ELSE Release(f[k - 1], c[k])]
      BY <3>1
    <3> QED BY <2>3, <2>4, <3>2 DEF Steps
  <2>5. CASE i # 0
    <3>1. i - 1 \in Nat /\ ~(i <= i - 1)
      BY <2>3, <2>5
    <3>2. i - 1 \notin Bad
      BY <2>2, <3>1
    <3>3. PICK g : Steps(s, c, i - 1, g)
      BY <3>1, <3>2
    <3>4. \A k \in 0 .. i - 1 : g[k] = IF k = 0 THEN s ELSE Release(g[k - 1], c[k])
      BY <3>3 DEF Steps
    <3>5. PICK f : f = [k \in 0 .. i |-> IF k = i THEN Release(g[i - 1], c[i]) ELSE g[k]]
      OBVIOUS
    <3>6. ASSUME NEW k \in 0 .. i PROVE f[k] = IF k = 0 THEN s ELSE Release(f[k - 1], c[k])
      <4>1. CASE k = i
        <5>1. f[i - 1] = g[i - 1] /\ f[i] = Release(g[i - 1], c[i])
          BY <2>3, <2>5, <3>5
        <5> QED BY <2>5, <4>1, <5>1
      <4>2. CASE k # i
        <5>1. k \in 0 .. i - 1 /\ f[k] = g[k]
          BY <2>3, <3>5, <4>2
        <5>2. k # 0 => f[k - 1] = g[k - 1]
          BY <2>3, <3>5, <5>1
        <5> QED BY <3>4, <5>1, <5>2
      <4> QED BY <4>1, <4>2
    <3>7. \E F : f = [k \in 0 .. i |-> F[k]]
      BY <3>5
    <3>8. Steps(s, c, i, f)
      BY <3>6, <3>7 DEF Steps
    <3> QED BY <2>3, <3>8
  <2> QED BY <2>4, <2>5
<1> QED BY <1>1

(* k is s without the pbufs of R. *)
Cleared(s, k, R) ==
  /\ Base(k) /\ DOMAIN k.pbuf = DOMAIN s.pbuf \ R
  /\ \A q \in DOMAIN s.pbuf \ R : k.pbuf[q] = s.pbuf[q] /\ k.held[q] = s.held[q]

Firsts(c, k) == {c[i] : i \in 1 .. k}

LEMMA StepsFacts ==
  ASSUME NEW s, Base(s), NEW c \in Seq(DOMAIN s.pbuf),
         \A i, j \in 1 .. Len(c) : c[i] = c[j] => i = j,
         NEW f, Steps(s, c, Len(c), f), NEW k \in 0 .. Len(c)
  PROVE  Cleared(s, f[k], Firsts(c, k))
<1> DEFINE n == Len(c)
           R(i) == {c[j] : j \in 1 .. i}
           Bad == {i \in Nat : i <= n /\ ~Cleared(s, f[i], R(i))}
<1>0. n \in Nat
  OBVIOUS
<1>1. \A i \in 0 .. n : f[i] = IF i = 0 THEN s ELSE Release(f[i - 1], c[i])
  BY DEF Steps
<1>2. Bad = {}
  <2> SUFFICES ASSUME Bad # {} PROVE FALSE
    OBVIOUS
  <2>1. Bad \in SUBSET Nat
    OBVIOUS
  <2>2. PICK i \in Bad : \A y \in Bad : i <= y
    BY <2>1, Least
  <2>3. i \in Nat /\ i <= n /\ ~Cleared(s, f[i], R(i))
    OBVIOUS
  <2>4. CASE i = 0
    <3>1. f[i] = s
      BY <1>0, <1>1, <2>4
    <3>2. R(i) = {}
      BY <2>4
    <3> HIDE DEF R
    <3> QED BY <2>3, <3>1, <3>2 DEF Cleared
  <2>5. CASE i # 0
    <3>1. i - 1 \in Nat /\ ~(i <= i - 1) /\ i - 1 <= n /\ i \in 1 .. n /\ i \in 0 .. n
      BY <1>0, <2>3, <2>5
    <3>2. i - 1 \notin Bad
      BY <2>2, <3>1
    <3>3. Cleared(s, f[i - 1], R(i - 1))
      BY <3>1, <3>2
    <3>4. PICK t, p : t = f[i - 1] /\ p = c[i]
      OBVIOUS
    <3>5. f[i] = Release(t, p)
      BY <1>1, <2>5, <3>1, <3>4
    <3>6. p \in DOMAIN s.pbuf /\ p \notin R(i - 1)
      BY <3>1, <3>4
    <3>7. R(i) = R(i - 1) \cup {p}
      BY <3>1, <3>4
    <3> HIDE DEF R
    <3>8. Base(t) /\ p \in DOMAIN t.pbuf /\ DOMAIN t.pbuf = DOMAIN s.pbuf \ R(i - 1)
          /\ \A q \in DOMAIN s.pbuf \ R(i - 1) : t.pbuf[q] = s.pbuf[q] /\ t.held[q] = s.held[q]
      BY <3>3, <3>4, <3>6 DEF Cleared
    <3>9. PICK u : u = f[i]
      OBVIOUS
    <3>10. /\ Base(u)
           /\ u.pbuf = [q \in DOMAIN t.pbuf \ {p} |-> t.pbuf[q]]
           /\ u.held = [q \in DOMAIN t.pbuf \ {p} |-> t.held[q]]
      <4>1. Without(t, u, p)
        BY <3>5, <3>8, <3>9, ReleaseFacts
      <4> QED BY <4>1 DEF Without
    <3>11. DOMAIN u.pbuf = DOMAIN s.pbuf \ R(i)
      BY <3>7, <3>8, <3>10
    <3>12. \A q \in DOMAIN s.pbuf \ R(i) : u.pbuf[q] = s.pbuf[q] /\ u.held[q] = s.held[q]
      BY <3>7, <3>8, <3>10
    <3> QED BY <2>3, <3>9, <3>10, <3>11, <3>12 DEF Cleared
  <2> QED BY <2>4, <2>5
<1>3. k \in Nat /\ k <= n
  BY <1>0
<1>4. k \notin Bad
  BY <1>2
<1> QED BY <1>3, <1>4 DEF Firsts

LEMMA ClearedWhole ==
  ASSUME NEW s, Whole(s), NEW p \in HeadsOf(s), NEW ch, Owned(s.pbuf, HeadsOf(s), ch),
         NEW r, Summed(s.pbuf, r), \A h \in HeadsOf(s) : s.pbuf[h].tot = r[h],
         NEW R, R = {ch[p][i] : i \in 1 .. Len(ch[p])}, NEW k, Cleared(s, k, R)
  PROVE  Whole(k)
<1> DEFINE D == DOMAIN s.pbuf
           H == HeadsOf(s)
<1>1. Base(s) /\ Base(k) /\ 0 \notin D
  BY DEF Whole, Base, Cleared
<1>2. DOMAIN k.pbuf = D \ R /\ \A q \in D \ R : k.pbuf[q] = s.pbuf[q] /\ k.held[q] = s.held[q]
  BY DEF Cleared
<1>3. \A g \in H : ch[g][1] = g /\ 1 \in 1 .. Len(ch[g])
  BY DEF Owned, Chained
<1>4. ASSUME NEW g \in H \ {p}, NEW i \in 1 .. Len(ch[g]) PROVE ch[g][i] \notin R
  BY DEF Owned
<1>5. HeadsOf(k) = H \ {p}
  <2>1. p \in R
    BY <1>3
  <2>2. \A g \in H \ {p} : g \in D /\ g \notin R
    BY <1>3, <1>4 DEF HeadsOf
  <2>3. \A g \in D \ R : g \in HeadsOf(k) <=> g \in H
    BY <1>2 DEF HeadsOf
  <2>4. \A g : g \in HeadsOf(k) => g \in D \ R
    BY <1>2 DEF HeadsOf
  <2> HIDE DEF H, D
  <2> QED BY <2>1, <2>2, <2>3, <2>4
<1>6. ASSUME NEW g \in H \ {p} PROVE Chained(k.pbuf, ch[g]) /\ ch[g][1] = g
  <2>1. PICK v : v = ch[g]
    OBVIOUS
  <2>2. Chained(s.pbuf, v) /\ v[1] = g
    BY <2>1 DEF Owned
  <2>3. v \in Seq(D) /\ Len(v) \in Nat /\ Len(v) >= 1
    BY <2>2 DEF Chained
  <2>4. \A i \in 1 .. Len(v) : v[i] \in D \ R
    BY <1>4, <2>1, <2>3
  <2>5. v \in Seq(D \ R)
    BY <2>3, <2>4
  <2>6. \A i \in 1 .. Len(v) : k.pbuf[v[i]] = s.pbuf[v[i]]
    BY <1>2, <2>4
  <2>7. (\A i \in 1 .. Len(v) - 1 : i \in 1 .. Len(v)) /\ Len(v) \in 1 .. Len(v)
    BY <2>3
  <2> QED BY <1>2, <2>1, <2>2, <2>3, <2>5, <2>6, <2>7 DEF Chained
<1>7. ASSUME NEW q \in D \ R PROVE \E g \in H \ {p} : \E i \in 1 .. Len(ch[g]) : ch[g][i] = q
  <2>1. PICK g, i : g \in H /\ i \in 1 .. Len(ch[g]) /\ ch[g][i] = q
    BY DEF Owned
  <2>2. g # p
    BY <1>7, <2>1
  <2> QED BY <2>1, <2>2
<1>8. Owned(k.pbuf, HeadsOf(k), ch)
  <2>1. \A g, f \in H : \A i \in 1 .. Len(ch[g]), j \in 1 .. Len(ch[f]) :
          ch[g][i] = ch[f][j] => g = f /\ i = j
    BY DEF Owned
  <2> HIDE DEF H, D
  <2> QED BY <1>2, <1>5, <1>6, <1>7, <2>1 DEF Owned
<1>9. ASSUME NEW q \in D \ R, s.pbuf[q].next # Null PROVE s.pbuf[q].next \in D \ R
  <2>1. PICK g \in H \ {p} : \E i \in 1 .. Len(ch[g]) : ch[g][i] = q
    BY <1>7
  <2>2. PICK i \in 1 .. Len(ch[g]) : ch[g][i] = q
    BY <2>1
  <2>3. PICK v : v = ch[g]
    OBVIOUS
  <2>4. Chained(s.pbuf, v)
    BY <2>3 DEF Owned
  <2>5. v \in Seq(D) /\ Len(v) \in Nat /\ s.pbuf[v[Len(v)]].next = Null
        /\ \A j \in 1 .. Len(v) - 1 : s.pbuf[v[j]].next = v[j + 1]
    BY <2>4 DEF Chained
  <2>6. i \in 1 .. Len(v) - 1 /\ i + 1 \in 1 .. Len(v)
    BY <1>9, <2>2, <2>3, <2>5
  <2>7. s.pbuf[q].next = v[i + 1] /\ v[i + 1] \in D
    BY <2>2, <2>3, <2>5, <2>6
  <2>8. v[i + 1] \notin R
    BY <1>4, <2>3, <2>6
  <2> QED BY <2>7, <2>8
<1>10. PICK t : t = [q \in D \ R |-> r[q]]
  OBVIOUS
<1>11. t \in [D \ R -> Int] /\ \A q \in D \ R : t[q] = r[q]
  BY <1>10 DEF Summed
<1>12. ASSUME NEW q \in D \ R
       PROVE  t[q] = k.pbuf[q].len + IF k.pbuf[q].next = Null THEN 0 ELSE t[k.pbuf[q].next]
  <2>1. r[q] = s.pbuf[q].len + IF s.pbuf[q].next = Null THEN 0 ELSE r[s.pbuf[q].next]
    BY DEF Summed
  <2> QED BY <1>2, <1>9, <1>11, <2>1
<1>13. Summed(k.pbuf, t)
  BY <1>2, <1>11, <1>12 DEF Summed
<1>14. ASSUME NEW h \in HeadsOf(k) PROVE k.pbuf[h].tot = t[h]
  <2>1. h \in H /\ h \in D \ R
    BY <1>2, <1>5, <1>14 DEF HeadsOf
  <2> QED BY <1>2, <1>11, <2>1
<1> QED BY <1>1, <1>8, <1>13, <1>14 DEF Whole

(* pbuf_free *)
LEMMA FreeWhole ==
  ASSUME NEW s, Whole(s), NEW p \in HeadsOf(s), NEW k, k = PbufFree(s, p)
  PROVE  Whole(k)
<1>1. Base(s) /\ p \in DOMAIN s.pbuf /\ s.held[p] > 0
  BY DEF Whole, HeadsOf
<1>2. /\ s = [m |-> s.m, pool |-> s.pool, pbuf |-> s.pbuf, held |-> s.held]
      /\ s.pbuf \in [DOMAIN s.pbuf -> Pbufs] /\ s.held \in [DOMAIN s.pbuf -> Nat]
      /\ 0 \notin DOMAIN s.pbuf
  BY <1>1 DEF Base
<1>3. PICK b : b = s.pbuf[p]
  OBVIOUS
<1>4. /\ Sane(p, b, s.held[p], s.m.heap[p - Hdr].next)
      /\ GoodMem(s.m) /\ RamOK(s.m.heap, DOMAIN s.pbuf)
  BY <1>1, <1>3 DEF Base
<1>5. b \in Pbufs /\ b.ref = s.held[p] /\ b.ref \in Nat \ {0}
  BY <1>1, <1>2, <1>3, <1>4 DEF Sane
<1>6. CASE b.ref > 1
  <2>1. k = Unref(s, p)
    BY <1>3, <1>6 DEF PbufFree
  <2>2. PICK x, hd : x = [b EXCEPT !.ref = @ - 1] /\ hd = With(s.held, p, s.held[p] - 1)
    OBVIOUS
  <2>3. x = [pay |-> b.pay, len |-> b.len, tot |-> b.tot, ref |-> b.ref - 1, next |-> b.next,
             out |-> b.out]
    BY <1>5, <2>2 DEF Pbufs
  <2>4. k = [s EXCEPT !.pbuf = With(s.pbuf, p, x), !.held = hd]
    BY <1>3, <2>1, <2>2 DEF Unref
  <2>5. k = [m |-> s.m, pool |-> s.pool, pbuf |-> With(s.pbuf, p, x), held |-> hd]
    BY <1>2, <2>4
  <2>6. hd = [q \in DOMAIN s.pbuf |-> IF q = p THEN b.ref - 1 ELSE s.held[q]]
    BY <1>1, <1>2, <1>5, <2>2 DEF With
  <2>7. With(s.pbuf, p, x) = [q \in DOMAIN s.pbuf |-> IF q = p THEN x ELSE s.pbuf[q]]
    BY <1>1 DEF With
  <2>8. k = Edit(s, p, s.m, b.pay, b.len, b.tot, b.ref - 1)
    BY <1>3, <2>3, <2>5, <2>6, <2>7 DEF Edit
  <2>9. b.ref - 1 \in Nat \ {0} /\ b.pay \in Int /\ b.len \in Int /\ b.tot \in Int
        /\ b.tot - s.pbuf[p].tot = b.len - s.pbuf[p].len
    BY <1>3, <1>5, <1>6 DEF Pbufs
  <2>10. /\ p > 0 => p + PbufHdr <= b.pay
         /\ p > 0 /\ p % Align = 0 => b.pay + b.len <= s.m.heap[p - Hdr].next
    BY <1>4 DEF Sane
  <2>11. PICK pay, len, tot, ref, m :
           pay = b.pay /\ len = b.len /\ tot = b.tot /\ ref = b.ref - 1 /\ m = s.m
    OBVIOUS
  <2>12. /\ pay \in Int /\ len \in Int /\ tot \in Int /\ ref \in Nat \ {0}
         /\ tot - s.pbuf[p].tot = len - s.pbuf[p].len /\ k = Edit(s, p, m, pay, len, tot, ref)
         /\ GoodMem(m) /\ RamOK(m.heap, DOMAIN s.pbuf) /\ (p > 0 => p + PbufHdr <= pay)
         /\ (p > 0 /\ p % Align = 0 => pay + len <= m.heap[p - Hdr].next)
    BY <1>4, <2>8, <2>9, <2>10, <2>11
  <2>13. \A q \in DOMAIN s.pbuf \ {p} : q > 0 => m.heap[q - Hdr].next = s.m.heap[q - Hdr].next
    BY <2>11
  <2> QED BY <2>12, <2>13, EditWhole
<1>7. CASE ~(b.ref > 1)
  <2>1. PICK ch, r : /\ Owned(s.pbuf, HeadsOf(s), ch) /\ Summed(s.pbuf, r)
                     /\ \A h \in HeadsOf(s) : s.pbuf[h].tot = r[h]
    BY DEF Whole
  <2>2. PICK c : c = ch[p]
    OBVIOUS
  <2>3. Chain(s.pbuf, p) = c
    BY <1>2, <2>1, <2>2, ChainIs
  <2>4. c \in Seq(DOMAIN s.pbuf) /\ Len(c) \in Nat
    <3>1. Chained(s.pbuf, c)
      BY <2>1, <2>2 DEF Owned
    <3> QED BY <3>1 DEF Chained
  <2>5. \A i, j \in 1 .. Len(c) : c[i] = c[j] => i = j
    BY <2>1, <2>2 DEF Owned
  <2>6. PICK f : f = CHOOSE g : Steps(s, c, Len(c), g)
    OBVIOUS
  <2>7. Steps(s, c, Len(c), f)
    BY <2>4, <2>6, StepsExist
  <2>8. k = f[Len(c)]
    BY <1>3, <1>7, <2>3, <2>6 DEF PbufFree, Steps
  <2>9. Len(c) \in 0 .. Len(c)
    BY <2>4
  <2>10. Cleared(s, k, Firsts(c, Len(c)))
    BY <1>1, <2>4, <2>5, <2>7, <2>8, <2>9, StepsFacts
  <2>11. PICK R : R = Firsts(c, Len(c))
    OBVIOUS
  <2>12. R = {ch[p][i] : i \in 1 .. Len(ch[p])}
    BY <2>2, <2>11 DEF Firsts
  <2>13. Cleared(s, k, R)
    BY <2>10, <2>11
  <2> QED BY ONLY Whole(s), p \in HeadsOf(s), <2>1, <2>12, <2>13, ClearedWhole
<1> QED BY <1>6, <1>7

-----------------------------------------------------------------------------
MemInv ==
  /\ Loose(State)
  /\ fault # "offset past the data" => Whole(State)
  /\ fault = "header overwritten" => \E a \in DOMAIN heap : a % Align # 0

LEMMA PutState ==
  ASSUME NEW s, Loose(s), Put(s)
  PROVE  State' = s
<1>1. /\ s = [m |-> s.m, pool |-> s.pool, pbuf |-> s.pbuf, held |-> s.held]
      /\ s.m = [heap |-> s.m.heap, lfree |-> s.m.lfree]
  BY DEF Loose, LooseBase, GoodMem
<1>2. State' = [m |-> [heap |-> heap', lfree |-> lfree'], pool |-> pool', pbuf |-> pbuf', held |-> held']
  BY DEF State, Mem
<1>3. heap' = s.m.heap /\ lfree' = s.m.lfree /\ pool' = s.pool /\ pbuf' = s.pbuf /\ held' = s.held
  BY DEF Put
<1>4. [heap |-> heap', lfree |-> lfree'] = s.m
  BY <1>1, <1>3
<1> QED BY <1>1, <1>2, <1>3, <1>4

LEMMA PutKeeps ==
  ASSUME NEW s, Whole(s), Put(s), fault' # "header overwritten"
  PROVE  MemInv'
BY WholeLoose, PutState DEF MemInv

LEMMA FillFacts ==
  ASSUME NEW s, Whole(s), NEW p \in DOMAIN s.pbuf, p > 0, Fill(s, p), fault = "none"
  PROVE  MemInv'
<1>1. Put(s) /\ fault' = IF PayloadEnd(s, p) > BlockEnd(s, p) THEN "header overwritten" ELSE fault
  BY DEF Fill
<1>2. State' = s /\ Loose(s)
  BY <1>1, WholeLoose, PutState
<1>3. Base(s)
  BY DEF Whole
<1>4. ASSUME PayloadEnd(s, p) > BlockEnd(s, p) PROVE \E a \in DOMAIN heap' : a % Align # 0
  <2>1. p \in Int /\ p - Hdr = HeaderOf(p) /\ p - Hdr \in DOMAIN s.m.heap \ {MemSize}
        /\ p - Hdr \in Int
    BY <1>3, RamBlock
  <2>2. Sane(p, s.pbuf[p], s.held[p], s.m.heap[p - Hdr].next)
    BY <1>3 DEF Base
  <2>3. s.pbuf[p].pay \in Int /\ s.pbuf[p].len \in Int /\ s.m.heap[p - Hdr].next \in Int
    <3>1. s.pbuf[p] \in Pbufs /\ Linked(s.m.heap)
      BY <1>3 DEF Base, GoodMem
    <3> QED BY <2>1, <3>1, NextFacts DEF Pbufs
  <2>4. p % Align # 0
    BY <1>4, <2>1, <2>2, <2>3 DEF Sane, PayloadEnd, BlockEnd
  <2>5. (p - Hdr) % Align # 0
    <3>1. PICK a : a = p - Hdr
      OBVIOUS
    <3>2. a \in Int /\ Hdr \in Int /\ Hdr % Align = 0
      BY <2>1, <3>1, Consts
    <3>3. a % Align = 0 => (a + Hdr) % Align = 0
      BY ONLY <3>2, AlignSum, Zenon
    <3>4. a + Hdr = p
      BY <2>1, <3>1, <3>2
    <3> QED BY <2>4, <3>1, <3>3, <3>4
  <2>6. heap' = s.m.heap
    BY <1>1 DEF Put
  <2> QED BY <2>1, <2>5, <2>6
<1>5. fault' = "header overwritten" => PayloadEnd(s, p) > BlockEnd(s, p)
  BY <1>1
<1> QED BY <1>2, <1>4, <1>5 DEF MemInv

LEMMA HeadsState ==
  HeadsOf(State) = Heads /\ State.pbuf = pbuf /\ State.pool = pool /\ State.held = held
BY DEF HeadsOf, State, Heads

(* The end of tcp_enqueue *)
LEMMA EnqueueFacts ==
  ASSUME NEW s, Whole(s), NEW p \in HeadsOf(s), p > 0, NEW last, last = Null \/ last \in HeadsOf(s),
         last # p, NEW k, k = Enqueue(s, p, last)
  PROVE  Whole(k) /\ DOMAIN k.pbuf = DOMAIN s.pbuf
<1>1. PICK t : t = PbufHeader(s, p, TcpHlen)
  OBVIOUS
<1>2. TcpHlen \in Int /\ -TcpHlen \in Int
  BY Consts
<1>3. Whole(t) /\ HeadsOf(t) = HeadsOf(s) /\ DOMAIN t.pbuf = DOMAIN s.pbuf
  BY <1>1, <1>2, HeaderFacts
<1>4. CASE last = Null
  <2>1. k = t
    BY <1>1, <1>4 DEF Enqueue
  <2> QED BY <1>3, <2>1
<1>5. CASE last # Null
  <2>1. PICK u : u = PbufHeader(t, p, -TcpHlen)
    OBVIOUS
  <2>2. p \in HeadsOf(t)
    BY <1>3
  <2>3. Whole(u) /\ HeadsOf(u) = HeadsOf(t) /\ DOMAIN u.pbuf = DOMAIN t.pbuf
    BY <1>2, <1>3, <2>1, <2>2, HeaderFacts
  <2>4. k = PbufChain(u, last, p)
    BY <1>1, <1>5, <2>1 DEF Enqueue
  <2>5. last \in HeadsOf(u) /\ p \in HeadsOf(u)
    BY <1>3, <1>5, <2>3
  <2>6. Whole(k) /\ DOMAIN k.pbuf = DOMAIN u.pbuf
    BY <2>3, <2>4, <2>5, ChainFacts
  <2> QED BY <1>3, <2>3, <2>6
<1> QED BY <1>4, <1>5

LEMMA NotOutInRam ==
  ASSUME Whole(State), NEW p \in Received
  PROVE  p \in HeadsOf(State) /\ p > 0 /\ p \in Int
<1>1. p \in Heads /\ ~pbuf[p].out
  BY DEF Received, Segments
<1>2. p \in HeadsOf(State) /\ p \in DOMAIN pbuf
  BY <1>1, HeadsState DEF Heads
<1>3. p \in DOMAIN State.pbuf /\ State.pbuf = pbuf /\ Base(State)
  BY <1>2, HeadsState DEF Whole
<1>4. p \in Int \ {0} /\ Sane(p, State.pbuf[p], State.held[p], State.m.heap[p - Hdr].next)
  BY <1>3 DEF Base
<1>5. ~(p < 0)
  BY <1>1, <1>3, <1>4 DEF Sane
<1> QED BY <1>2, <1>4, <1>5

LEMMA InputStep ==
  ASSUME MemInv, fault = "none", NEW n \in Sizes, SrTransportInput(n)
  PROVE  MemInv'
<1>1. PICK a : a = RamAt(State, n, 0)
  OBVIOUS
<1>2. Whole(State) /\ n \in Nat
  BY Consts DEF MemInv
<1>3. CASE a = MemSize
  <2>1. UNCHANGED <<heap, lfree, pool, pbuf, held>> /\ fault' = "NULL pbuf"
    BY <1>1, <1>3 DEF SrTransportInput
  <2>2. State' = State
    BY <2>1 DEF State, Mem
  <2> QED BY <1>2, <2>1, <2>2 DEF MemInv
<1>4. CASE a # MemSize
  <2>1. PICK k, p : k = PbufAllocRam(State, a, n, 0) /\ p = a + Hdr
    OBVIOUS
  <2>2. Fill(k, p)
    BY <1>1, <1>4, <2>1 DEF SrTransportInput
  <2>3. Added(State, k, p) /\ p > 0
    BY <1>1, <1>2, <1>4, <2>1, AllocRamFacts
  <2>4. Whole(k) /\ p \in DOMAIN k.pbuf
    BY <2>3 DEF Added
  <2> QED BY <2>2, <2>3, <2>4, FillFacts
<1> QED BY <1>3, <1>4

LEMMA CopyStep ==
  ASSUME MemInv, fault = "none", NEW n \in Sizes, NEW last \in {Null} \cup Segments,
         TcpEnqueueCopy(n, last)
  PROVE  MemInv'
<1>1. PICK a : a = RamAt(State, n, Room)
  OBVIOUS
<1>2. Whole(State) /\ n \in Nat /\ Room \in {0, Room}
  BY Consts DEF MemInv
<1>3. PICK k, p : k = PbufAllocRam(State, a, n, Room) /\ p = a + Hdr
  OBVIOUS
<1>4. PICK u : u = Enqueue(k, p, last)
  OBVIOUS
<1>5. a # MemSize /\ Fill(u, p)
  BY <1>1, <1>3, <1>4 DEF TcpEnqueueCopy
<1>6. Added(State, k, p) /\ p > 0 /\ p \notin DOMAIN State.pbuf
  BY <1>1, <1>2, <1>3, <1>5, AllocRamFacts
<1>7. Whole(k) /\ HeadsOf(k) = HeadsOf(State) \cup {p} /\ p \in DOMAIN k.pbuf
  BY <1>6 DEF Added
<1>8. last = Null \/ (last \in HeadsOf(State) /\ last \in DOMAIN State.pbuf)
  BY HeadsState DEF Segments, Heads
<1>9. last = Null \/ last \in HeadsOf(k)
  BY <1>7, <1>8
<1>10. last # p
  BY <1>6, <1>8 DEF Null
<1>11. Whole(u) /\ DOMAIN u.pbuf = DOMAIN k.pbuf
  BY <1>4, <1>6, <1>7, <1>9, <1>10, EnqueueFacts
<1> QED BY <1>5, <1>6, <1>7, <1>11, FillFacts

LEMMA RefStep ==
  ASSUME MemInv, fault = "none", NEW n \in Sizes, NEW last \in {Null} \cup Segments,
         TcpEnqueueRef(n, last)
  PROVE  MemInv'
<1>1. PICK r, q, a : r = PbufAllocRom(State, n) /\ q = Head(pool) /\ a = RamAt(r, 0, Room)
  OBVIOUS
<1>2. Whole(State) /\ n \in Nat /\ 0 \in Nat /\ Room \in {0, Room} /\ State.pool # << >>
      /\ q = Head(State.pool)
  BY <1>1, Consts, HeadsState DEF MemInv, TcpEnqueueRef
<1>3. Added(State, r, q) /\ q \in Int /\ q < 0 /\ q \notin DOMAIN State.pbuf
  BY <1>1, <1>2, AllocRomFacts
<1>4. Whole(r) /\ HeadsOf(r) = HeadsOf(State) \cup {q} /\ DOMAIN r.pbuf = DOMAIN State.pbuf \cup {q}
  BY <1>3 DEF Added
<1>5. CASE a = MemSize
  <2>1. Put(PbufFree(r, q)) /\ UNCHANGED fault
    BY <1>1, <1>5 DEF TcpEnqueueRef
  <2>2. PICK k : k = PbufFree(r, q)
    OBVIOUS
  <2>3. Whole(k)
    BY <1>4, <2>2, FreeWhole
  <2> QED BY <2>1, <2>2, <2>3, PutKeeps
<1>6. CASE a # MemSize
  <2>1. PICK k, p : k = PbufAllocRam(r, a, 0, Room) /\ p = a + Hdr
    OBVIOUS
  <2>2. PICK s, u : s = PbufChain(k, p, q) /\ u = Enqueue(s, p, last)
    OBVIOUS
  <2>3. Fill(u, p)
    BY <1>1, <1>6, <2>1, <2>2 DEF TcpEnqueueRef
  <2>4. Added(r, k, p) /\ p > 0 /\ p \notin DOMAIN r.pbuf
    BY <1>1, <1>2, <1>4, <1>6, <2>1, AllocRamFacts
  <2>5. Whole(k) /\ HeadsOf(k) = HeadsOf(r) \cup {p} /\ DOMAIN k.pbuf = DOMAIN r.pbuf \cup {p}
    BY <2>4 DEF Added
  <2>6. p # q /\ p \in HeadsOf(k) /\ q \in HeadsOf(k)
    BY <1>4, <2>4, <2>5
  <2>7. Whole(s) /\ HeadsOf(s) = HeadsOf(k) \ {q} /\ DOMAIN s.pbuf = DOMAIN k.pbuf
    BY <2>2, <2>5, <2>6, ChainFacts
  <2>8. last = Null \/ (last \in HeadsOf(State) /\ last \in DOMAIN State.pbuf)
    BY HeadsState DEF Segments, Heads
  <2>9. last # q /\ last # p
    BY <1>3, <1>4, <2>4, <2>8 DEF Null
  <2>10. last = Null \/ last \in HeadsOf(s)
    BY <1>4, <2>5, <2>7, <2>8, <2>9
  <2>11. p \in HeadsOf(s) /\ p \in DOMAIN s.pbuf
    BY <2>5, <2>6, <2>7
  <2>12. Whole(u) /\ DOMAIN u.pbuf = DOMAIN s.pbuf
    BY <2>2, <2>4, <2>7, <2>9, <2>10, <2>11, EnqueueFacts
  <2> QED BY <2>3, <2>4, <2>11, <2>12, FillFacts
<1> QED BY <1>5, <1>6

LEMMA StripStep ==
  ASSUME MemInv, fault = "none", NEW p \in Received, NEW n \in Sizes, TcpStrip(p, n)
  PROVE  MemInv'
<1>1. Whole(State) /\ -n \in Int
  BY Consts DEF MemInv
<1>2. PICK k : k = PbufHeader(State, p, -n)
  OBVIOUS
<1>3. Put(k) /\ UNCHANGED fault
  BY <1>2 DEF TcpStrip
<1>4. p \in HeadsOf(State) /\ p > 0
  BY <1>1, NotOutInRam
<1>5. Whole(k)
  BY <1>1, <1>2, <1>4, HeaderFacts
<1> QED BY <1>3, <1>5, PutKeeps

(* tcp_input's strip, also past the end of what was received *)
LEMMA HeaderStep ==
  ASSUME MemInv, fault = "none", NEW p \in Received, NEW n \in Sizes, TcpStripHeader(p, n)
  PROVE  MemInv'
<1>1. Whole(State) /\ -n \in Int /\ LenMod \in Int
  BY Consts, LwipMemAssumption DEF MemInv
<1>2. PICK s : s = PbufHeader(State, p, -n)
  OBVIOUS
<1>3. p \in HeadsOf(State) /\ p > 0
  BY <1>1, NotOutInRam
<1>4. Whole(s) /\ HeadsOf(s) = HeadsOf(State)
  BY <1>1, <1>2, <1>3, HeaderFacts
<1>5. CASE n <= pbuf[p].len
  <2>1. Put(s) /\ fault' = fault
    BY <1>2, <1>5 DEF TcpStripHeader
  <2> QED BY <1>4, <2>1, PutKeeps
<1>6. CASE ~(n <= pbuf[p].len)
  <2>1. PICK k, b, x : /\ k = Wrapped(s, p) /\ b = s.pbuf[p]
                       /\ x = [b EXCEPT !.len = @ + LenMod, !.tot = @ + LenMod]
    OBVIOUS
  <2>2. Put(k) /\ fault' = "offset past the data"
    BY <1>2, <1>6, <2>1 DEF TcpStripHeader
  <2>3. Base(s) /\ p \in DOMAIN s.pbuf /\ s.held[p] > 0 /\ p \in HeadsOf(s)
    BY <1>3, <1>4 DEF Whole, HeadsOf
  <2>4. /\ s = [m |-> s.m, pool |-> s.pool, pbuf |-> s.pbuf, held |-> s.held]
        /\ s.pbuf \in [DOMAIN s.pbuf -> Pbufs] /\ s.held \in [DOMAIN s.pbuf -> Nat]
        /\ GoodMem(s.m) /\ RamOK(s.m.heap, DOMAIN s.pbuf)
        /\ Sane(p, b, s.held[p], s.m.heap[p - Hdr].next)
    BY <2>1, <2>3 DEF Base
  <2>5. b \in Pbufs /\ b.ref = s.held[p] /\ b.ref \in Nat \ {0}
    BY <2>1, <2>3, <2>4 DEF Sane
  <2>6. x = [pay |-> b.pay, len |-> b.len + LenMod, tot |-> b.tot + LenMod, ref |-> b.ref,
             next |-> b.next, out |-> b.out]
    BY <2>1, <2>5 DEF Pbufs
  <2>7. k = [m |-> s.m, pool |-> s.pool, pbuf |-> With(s.pbuf, p, x), held |-> s.held]
    <3>1. k = [s EXCEPT !.pbuf = With(s.pbuf, p, x)]
      BY <2>1 DEF Wrapped
    <3> QED BY <2>4, <3>1
  <2>8. s.held = [q \in DOMAIN s.pbuf |-> IF q = p THEN b.ref ELSE s.held[q]]
    BY <2>3, <2>4, <2>5
  <2>9. k = Edit(s, p, s.m, b.pay, b.len + LenMod, b.tot + LenMod, b.ref)
    <3>1. With(s.pbuf, p, x) = [q \in DOMAIN s.pbuf |-> IF q = p THEN x ELSE s.pbuf[q]]
      BY <2>3 DEF With
    <3> QED BY <2>1, <2>6, <2>7, <2>8, <3>1 DEF Edit
  <2>10. b.pay \in Int /\ b.len + LenMod \in Int /\ b.tot + LenMod \in Int
         /\ (b.tot + LenMod) - b.tot = (b.len + LenMod) - b.len
    BY <1>1, <2>5 DEF Pbufs
  <2>11. Loose(k)
    BY <1>4, <2>1, <2>3, <2>4, <2>5, <2>9, <2>10, EditLoose
  <2>12. State' = k
    BY <2>2, <2>11, PutState
  <2> QED BY <2>2, <2>11, <2>12 DEF MemInv
<1> QED BY <1>5, <1>6

LEMMA TrimStep ==
  ASSUME MemInv, fault = "none", NEW p \in Received, NEW n \in Sizes, TcpTrim(p, n)
  PROVE  MemInv'
<1>1. Whole(State) /\ n \in Nat
  BY Consts DEF MemInv
<1>2. PICK k : k = PbufRealloc(State, p, n)
  OBVIOUS
<1>3. Put(k) /\ UNCHANGED fault /\ State.pbuf[p].next = Null
  BY <1>2, HeadsState DEF TcpTrim, Alone
<1>4. p \in HeadsOf(State) /\ p > 0
  BY <1>1, NotOutInRam
<1>5. Whole(k)
  BY <1>1, <1>2, <1>3, <1>4, TrimFacts
<1> QED BY <1>3, <1>5, PutKeeps

LEMMA ShareStep ==
  ASSUME MemInv, fault = "none", NEW p \in Received, PbufRef(p)
  PROVE  MemInv'
<1>1. Whole(State)
  BY DEF MemInv
<1>2. p \in HeadsOf(State) /\ p > 0
  BY <1>1, NotOutInRam
<1>3. Base(State) /\ p \in DOMAIN pbuf /\ held[p] > 0 /\ State.m = Mem
  BY <1>1, <1>2, HeadsState DEF Whole, Heads, State
<1>4. /\ pbuf \in [DOMAIN pbuf -> Pbufs] /\ held \in [DOMAIN pbuf -> Nat]
      /\ GoodMem(Mem) /\ RamOK(Mem.heap, DOMAIN pbuf)
      /\ Sane(p, pbuf[p], held[p], Mem.heap[p - Hdr].next)
  BY <1>3, HeadsState DEF Base
<1>5. PICK b, x : b = pbuf[p] /\ x = [b EXCEPT !.ref = @ + 1]
  OBVIOUS
<1>6. b \in Pbufs /\ b.ref = held[p] /\ b.ref \in Nat
  BY <1>3, <1>4, <1>5 DEF Sane
<1>7. x = [pay |-> b.pay, len |-> b.len, tot |-> b.tot, ref |-> b.ref + 1, next |-> b.next,
           out |-> b.out]
  BY <1>5, <1>6 DEF Pbufs
<1>8. pbuf' = [q \in DOMAIN pbuf |-> IF q = p THEN x ELSE pbuf[q]]
  BY <1>3, <1>4, <1>5 DEF PbufRef
<1>9. held' = [q \in DOMAIN pbuf |-> IF q = p THEN b.ref + 1 ELSE held[q]]
  BY <1>3, <1>4, <1>6 DEF PbufRef
<1>10. Mem' = Mem /\ pool' = pool /\ fault' = fault
  BY DEF PbufRef, Mem
<1>11. State' = Edit(State, p, Mem, b.pay, b.len, b.tot, b.ref + 1)
  BY <1>5, <1>7, <1>8, <1>9, <1>10, HeadsState DEF Edit, State
<1>12. b.ref + 1 \in Nat \ {0} /\ b.pay \in Int /\ b.len \in Int /\ b.tot \in Int
       /\ b.tot - State.pbuf[p].tot = b.len - State.pbuf[p].len
  BY <1>5, <1>6, HeadsState DEF Pbufs
<1>13. /\ p > 0 => p + PbufHdr <= b.pay
       /\ p > 0 /\ p % Align = 0 => b.pay + b.len <= Mem.heap[p - Hdr].next
  BY <1>4, <1>5 DEF Sane
<1>14. RamOK(Mem.heap, DOMAIN State.pbuf)
  BY <1>4, HeadsState
<1>15. PICK m, k : m = Mem /\ k = Edit(State, p, m, b.pay, b.len, b.tot, b.ref + 1)
  OBVIOUS
<1>16. \A q \in DOMAIN State.pbuf \ {p} : q > 0 => m.heap[q - Hdr].next = State.m.heap[q - Hdr].next
  BY <1>3, <1>15
<1>17. Whole(k)
  BY <1>1, <1>2, <1>4, <1>12, <1>13, <1>14, <1>15, <1>16, EditWhole
<1>18. Loose(k)
  BY <1>17, WholeLoose
<1> QED BY <1>10, <1>11, <1>15, <1>17, <1>18 DEF MemInv

LEMMA RecvStep ==
  ASSUME MemInv, fault = "none", NEW h \in Received, NEW t \in Received, TcpRecvData(h, t)
  PROVE  MemInv'
<1>1. Whole(State)
  BY DEF MemInv
<1>2. PICK k : k = PbufChain(State, h, t)
  OBVIOUS
<1>3. Put(k) /\ UNCHANGED fault /\ h # t
  BY <1>2 DEF TcpRecvData
<1>4. h \in HeadsOf(State) /\ t \in HeadsOf(State)
  BY <1>1, NotOutInRam
<1>5. Whole(k)
  BY <1>1, <1>2, <1>3, <1>4, ChainFacts
<1> QED BY <1>3, <1>5, PutKeeps

LEMMA FreeStep ==
  ASSUME MemInv, fault = "none", NEW p \in Heads, Free(p)
  PROVE  MemInv'
<1>1. Whole(State) /\ p \in HeadsOf(State)
  BY HeadsState DEF MemInv
<1>2. PICK k : k = PbufFree(State, p)
  OBVIOUS
<1>3. Put(k) /\ UNCHANGED fault
  BY <1>2 DEF Free
<1>4. Whole(k)
  BY <1>1, <1>2, FreeWhole
<1> QED BY <1>3, <1>4, PutKeeps

-----------------------------------------------------------------------------
(* mem_init and memp_init: one free block, and every header in the pool. *)
LEMMA InitWhole ==
  ASSUME MemInit
  PROVE  MemInv
<1>1. /\ heap = [a \in {0, MemSize} |-> [next |-> MemSize, prev |-> a, used |-> a # 0]]
      /\ lfree = 0 /\ pool = [k \in 1 .. NumPbuf |-> -k] /\ pbuf = << >> /\ held = << >>
      /\ fault = "none"
  BY DEF MemInit
<1>2. MemSize \in Nat \ {0} /\ NumPbuf \in Nat /\ Hdr \in Nat
  BY Consts
<1>3. /\ DOMAIN heap = {0, MemSize} /\ heap[0] = [next |-> MemSize, prev |-> 0, used |-> FALSE]
      /\ heap[MemSize] = [next |-> MemSize, prev |-> MemSize, used |-> TRUE]
  BY <1>1, <1>2
<1>4. Linked(heap)
  <2>1. heap \in [DOMAIN heap -> Blocks]
    BY <1>1, <1>2 DEF Blocks
  <2> QED BY <1>2, <1>3, <2>1 DEF Linked
<1>5. Apart(heap)
  BY <1>2, <1>3 DEF Apart
<1>6. GoodMem(Mem)
  BY <1>1, <1>3, <1>4, <1>5 DEF GoodMem, Mem, FreeAt
<1>7. DOMAIN pbuf = {} /\ pbuf \in [DOMAIN pbuf -> Pbufs] /\ held \in [DOMAIN pbuf -> Nat]
  BY <1>1
<1>8. PoolOK(pool, DOMAIN pbuf)
  <2>1. pool \in Seq(Int) /\ Len(pool) = NumPbuf
    BY <1>1, <1>2
  <2>2. \A i \in 1 .. Len(pool) : pool[i] = -i
    BY <1>1, <2>1
  <2>3. \A x \in -NumPbuf .. -1 : -x \in 1 .. Len(pool) /\ pool[-x] = x
    BY <1>2, <2>1, <2>2
  <2> QED BY <1>2, <1>7, <2>1, <2>2, <2>3 DEF PoolOK
<1>9. RamOK(heap, DOMAIN pbuf)
  BY <1>2, <1>3, <1>7 DEF RamOK
<1>10. State = [m |-> State.m, pool |-> State.pool, pbuf |-> State.pbuf, held |-> State.held]
       /\ State.m = Mem /\ State.m.heap = heap
  BY DEF State, Mem
<1>11. Base(State)
  BY <1>6, <1>7, <1>8, <1>9, <1>10, HeadsState DEF Base
<1>12. HeadsOf(State) = {}
  BY <1>7, HeadsState DEF Heads
<1>13. Owned(State.pbuf, HeadsOf(State), << >>) /\ Summed(State.pbuf, << >>)
  BY <1>1, <1>7, <1>12, HeadsState DEF Owned, Summed
<1>14. Whole(State)
  BY <1>11, <1>12, <1>13 DEF Whole
<1>15. Loose(State)
  BY <1>14, WholeLoose
<1> QED BY <1>1, <1>14, <1>15 DEF MemInv

(* MemInv is inductive. *)
LEMMA StepWhole ==
  ASSUME MemInv, [MemNext]_MemVars
  PROVE  MemInv'
<1>1. ASSUME fault = "none", NEW n \in Sizes, SrTransportInput(n) PROVE MemInv'
  BY <1>1, InputStep
<1>2. ASSUME fault = "none", NEW n \in Sizes, NEW last \in {Null} \cup Segments,
             TcpEnqueueCopy(n, last) \/ TcpEnqueueRef(n, last)
      PROVE  MemInv'
  BY <1>2, CopyStep, RefStep
<1>3. ASSUME fault = "none", NEW p \in Received, NEW n \in Sizes,
             TcpStripHeader(p, n) \/ TcpStrip(p, n) \/ TcpTrim(p, n)
      PROVE  MemInv'
  BY <1>3, HeaderStep, StripStep, TrimStep
<1>4. ASSUME fault = "none", NEW p \in Received, PbufRef(p) PROVE MemInv'
  BY <1>4, ShareStep
<1>5. ASSUME fault = "none", NEW p \in Received, NEW t \in Received, TcpRecvData(p, t) PROVE MemInv'
  BY <1>5, RecvStep
<1>6. ASSUME fault = "none", NEW p \in Heads, Free(p) PROVE MemInv'
  BY <1>6, FreeStep
<1>7. ASSUME UNCHANGED MemVars PROVE MemInv'
  <2>1. State' = State /\ fault' = fault /\ heap' = heap
    BY <1>7 DEF MemVars, State, Mem
  <2> QED BY <2>1 DEF MemInv
<1>8. CASE MemNext
  BY <1>1, <1>2, <1>3, <1>4, <1>5, <1>6, <1>8 DEF MemNext
<1> QED BY <1>7, <1>8

(* Under every sequence of the calls tcp_input, tcp_receive, tcp_enqueue and
   the glue make of mem.c, memp.c and pbuf.c: the heap is a list of blocks
   whose free ones do not touch, its blocks in use are the pbufs in RAM, the
   pool has the headers that are not out, and the pbufs are the disjoint
   chains of the heads the stack holds, each with the length of what is
   behind it. *)
THEOREM MemInvariant == MemSpec => []MemInv
<1>1. MemInit => MemInv
  BY InitWhole
<1>2. MemInv /\ [MemNext]_MemVars => MemInv'
  BY StepWhole
<1> QED BY <1>1, <1>2, PTL DEF MemSpec

LEMMA InvHeap ==
  ASSUME MemInv
  PROVE  HeapSound
<1>1. Linked(heap) /\ Apart(heap) /\ lfree \in DOMAIN heap /\ ~heap[lfree].used
  BY DEF MemInv, Loose, LooseBase, GoodMem, FreeAt, State, Mem
<1>2. ASSUME NEW a \in DOMAIN heap \ {MemSize}
      PROVE  /\ heap[a].next > a /\ heap[a].next \in DOMAIN heap
             /\ \A b \in DOMAIN heap : b <= a \/ b >= heap[a].next
             /\ heap[a].next # MemSize => heap[heap[a].next].prev = a
                                          /\ (heap[a].used \/ heap[heap[a].next].used)
  <2>1. PICK n : n = heap[a].next
    OBVIOUS
  <2>2. a \in Int /\ n \in Int /\ n \in DOMAIN heap /\ a < n
        /\ (\A b \in DOMAIN heap : b <= a \/ b >= n) /\ (n # MemSize => heap[n].prev = a)
    BY <1>1, <2>1, NextFacts
  <2>3. n # MemSize => heap[a].used \/ heap[n].used
    BY <1>1, <2>1 DEF Apart
  <2>4. n > a
    BY <2>2
  <2> QED BY <2>1, <2>2, <2>3, <2>4
<1> QED BY <1>1, <1>2 DEF HeapSound

(* Whatever is allocated, trimmed and freed in whatever order, the headers
   of mem.c's heap lead from the first byte to ram_end and back, no two free
   blocks touch after plug_holes, and lfree is a free block. *)
THEOREM HeapStaysSound == MemSpec => []HeapSound
BY MemInvariant, InvHeap, PTL

LEMMA InvFit ==
  ASSUME MemInv
  PROVE  BuffersFit
<1>1. /\ LooseBase(State) /\ State.m.heap = heap
      /\ fault # "offset past the data" => Base(State)
  BY DEF MemInv, Loose, Whole, State, Mem
<1>2. DOMAIN pbuf \subseteq Int \ {0} /\ RamOK(heap, DOMAIN pbuf) /\ Linked(heap)
  BY <1>1, HeadsState DEF LooseBase, GoodMem
<1>3. fault # "offset past the data" =>
        \A p \in DOMAIN pbuf : Sane(p, pbuf[p], held[p], heap[p - Hdr].next)
  BY <1>1, HeadsState DEF Base
<1>4. Hdr \in Int /\ DOMAIN heap \subseteq Int
  BY <1>2, Consts DEF Linked
<1>5. {HeaderOf(p) : p \in {q \in DOMAIN pbuf : InRam(q)}} = {a \in DOMAIN heap \ {MemSize} : heap[a].used}
  <2>1. ASSUME NEW p \in DOMAIN pbuf, InRam(p)
        PROVE  HeaderOf(p) \in DOMAIN heap \ {MemSize} /\ heap[HeaderOf(p)].used
    <3>1. p \in Int /\ HeaderOf(p) \in Int /\ HeaderOf(p) + Hdr = p
      BY <1>2, <1>4 DEF HeaderOf
    <3> QED BY <1>2, <2>1, <3>1 DEF RamOK, InRam
  <2>2. ASSUME NEW a \in DOMAIN heap \ {MemSize}, heap[a].used
        PROVE  a + Hdr \in DOMAIN pbuf /\ InRam(a + Hdr) /\ HeaderOf(a + Hdr) = a
    <3>1. a \in Int /\ HeaderOf(a + Hdr) = a
      BY <1>4 DEF HeaderOf
    <3> QED BY <1>2, <2>2, <3>1 DEF RamOK, InRam
  <2> QED BY <2>1, <2>2
<1>6. ASSUME NEW p \in DOMAIN pbuf, InRam(p), p % Align = 0, fault # "offset past the data"
      PROVE  p + PbufHdr <= pbuf[p].pay /\ PayloadEnd(State, p) <= BlockEnd(State, p)
  <2>1. PayloadEnd(State, p) = pbuf[p].pay + pbuf[p].len /\ BlockEnd(State, p) = heap[p - Hdr].next
    BY <1>1, HeadsState DEF PayloadEnd, BlockEnd, HeaderOf
  <2>2. Sane(p, pbuf[p], held[p], heap[p - Hdr].next)
    BY <1>3, <1>6
  <2> QED BY <1>6, <2>1, <2>2 DEF Sane, InRam
<1>7. fault = "header overwritten" => \E a \in DOMAIN heap : a % Align # 0
  BY DEF MemInv
<1> QED BY <1>5, <1>6, <1>7 DEF BuffersFit

(* The blocks in use are the pbufs in RAM, one each, and a pbuf in a block
   that starts aligned has what pbuf_header, pbuf_realloc and the copies into
   it touch inside that block: a header is overwritten only after mem_realloc
   cut the heap at a length that is not aligned.  Only the header of a segment
   that says it is longer than the segment (tcp_input) leads out of it. *)
THEOREM BuffersAlwaysFit == MemSpec => []BuffersFit
BY MemInvariant, InvFit, PTL

LEMMA InvOwned ==
  ASSUME MemInv
  PROVE  ChainsOwned
<1>1. LooseBase(State) /\ HeadsOf(State) = Heads
  BY HeadsState DEF MemInv, Loose
<1>2. PICK ch, r : /\ Owned(pbuf, Heads, ch) /\ Summed(pbuf, r)
                   /\ \A h \in Heads : pbuf[h].tot = r[h]
  BY <1>1, HeadsState DEF MemInv, Loose
<1>3. /\ DOMAIN pbuf \subseteq Int \ {0} /\ held \in [DOMAIN pbuf -> Nat] /\ PoolOK(pool, DOMAIN pbuf)
      /\ \A p \in DOMAIN pbuf : held[p] > 0 => pbuf[p].ref = held[p]
  BY <1>1, HeadsState DEF LooseBase
<1>4. DOMAIN held = DOMAIN pbuf /\ \A p \in Heads : pbuf[p].ref = held[p]
  BY <1>3 DEF Heads
<1>5. \A h \in Heads : /\ Chain(pbuf, h) = ch[h] /\ ch[h] \in Seq(DOMAIN pbuf)
                       /\ Range(Chain(pbuf, h)) = {ch[h][i] : i \in 1 .. Len(ch[h])}
  <2> TAKE h \in Heads
  <2>1. 0 \notin DOMAIN pbuf
    BY <1>3
  <2>2. Chain(pbuf, h) = ch[h]
    BY <1>2, <2>1, ChainIs
  <2>3. ch[h] \in Seq(DOMAIN pbuf)
    BY <1>2 DEF Owned, Chained
  <2>4. DOMAIN ch[h] = 1 .. Len(ch[h])
    BY <2>3
  <2> QED BY <2>2, <2>3, <2>4 DEF Range
<1>6. ASSUME NEW p \in DOMAIN pbuf
      PROVE  Cardinality({h \in Heads : p \in Range(Chain(pbuf, h))}) = 1
  <2>1. PICK h \in Heads : \E i \in 1 .. Len(ch[h]) : ch[h][i] = p
    BY <1>2 DEF Owned
  <2>2. p \in Range(Chain(pbuf, h))
    BY <1>5, <2>1
  <2>3. ASSUME NEW g \in Heads, p \in Range(Chain(pbuf, g)) PROVE g = h
    <3>1. PICK j \in 1 .. Len(ch[g]) : ch[g][j] = p
      BY <1>5, <2>3
    <3>2. PICK i \in 1 .. Len(ch[h]) : ch[h][i] = p
      BY <2>1
    <3> QED BY <1>2, <3>1, <3>2 DEF Owned
  <2>4. {g \in Heads : p \in Range(Chain(pbuf, g))} = {h}
    BY <2>1, <2>2, <2>3
  <2> QED BY <2>4, FS_Singleton
<1>7. {-k : k \in 1 .. NumPbuf} \ Range(pool) = {p \in DOMAIN pbuf : ~InRam(p)}
  <2>1. NumPbuf \in Nat /\ pool \in Seq(Int) /\ Range(pool) = {pool[i] : i \in 1 .. Len(pool)}
    BY <1>3, Consts DEF PoolOK, Range
  <2>2. {-k : k \in 1 .. NumPbuf} = -NumPbuf .. -1
    <3>1. ASSUME NEW x \in -NumPbuf .. -1 PROVE x \in {-k : k \in 1 .. NumPbuf}
      <4>1. -x \in 1 .. NumPbuf /\ x = -(-x)
        BY <2>1
      <4> QED BY <4>1
    <3>2. ASSUME NEW k \in 1 .. NumPbuf PROVE -k \in -NumPbuf .. -1
      BY <2>1
    <3> QED BY <3>1, <3>2
  <2>3. ASSUME NEW x \in -NumPbuf .. -1, x \notin Range(pool) PROVE x \in DOMAIN pbuf /\ ~InRam(x)
    BY <1>3, <2>1, <2>3 DEF PoolOK, InRam
  <2>4. ASSUME NEW x \in DOMAIN pbuf, ~InRam(x) PROVE x \in -NumPbuf .. -1 /\ x \notin Range(pool)
    <3>1. x \in Int /\ x < 0
      BY <1>3, <2>4 DEF InRam
    <3>2. x >= -NumPbuf
      BY <1>3, <3>1 DEF PoolOK
    <3>3. \A i \in 1 .. Len(pool) : pool[i] # x
      BY <1>3 DEF PoolOK
    <3> QED BY <2>1, <3>1, <3>2, <3>3
  <2> QED BY <2>2, <2>3, <2>4
<1>8. \A h \in Heads : pbuf[h].tot = Bytes(pbuf, h)
  <2> TAKE h \in Heads
  <2>1. Bytes(pbuf, h) = r[h]
    BY <1>2, BytesIs
  <2> QED BY <1>2, <2>1
<1> QED BY <1>4, <1>6, <1>7, <1>8 DEF ChainsOwned

(* Every pbuf is in exactly one of the chains the stack holds and its head's
   reference count is what the stack holds of it, tot_len is the length of
   the chain, and the pool has every other header: pbuf_free, pbuf_chain and
   the path of tcp_enqueue without memory leak nothing and free nothing twice. *)
THEOREM ChainsStayOwned == MemSpec => []ChainsOwned
BY MemInvariant, InvOwned, PTL

-----------------------------------------------------------------------------
(***************************************************************************)
(* SconeArp                                                                *)
(***************************************************************************)
(* How the control states of the two threads tie up with the lock and with *)
(* the queue entry each of them works on.                                  *)
Control ==
  /\ holder = "rx" <=> rx.pc = "drain"
  /\ holder = "arp" <=> arp.pc = "pass"
  /\ rx.pc # "idle" => rx.hop \in Hops
  /\ rx.pc = "drain" => queue[rx.hop] # None
  /\ arp.hop # None => arp.pc = "pass" /\ queue[arp.hop] # None
  /\ arp.pc = "pass" => \A h \in arp.todo : queue[h] # None /\ h # arp.hop

(* The ICMP error about a packet exists only once the packet is freed. *)
ErrAfterData ==
  \A i \in Ids : fate[<<i, TRUE>>] # "none" => fate[<<i, FALSE>>] = "freed"

IInv == TypeOK /\ Control /\ QueueOwnsPackets /\ ErrAfterData

USE SconeArpAssumption

Queues == [Hops -> QueueEntry \cup {None}]

(* The first packet of an entry that has one, and what is left. *)
LEMMA HeadOf ==
  ASSUME NEW q \in Queues, NEW h \in Hops, q[h] # None, Places(q, h) # {}
  PROVE  /\ q[h] \in QueueEntry
         /\ q[h].pkts \in Seq(Packets)
         /\ Len(q[h].pkts) \in Nat \ {0}
         /\ q[h].pkts # << >>
         /\ Head(q[h].pkts) \in Packets
         /\ Head(q[h].pkts) = q[h].pkts[1]
         /\ Tail(q[h].pkts) \in Seq(Packets)
  <1>1. q[h] \in QueueEntry
    BY DEF Queues
  <1>2. q[h].pkts \in Seq(Packets) /\ q[h].pkts # << >>
    BY <1>1 DEF QueueEntry, Places
  <1>3. QED
    BY <1>1, <1>2

LEMMA HwImageType ==
  ASSUME NEW c \in [Hops -> CacheEntry \cup {None}], NEW f \in HwImages(c)
  PROVE  f \in [Hops -> Macs \cup {None}]
  <1>1. \A h \in Hops : c[h] # None => c[h].mac \in Macs
    BY DEF CacheEntry
  <1>2. PICK s \in SUBSET {h \in Hops : c[h] # None} :
          f = [h \in Hops |-> IF h \in s THEN c[h].mac ELSE None]
    BY DEF HwImages
  <1>3. QED
    BY <1>1, <1>2

(* Eviction keeps the types. *)
LEMMA EvictType ==
  ASSUME TypeOK, NEW gone \in SUBSET Hops, Evict(gone)
  PROVE  /\ cache' \in [Hops -> CacheEntry \cup {None}]
         /\ hw' \in [Hops -> Macs \cup {None}]
  <1>1. cache' \in [Hops -> CacheEntry \cup {None}]
    BY DEF Evict, TypeOK
  <1>2. QED
    BY <1>1, HwImageType DEF Evict, TypeOK

LEMMA UpdateType ==
  ASSUME TypeOK, NEW h \in Hops, NEW m \in Macs, NEW b \in BOOLEAN,
         UpdateArpCache(h, m, b)
  PROVE  /\ cache' \in [Hops -> CacheEntry \cup {None}]
         /\ hw' \in [Hops -> Macs \cup {None}]
  <1>1. [mac |-> m, static |-> b, age |-> 0] \in CacheEntry
    BY DEF CacheEntry, Ages
  <1>2. cache' \in [Hops -> CacheEntry \cup {None}]
    BY <1>1 DEF UpdateArpCache, TypeOK
  <1>3. QED
    BY <1>2, HwImageType DEF UpdateArpCache

(* Entries stay entries when their list of packets changes. *)
LEMMA WithPktsType ==
  ASSUME NEW e \in QueueEntry, NEW s \in Seq(Packets)
  PROVE  /\ WithPkts(e, s) \in QueueEntry
         /\ WithPkts(e, s).pkts = s
         /\ WithPkts(e, s) # None
  BY DEF WithPkts, QueueEntry

(* What arp_queue_add does to the entry of the hop, and to the others. *)
LEMMA AddEntry ==
  ASSUME NEW q \in Queues, NEW p \in Packets, NEW h \in Hops
  PROVE  /\ ArpQueueAdd(q, p, h) \in Queues
         /\ ArpQueueAdd(q, p, h)[h] # None
         /\ ArpQueueAdd(q, p, h)[h].pkts =
              IF q[h] = None THEN <<p>> ELSE Append(q[h].pkts, p)
         /\ \A g \in Hops : g # h => ArpQueueAdd(q, p, h)[g] = q[g]
  <1> DEFINE fresh == [pkts |-> <<p>>, reqs |-> 1, age |-> 0]
             longer == WithPkts(q[h], Append(q[h].pkts, p))
  <1>1. fresh \in QueueEntry /\ fresh.pkts = <<p>> /\ fresh # None
    <2>1. <<p>> \in Seq(Packets) /\ 1 \in 1 .. MaxRequests /\ 0 \in Ages
      BY DEF Ages
    <2>2. fresh \in QueueEntry
      BY <2>1 DEF QueueEntry
    <2>3. QED
      BY <2>2
  <1>2. q[h] # None => /\ longer \in QueueEntry /\ longer # None
                       /\ longer.pkts = Append(q[h].pkts, p)
    <2> SUFFICES ASSUME q[h] # None
                 PROVE  /\ longer \in QueueEntry /\ longer # None
                        /\ longer.pkts = Append(q[h].pkts, p)
      OBVIOUS
    <2>1. q[h] \in QueueEntry
      BY DEF Queues
    <2>2. Append(q[h].pkts, p) \in Seq(Packets)
      BY <2>1 DEF QueueEntry
    <2>3. QED
      BY <2>1, <2>2, WithPktsType
  <1>3. ArpQueueAdd(q, p, h) = [q EXCEPT ![h] = IF q[h] = None THEN fresh ELSE longer]
    BY DEF ArpQueueAdd
  <1> HIDE DEF fresh, longer
  <1>4. QED
    BY <1>1, <1>2, <1>3 DEF Queues

(* What removing the head does to the entry of the hop, and to the others. *)
LEMMA DropEntry ==
  ASSUME NEW q \in Queues, NEW h \in Hops, q[h] # None, Places(q, h) # {}
  PROVE  /\ DropHead(q, h) \in Queues
         /\ DropHead(q, h)[h] = None <=> Tail(q[h].pkts) = << >>
         /\ DropHead(q, h)[h] # None =>
              DropHead(q, h)[h].pkts = Tail(q[h].pkts)
         /\ \A g \in Hops : g # h => DropHead(q, h)[g] = q[g]
  <1> DEFINE rest == Tail(q[h].pkts)
             shorter == WithPkts(q[h], rest)
  <1>1. q[h] \in QueueEntry /\ rest \in Seq(Packets)
    BY HeadOf
  <1>2. shorter \in QueueEntry /\ shorter.pkts = rest /\ shorter # None
    BY <1>1, WithPktsType
  <1>3. DropHead(q, h) = [q EXCEPT ![h] = IF rest = << >> THEN None ELSE shorter]
    BY DEF DropHead
  <1> HIDE DEF shorter, rest
  <1>4. QED
    BY <1>2, <1>3 DEF Queues, rest

(* The queue GiveUpPacket takes the head from: the ICMP error it sends may *)
(* have been added to it, even to the entry that is given up.              *)
LEMMA GrownEntry ==
  ASSUME NEW q \in Queues, NEW h \in Hops, NEW b \in Hops \cup {None},
         NEW c \in BOOLEAN, q[h] # None, Places(q, h) # {}, c => b # None
  PROVE  LET p == Head(q[h].pkts)
             r == IF c THEN ArpQueueAdd(q, ErrOf(p), b) ELSE q
         IN  /\ p \in Packets /\ ErrOf(p) \in Packets
             /\ r \in Queues /\ r[h] # None /\ Places(r, h) # {}
             /\ Head(r[h].pkts) = p
  <1> DEFINE p == Head(q[h].pkts)
             r == ArpQueueAdd(q, ErrOf(p), b)
  <1>1. p \in Packets /\ q[h].pkts \in Seq(Packets) /\ q[h].pkts # << >>
    BY HeadOf
  <1>2. ErrOf(p) \in Packets
    BY <1>1 DEF Packets, ErrOf
  <1>3. ASSUME c
        PROVE  r \in Queues /\ r[h] # None /\ Places(r, h) # {} /\ Head(r[h].pkts) = p
    <2>1. b \in Hops
      BY <1>3
    <2>2. /\ r \in Queues
          /\ r[b] # None
          /\ r[b].pkts = IF q[b] = None THEN <<ErrOf(p)>> ELSE Append(q[b].pkts, ErrOf(p))
          /\ \A g \in Hops : g # b => r[g] = q[g]
      <3> HIDE DEF p
      <3>1. QED
        BY <1>2, <2>1, AddEntry
    <2> HIDE DEF r, p
    <2>3. r[h] # None /\ (r[h].pkts = q[h].pkts \/ r[h].pkts = Append(q[h].pkts, ErrOf(p)))
      BY <2>1, <2>2
    <2>4. r[h].pkts # << >> /\ DOMAIN r[h].pkts # {} /\ Head(r[h].pkts) = p
      BY <1>1, <1>2, <2>3 DEF p
    <2>5. QED
      BY <2>2, <2>3, <2>4 DEF Places
  <1>4. QED
    BY <1>1, <1>2, <1>3

(* The places of an entry are the indices of its list. *)
LEMMA PlacesOf ==
  ASSUME NEW q \in Queues, NEW h \in Hops
  PROVE  /\ q[h] = None => Places(q, h) = {}
         /\ q[h] # None => /\ q[h].pkts \in Seq(Packets)
                           /\ Places(q, h) = 1 .. Len(q[h].pkts)
  <1>1. q[h] # None => q[h].pkts \in Seq(Packets)
    BY DEF Queues, QueueEntry
  <1>2. QED
    BY <1>1 DEF Places

(* arp_queue_add opens one new place, for the packet it is given. *)
LEMMA AddPlaces ==
  ASSUME NEW q \in Queues, NEW p \in Packets, NEW h \in Hops
  PROVE  \E n \in Nat :
           LET r == ArpQueueAdd(q, p, h)
           IN  /\ n \notin Places(q, h)
               /\ Places(r, h) = Places(q, h) \cup {n}
               /\ r[h].pkts[n] = p
               /\ \A k \in Places(q, h) : r[h].pkts[k] = q[h].pkts[k]
               /\ \A g \in Hops : g # h => Places(r, g) = Places(q, g) /\ r[g] = q[g]
  <1> DEFINE r == ArpQueueAdd(q, p, h)
  <1>1. /\ r \in Queues
        /\ r[h] # None
        /\ r[h].pkts = IF q[h] = None THEN <<p>> ELSE Append(q[h].pkts, p)
        /\ \A g \in Hops : g # h => r[g] = q[g]
    BY AddEntry
  <1> HIDE DEF r
  <1>2. \A g \in Hops : g # h => Places(r, g) = Places(q, g) /\ r[g] = q[g]
    BY <1>1 DEF Places
  <1>3. CASE q[h] = None
    <2>1. Places(r, h) = {1} /\ Places(q, h) = {} /\ r[h].pkts[1] = p
      BY <1>1, <1>3 DEF Places
    <2>2. QED
      BY <1>2, <2>1 DEF r
  <1>4. CASE q[h] # None
    <2> DEFINE n == Len(q[h].pkts) + 1
    <2>1. q[h].pkts \in Seq(Packets) /\ Places(q, h) = 1 .. Len(q[h].pkts)
      BY <1>4, PlacesOf
    <2>2. Places(r, h) = 1 .. Len(r[h].pkts) /\ r[h].pkts = Append(q[h].pkts, p)
      BY <1>1, <1>4, PlacesOf
    <2>3. /\ n \in Nat /\ n \notin Places(q, h)
          /\ Places(r, h) = Places(q, h) \cup {n}
          /\ r[h].pkts[n] = p
          /\ \A k \in Places(q, h) : r[h].pkts[k] = q[h].pkts[k]
      BY <2>1, <2>2
    <2>4. QED
      BY <1>2, <2>3 DEF r
  <1>5. QED
    BY <1>3, <1>4

(* Ownership survives arp_queue_add of a packet that was not queued. *)
LEMMA AddOwns ==
  ASSUME NEW q \in Queues, NEW f \in [Packets -> Fates], Owns(q, f),
         NEW p \in Packets, f[p] # "queued", NEW h \in Hops
  PROVE  Owns(ArpQueueAdd(q, p, h), [f EXCEPT ![p] = "queued"])
  <1> DEFINE r == ArpQueueAdd(q, p, h)
             e == [f EXCEPT ![p] = "queued"]
  <1>1. PICK n \in Nat :
          /\ n \notin Places(q, h)
          /\ Places(r, h) = Places(q, h) \cup {n}
          /\ r[h].pkts[n] = p
          /\ \A k \in Places(q, h) : r[h].pkts[k] = q[h].pkts[k]
          /\ \A g \in Hops : g # h => Places(r, g) = Places(q, g) /\ r[g] = q[g]
    BY AddPlaces
  <1>2. \A g \in Hops : \A k \in Places(q, g) : q[g].pkts[k] # p
    BY DEF Owns
  <1> HIDE DEF r
  <1>3. \A g \in Hops : \A k \in Places(q, g) :
          k \in Places(r, g) /\ r[g].pkts[k] = q[g].pkts[k]
    BY <1>1
  <1>4. \A g \in Hops : \A k \in Places(r, g) :
          (g = h /\ k = n) \/ k \in Places(q, g)
    BY <1>1
  <1>5. \A g \in Hops : r[g] # None => Places(r, g) # {}
    BY <1>1 DEF Owns
  <1>6. ASSUME NEW x \in Packets
        PROVE  e[x] = "queued" <=>
                 \E g \in Hops : \E k \in Places(r, g) : r[g].pkts[k] = x
    <2>1. CASE x = p
      BY <1>1, <2>1
    <2>2. CASE x # p
      <3>1. e[x] = f[x]
        BY <2>2
      <3>2. f[x] = "queued" <=>
              \E g \in Hops : \E k \in Places(q, g) : q[g].pkts[k] = x
        BY DEF Owns
      <3>3. QED
        BY <1>1, <1>3, <1>4, <2>2, <3>1, <3>2
    <2>3. QED
      BY <2>1, <2>2
  <1>7. ASSUME NEW g \in Hops, NEW i \in Hops,
               NEW j \in Places(r, g), NEW k \in Places(r, i),
               r[g].pkts[j] = r[i].pkts[k]
        PROVE  g = i /\ j = k
    <2>1. CASE j \in Places(q, g) /\ k \in Places(q, i)
      BY <1>3, <1>7, <2>1 DEF Owns
    <2>2. CASE ~(j \in Places(q, g) /\ k \in Places(q, i))
      BY <1>1, <1>2, <1>3, <1>4, <1>7, <2>2
    <2>3. QED
      BY <2>1, <2>2
  <1>8. QED
    BY <1>5, <1>6, <1>7 DEF Owns, r

(* Ownership survives the removal of the head of an entry, when the packet *)
(* is no longer queued.                                                    *)
LEMMA DropOwns ==
  ASSUME NEW q \in Queues, NEW f \in [Packets -> Fates], Owns(q, f),
         NEW h \in Hops, q[h] # None, NEW s \in Fates, s # "queued"
  PROVE  Owns(DropHead(q, h), [f EXCEPT ![Head(q[h].pkts)] = s])
  <1> DEFINE p == Head(q[h].pkts)
             r == DropHead(q, h)
             e == [f EXCEPT ![p] = s]
  <1>1. Places(q, h) # {}
    BY DEF Owns
  <1>2. /\ r \in Queues
        /\ r[h] = None <=> Tail(q[h].pkts) = << >>
        /\ r[h] # None => r[h].pkts = Tail(q[h].pkts)
        /\ \A g \in Hops : g # h => r[g] = q[g]
    BY <1>1, DropEntry
  <1>3. /\ p \in Packets /\ p = q[h].pkts[1]
        /\ q[h].pkts \in Seq(Packets) /\ Len(q[h].pkts) \in Nat \ {0}
        /\ Places(q, h) = 1 .. Len(q[h].pkts)
    BY <1>1, HeadOf, PlacesOf
  <1> HIDE DEF r, p
  <1>4. /\ Places(r, h) = 1 .. (Len(q[h].pkts) - 1)
        /\ \A k \in Places(r, h) : r[h].pkts[k] = q[h].pkts[k + 1]
    <2> DEFINE t == Tail(q[h].pkts)
    <2>1. /\ t \in Seq(Packets) /\ Len(t) = Len(q[h].pkts) - 1
          /\ \A k \in 1 .. Len(t) : t[k] = q[h].pkts[k + 1]
      BY <1>3
    <2>2. t = << >> => Len(t) = 0
      <3> HIDE DEF t
      <3>1. QED
        OBVIOUS
    <2>3. t # << >> => Places(r, h) = 1 .. Len(t)
      BY <1>2, <2>1, PlacesOf
    <2>4. t = << >> => Places(r, h) = {}
      BY <1>2 DEF Places
    <2> HIDE DEF t
    <2>5. CASE t = << >>
      <3>1. 1 .. (Len(q[h].pkts) - 1) = {}
        BY <1>3, <2>1, <2>2, <2>5
      <3>2. QED
        BY <2>4, <2>5, <3>1
    <2>6. CASE t # << >>
      <3>1. r[h].pkts = t
        BY <1>2, <2>6 DEF t
      <3>2. QED
        BY <2>1, <2>3, <2>6, <3>1
    <2>7. QED
      BY <2>5, <2>6
  <1>5. \A g \in Hops : g # h => Places(r, g) = Places(q, g) /\ r[g] = q[g]
    BY <1>2 DEF Places
  <1>6. \A g \in Hops : r[g] # None => Places(r, g) # {}
    <2>1. r[h] # None => Places(r, h) # {}
      BY <1>2, <1>3, <1>4
    <2>2. QED
      BY <1>2, <1>5, <2>1 DEF Owns
  <1>7. \A g \in Hops : \A k \in Places(q, g) :
          q[g].pkts[k] = p => g = h /\ k = 1
    BY <1>3 DEF Owns
  <1>8. ASSUME NEW x \in Packets
        PROVE  e[x] = "queued" <=>
                 \E g \in Hops : \E k \in Places(r, g) : r[g].pkts[k] = x
    <2>1. CASE x = p
      <3>1. e[x] # "queued"
        BY <2>1, <1>3
      <3>2. \A g \in Hops : \A k \in Places(r, g) : r[g].pkts[k] # p
        <4> TAKE g \in Hops
        <4> TAKE k \in Places(r, g)
        <4>1. CASE g = h
          <5>1. k + 1 \in Places(q, h) /\ r[h].pkts[k] = q[h].pkts[k + 1] /\ k + 1 # 1
            BY <1>3, <1>4, <4>1
          <5>2. QED
            BY <1>7, <4>1, <5>1
        <4>2. CASE g # h
          BY <1>5, <1>7, <4>2
        <4>3. QED
          BY <4>1, <4>2
      <3>3. QED
        BY <2>1, <3>1, <3>2
    <2>2. CASE x # p
      <3>1. e[x] = f[x]
        BY <2>2
      <3>2. f[x] = "queued" <=>
              \E g \in Hops : \E k \in Places(q, g) : q[g].pkts[k] = x
        BY DEF Owns
      <3>3. ASSUME NEW g \in Hops, NEW k \in Places(q, g), q[g].pkts[k] = x
            PROVE  \E j \in Places(r, g) : r[g].pkts[j] = x
        <4>1. CASE g = h
          <5>1. k - 1 \in Places(r, h)
            BY <1>3, <1>4, <2>2, <3>3, <4>1
          <5>2. r[h].pkts[k - 1] = x
            BY <1>3, <1>4, <3>3, <4>1, <5>1
          <5>3. QED
            BY <4>1, <5>1, <5>2
        <4>2. CASE g # h
          BY <1>5, <3>3, <4>2
        <4>3. QED
          BY <4>1, <4>2
      <3>4. ASSUME NEW g \in Hops, NEW k \in Places(r, g), r[g].pkts[k] = x
            PROVE  \E j \in Places(q, g) : q[g].pkts[j] = x
        <4>1. CASE g = h
          <5>1. k + 1 \in Places(q, h) /\ q[h].pkts[k + 1] = x
            BY <1>3, <1>4, <3>4, <4>1
          <5>2. QED
            BY <4>1, <5>1
        <4>2. CASE g # h
          BY <1>5, <3>4, <4>2
        <4>3. QED
          BY <4>1, <4>2
      <3>5. QED
        BY <3>1, <3>2, <3>3, <3>4
    <2>3. QED
      BY <2>1, <2>2
  <1>9. ASSUME NEW g \in Hops, NEW i \in Hops,
               NEW j \in Places(r, g), NEW k \in Places(r, i),
               r[g].pkts[j] = r[i].pkts[k]
        PROVE  g = i /\ j = k
    <2> DEFINE m == IF g = h THEN j + 1 ELSE j
               n == IF i = h THEN k + 1 ELSE k
    <2>1. m \in Places(q, g) /\ r[g].pkts[j] = q[g].pkts[m]
      <3>1. CASE g = h
        BY <1>3, <1>4, <3>1
      <3>2. CASE g # h
        BY <1>5, <3>2
      <3>3. QED
        BY <3>1, <3>2
    <2>2. n \in Places(q, i) /\ r[i].pkts[k] = q[i].pkts[n]
      <3>1. CASE i = h
        BY <1>3, <1>4, <3>1
      <3>2. CASE i # h
        BY <1>5, <3>2
      <3>3. QED
        BY <3>1, <3>2
    <2> HIDE DEF m, n
    <2>3. g = i /\ m = n
      <3>1. q[g].pkts[m] = q[i].pkts[n]
        BY <1>9, <2>1, <2>2
      <3>2. QED
        BY <2>1, <2>2, <3>1 DEF Owns
    <2>4. CASE g = h
      <3>1. j \in Int /\ k \in Int
        BY <1>4, <2>3, <2>4
      <3>2. QED
        BY <2>3, <2>4, <3>1 DEF m, n
    <2>5. CASE g # h
      BY <2>3, <2>5 DEF m, n
    <2>6. QED
      BY <2>4, <2>5
  <1>10. QED
    BY <1>6, <1>8, <1>9 DEF Owns, r, p

LEMMA TypeStep ==
  ASSUME IInv, [Next]_vars
  PROVE  TypeOK'
  <1> USE DEF IInv
  <1>1. ASSUME NEW i \in Ids, NEW h \in Hops, SendIp(i, h)
        PROVE  TypeOK'
    <2>1. Data(i) \in Packets
      BY DEF Data, Packets
    <2>2. queue' \in [Hops -> QueueEntry \cup {None}]
      <3>1. queue \in Queues
        BY DEF TypeOK, Queues
      <3>2. ArpQueueAdd(queue, Data(i), h) \in Queues
        BY <2>1, <3>1, AddEntry
      <3>3. QED
        BY <1>1, <3>1, <3>2 DEF SendIp, Queues
    <2>3. fate' \in [Packets -> Fates]
      BY <1>1 DEF SendIp, TypeOK, Fates
    <2>4. QED
      BY <1>1, <2>2, <2>3 DEF SendIp, TypeOK
  <1>2. ASSUME NEW h \in Hops, NEW m \in Macs, ProcessArpReply(h, m)
        PROVE  TypeOK'
    <2>1. rx' \in RxStates
      BY <1>2 DEF ProcessArpReply, RxStates
    <2>2. QED
      BY <1>2, <2>1, UpdateType DEF ProcessArpReply, TypeOK
  <1>3. CASE SendQueuedPackets
    BY <1>3 DEF SendQueuedPackets, TypeOK, RxStates
  <1>4. CASE DrainPacket
    <2> DEFINE h == rx.hop
               p == Head(queue[h].pkts)
    <2>1. h \in Hops /\ queue[h] # None /\ queue \in Queues /\ Places(queue, h) # {}
      BY <1>4 DEF DrainPacket, Control, TypeOK, Queues, QueueOwnsPackets, Owns
    <2>2. p \in Packets
      BY <2>1, HeadOf
    <2>3. DropHead(queue, h) \in Queues
      BY <2>1, DropEntry
    <2>4. queue' \in Queues
      <3>1. ArpQueueAdd(DropHead(queue, h), p, h) \in Queues
        BY <2>1, <2>2, <2>3, AddEntry
      <3>2. QED
        BY <1>4, <2>3, <3>1 DEF DrainPacket
    <2>5. fate' \in [Packets -> Fates]
      BY <1>4 DEF DrainPacket, TypeOK, Fates
    <2>6. rx' \in RxStates /\ holder' \in {"none", "rx", "arp"}
      BY <1>4 DEF DrainPacket, TypeOK, RxStates
    <2>7. QED
      BY <1>4, <2>4, <2>5, <2>6 DEF DrainPacket, TypeOK, Queues
  <1>5. CASE ExpireArpCache
    <2>1. arp' \in ArpStates
      BY <1>5 DEF ExpireArpCache, TypeOK, ArpStates
    <2>2. QED
      BY <1>5, <2>1, EvictType DEF ExpireArpCache, TypeOK
  <1>6. CASE PassBegin
    BY <1>6 DEF PassBegin, TypeOK, ArpStates
  <1>7. ASSUME NEW h \in Hops, VisitEntry(h)
        PROVE  TypeOK'
    <2>1. queue[h] \in QueueEntry
      BY <1>7 DEF VisitEntry, Control, TypeOK
    <2>2. arp' \in ArpStates
      BY <1>7 DEF VisitEntry, TypeOK, ArpStates
    <2> DEFINE asked == [pkts |-> queue[h].pkts, reqs |-> queue[h].reqs + 1,
                         age |-> 0]
    <2>3. queue' = queue \/ (~Exhausted(queue[h])
                              /\ queue' = [queue EXCEPT ![h] = asked])
      BY <1>7 DEF VisitEntry
    <2>4. ~Exhausted(queue[h]) => asked \in QueueEntry
      BY <2>1 DEF QueueEntry, Ages, Exhausted
    <2> HIDE DEF asked
    <2>5. queue' \in [Hops -> QueueEntry \cup {None}]
      BY <2>3, <2>4 DEF TypeOK
    <2>6. QED
      BY <1>7, <2>2, <2>5 DEF VisitEntry, TypeOK
  <1>8. ASSUME NEW b \in Hops \cup {None}, GiveUpPacket(b)
        PROVE  TypeOK'
    <2> DEFINE h == arp.hop
               p == Head(queue[h].pkts)
               queues == ~p[2] /\ p[1] \in Errable /\ b # None /\ cache[b] = None
               q == IF queues THEN ArpQueueAdd(queue, ErrOf(p), b) ELSE queue
    <2>1. h \in Hops /\ queue[h] # None /\ queue \in Queues /\ Places(queue, h) # {}
      BY <1>8 DEF GiveUpPacket, Control, TypeOK, ArpStates, Queues,
                  QueueOwnsPackets, Owns
    <2>2. q \in Queues /\ q[h] # None /\ Places(q, h) # {}
      BY <2>1, GrownEntry
    <2>3. DropHead(q, h) \in Queues
      BY <2>1, <2>2, DropEntry
    <2>4. queue' \in Queues
      BY <1>8, <2>3 DEF GiveUpPacket
    <2>5. fate' \in [Packets -> Fates]
      BY <1>8 DEF GiveUpPacket, TypeOK, Fates
    <2>6. arp' \in ArpStates
      BY <1>8 DEF GiveUpPacket, TypeOK, ArpStates
    <2>7. QED
      BY <1>8, <2>4, <2>5, <2>6 DEF GiveUpPacket, TypeOK, Queues
  <1>9. CASE PassEnd
    BY <1>9 DEF PassEnd, TypeOK, ArpStates
  <1>10. CASE Tick
    <2>1. \A a \in Ages : Older(a) \in Ages
      BY DEF Older, Ages
    <2>2. cache' \in [Hops -> CacheEntry \cup {None}]
      BY <1>10, <2>1 DEF Tick, TypeOK, CacheEntry
    <2>3. queue' \in [Hops -> QueueEntry \cup {None}]
      BY <1>10, <2>1 DEF Tick, TypeOK, QueueEntry
    <2>4. arp' \in ArpStates
      BY <1>10 DEF Tick, TypeOK, ArpStates
    <2>5. QED
      BY <1>10, <2>2, <2>3, <2>4 DEF Tick, TypeOK
  <1>11. ASSUME NEW h \in Hops, NEW m \in Macs, CliArpAdd(h, m)
         PROVE  TypeOK'
    BY <1>11, UpdateType DEF CliArpAdd, TypeOK
  <1>12. ASSUME NEW h \in Hops, CliArpDel(h)
         PROVE  TypeOK'
    BY <1>12, EvictType DEF CliArpDel, TypeOK
  <1>13. CASE CliNukeArpCache
    <2>1. cache' \in [Hops -> CacheEntry \cup {None}]
      BY <1>13 DEF CliNukeArpCache
    <2>2. QED
      BY <1>13, <2>1, HwImageType DEF CliNukeArpCache, TypeOK
  <1>14. ASSUME NEW t \in TtlValues, CliSetTtl(t)
         PROVE  TypeOK'
    BY <1>14 DEF CliSetTtl, TypeOK
  <1>15. CASE UNCHANGED vars
    BY <1>15 DEF vars, TypeOK
  <1>16. QED
    BY <1>1, <1>2, <1>3, <1>4, <1>5, <1>6, <1>7, <1>8, <1>9, <1>10, <1>11,
       <1>12, <1>13, <1>14, <1>15 DEF Next, RxStep, ArpThread, Cli

LEMMA ControlStep ==
  ASSUME IInv, [Next]_vars
  PROVE  Control'
  <1> USE DEF IInv, Control
  <1>1. ASSUME NEW i \in Ids, NEW h \in Hops, SendIp(i, h)
        PROVE  Control'
    <2>1. \A g \in Hops : queue[g] # None => queue'[g] # None
      <3>1. queue \in Queues /\ Data(i) \in Packets
        BY DEF TypeOK, Queues, Data, Packets
      <3>2. ArpQueueAdd(queue, Data(i), h)[h] # None
            /\ \A g \in Hops : g # h => ArpQueueAdd(queue, Data(i), h)[g] = queue[g]
        <4> HIDE DEF IInv, Control
        <4>1. QED
          BY <3>1, AddEntry
      <3>3. QED
        BY <1>1, <3>2 DEF SendIp
    <2>2. QED
      BY <1>1, <2>1 DEF SendIp, TypeOK, RxStates, ArpStates
  <1>2. ASSUME NEW h \in Hops, NEW m \in Macs, ProcessArpReply(h, m)
        PROVE  Control'
    BY <1>2 DEF ProcessArpReply, UpdateArpCache, TypeOK, RxStates
  <1>3. CASE SendQueuedPackets
    BY <1>3 DEF SendQueuedPackets, TypeOK, RxStates
  <1>4. CASE DrainPacket
    <2> DEFINE h == rx.hop
               p == Head(queue[h].pkts)
               d == DropHead(queue, h)
    <2>1. h \in Hops /\ queue[h] # None /\ queue \in Queues /\ Places(queue, h) # {}
      BY <1>4 DEF DrainPacket, TypeOK, Queues, QueueOwnsPackets, Owns
    <2>2. p \in Packets
      BY <2>1, HeadOf
    <2>3. d \in Queues /\ (d[h] = None <=> Tail(queue[h].pkts) = << >>)
      BY <2>1, DropEntry
    <2>4. ArpQueueAdd(d, p, h)[h] # None
      <3>1. h \in Hops /\ d \in Queues
        BY <2>1, <2>3
      <3> HIDE DEF d, p, h, IInv
      <3>2. QED
        BY <2>2, <3>1, AddEntry
    <2>5. Tail(queue[h].pkts) # << >> => queue'[h] # None
      BY <1>4, <2>3, <2>4 DEF DrainPacket
    <2>6. QED
      BY <1>4, <2>1, <2>5 DEF DrainPacket, TypeOK, RxStates, ArpStates
  <1>5. CASE ExpireArpCache
    BY <1>5 DEF ExpireArpCache, TypeOK, ArpStates
  <1>6. CASE PassBegin
    BY <1>6 DEF PassBegin, TypeOK, ArpStates
  <1>7. ASSUME NEW h \in Hops, VisitEntry(h)
        PROVE  Control'
    <2>1. arp \in ArpStates /\ queue[h] # None /\ arp.pc = "pass" /\ arp.hop = None
      BY <1>7 DEF VisitEntry, TypeOK
    <2>2. queue' \in Queues
      BY TypeStep DEF TypeOK, Queues
    <2>3. \A g \in Hops : queue[g] # None => queue'[g] # None
      <3> DEFINE asked == [pkts |-> queue[h].pkts, reqs |-> queue[h].reqs + 1,
                           age |-> 0]
      <3>1. queue[h] \in QueueEntry
        BY <2>1 DEF TypeOK
      <3>2. ~Exhausted(queue[h]) => asked \in QueueEntry
        BY <3>1 DEF QueueEntry, Ages, Exhausted
      <3>3. queue' = queue \/ (~Exhausted(queue[h])
                                /\ queue' = [queue EXCEPT ![h] = asked])
        BY <1>7 DEF VisitEntry
      <3> HIDE DEF asked
      <3>4. QED
        BY <3>2, <3>3 DEF TypeOK
    <2>4. /\ arp'.pc = "pass" /\ arp'.todo = arp.todo \ {h}
          /\ arp'.hop \in {None, h}
      BY <1>7, <2>1 DEF VisitEntry, ArpStates
    <2>5. arp.todo \subseteq Hops
      BY <2>1 DEF ArpStates
    <2>6. rx' = rx /\ holder' = holder
      BY <1>7 DEF VisitEntry
    <2>7. QED
      BY <2>1, <2>3, <2>4, <2>5, <2>6
  <1>8. ASSUME NEW b \in Hops \cup {None}, GiveUpPacket(b)
        PROVE  Control'
    <2> DEFINE h == arp.hop
               p == Head(queue[h].pkts)
               queues == ~p[2] /\ p[1] \in Errable /\ b # None /\ cache[b] = None
               q == IF queues THEN ArpQueueAdd(queue, ErrOf(p), b) ELSE queue
    <2>1. h \in Hops /\ queue[h] # None /\ queue \in Queues /\ Places(queue, h) # {}
      BY <1>8 DEF GiveUpPacket, TypeOK, ArpStates, Queues, QueueOwnsPackets, Owns
    <2>2. q \in Queues /\ q[h] # None /\ Places(q, h) # {}
      BY <2>1, GrownEntry
    <2>3. ErrOf(p) \in Packets
      <3>1. p \in Packets
        BY <2>1, HeadOf
      <3>2. QED
        BY <3>1 DEF Packets, ErrOf
    <2>4. \A g \in Hops : queue[g] # None => q[g] # None
      <3>1. CASE queues
        <4>1. b \in Hops
          BY <3>1
        <4>2. ArpQueueAdd(queue, ErrOf(p), b)[b] # None
              /\ \A g \in Hops : g # b => ArpQueueAdd(queue, ErrOf(p), b)[g] = queue[g]
          <5> HIDE DEF h, p, q, queues, IInv, Control
          <5>1. queue \in Queues
            BY <2>1
          <5>2. QED
            BY <2>3, <4>1, <5>1, AddEntry
        <4>3. QED
          BY <3>1, <4>2
      <3>2. CASE ~queues
        BY <3>2
      <3>3. QED
        BY <3>1, <3>2
    <2>5. queue' = DropHead(q, h)
      BY <1>8 DEF GiveUpPacket
    <2> HIDE DEF q
    <2>6. \A g \in Hops : g # h => queue'[g] = q[g]
      BY <2>1, <2>2, <2>5, DropEntry
    <2>7. \A g \in Hops : g # h /\ queue[g] # None => queue'[g] # None
      BY <2>4, <2>6
    <2>8. /\ arp \in ArpStates /\ arp.pc = "pass" /\ holder' = holder /\ rx' = rx
          /\ arp' = IF queue'[h] = None THEN [arp EXCEPT !.hop = None] ELSE arp
      BY <1>8 DEF GiveUpPacket, TypeOK
    <2>9. /\ arp'.pc = "pass" /\ arp'.todo = arp.todo
          /\ arp'.hop = IF queue'[h] = None THEN None ELSE h
      BY <2>8 DEF ArpStates
    <2>10. arp.todo \subseteq Hops
      BY <2>8 DEF ArpStates
    <2>11. QED
      BY <2>1, <2>7, <2>8, <2>9, <2>10
  <1>9. CASE PassEnd
    BY <1>9 DEF PassEnd, TypeOK, ArpStates
  <1>10. CASE Tick
    <2>1. \A h \in Hops : queue[h] # None => queue'[h] # None
      <3>1. queue' = [h \in Hops |-> IF queue[h] = None THEN None
                                     ELSE [queue[h] EXCEPT !.age = Older(@)]]
        BY <1>10 DEF Tick
      <3>2. \A a \in Ages : Older(a) \in Ages
        BY DEF Older, Ages
      <3>3. ASSUME NEW h \in Hops, queue[h] # None
            PROVE  [queue[h] EXCEPT !.age = Older(@)] \in QueueEntry
        BY <3>2, <3>3 DEF TypeOK, QueueEntry
      <3>4. QED
        BY <3>1, <3>3
    <2>2. arp \in ArpStates /\ rx' = rx /\ holder' = holder
      BY <1>10 DEF Tick, TypeOK
    <2>3. /\ arp'.hop = arp.hop /\ arp'.todo = arp.todo
          /\ arp.pc = "pass" <=> arp'.pc = "pass"
      BY <1>10, <2>2 DEF Tick, ArpStates
    <2>4. arp.todo \subseteq Hops
      BY <2>2 DEF ArpStates
    <2>5. rx.hop \in Hops \cup {None} /\ arp.hop \in Hops \cup {None}
      BY <2>2 DEF TypeOK, RxStates, ArpStates
    <2>6. QED
      BY <2>1, <2>2, <2>3, <2>4, <2>5
  <1>11. CASE Cli
    BY <1>11 DEF Cli, CliArpAdd, CliArpDel, CliNukeArpCache, CliSetTtl
  <1>12. CASE UNCHANGED vars
    BY <1>12 DEF vars
  <1>13. QED
    BY <1>1, <1>2, <1>3, <1>4, <1>5, <1>6, <1>7, <1>8, <1>9, <1>10, <1>11,
       <1>12 DEF Next, RxStep, ArpThread

(* An action that only evicts, updates or ages the cache, or changes       *)
(* control, leaves the places and the packets of the queue alone.          *)
LEMMA SameListsOwn ==
  ASSUME NEW q \in Queues, NEW r \in Queues, NEW f, Owns(q, f),
         \A h \in Hops : /\ q[h] = None <=> r[h] = None
                         /\ q[h] # None => r[h].pkts = q[h].pkts
  PROVE  Owns(r, f)
  <1>1. \A h \in Hops : Places(r, h) = Places(q, h)
    BY DEF Places
  <1>2. \A h \in Hops : \A k \in Places(q, h) : r[h].pkts[k] = q[h].pkts[k]
    BY DEF Places
  <1>3. QED
    BY <1>1, <1>2 DEF Owns

LEMMA OwnsStep ==
  ASSUME IInv, [Next]_vars
  PROVE  QueueOwnsPackets'
  <1> SUFFICES Owns(queue', fate')
    BY DEF QueueOwnsPackets, Owns, Places
  <1> USE DEF IInv
  <1>0. queue \in Queues /\ fate \in [Packets -> Fates] /\ Owns(queue, fate)
    BY DEF TypeOK, Queues, QueueOwnsPackets
  <1>1. ASSUME NEW i \in Ids, NEW h \in Hops, SendIp(i, h)
        PROVE  Owns(queue', fate')
    <2>1. Data(i) \in Packets /\ fate[Data(i)] # "queued"
      BY <1>1 DEF Data, Packets, SendIp
    <2>2. CASE cache[h] # None
      <3>1. queue' = queue /\ fate' = [fate EXCEPT ![Data(i)] = "sent"]
        BY <1>1, <2>2 DEF SendIp
      <3>2. \A x \in Packets : fate'[x] = "queued" <=> fate[x] = "queued"
        BY <1>0, <2>1, <3>1
      <3>3. QED
        BY <1>0, <3>1, <3>2 DEF Owns, Places
    <2>3. CASE cache[h] = None
      BY <1>0, <1>1, <2>1, <2>3, AddOwns DEF SendIp
    <2>4. QED
      BY <2>2, <2>3
  <1>2. CASE DrainPacket
    <2> DEFINE h == rx.hop
               p == Head(queue[h].pkts)
               d == DropHead(queue, h)
    <2>1. h \in Hops /\ queue[h] # None /\ Places(queue, h) # {}
      BY <1>0, <1>2 DEF DrainPacket, Control, Owns
    <2>2. p \in Packets /\ p = queue[h].pkts[1] /\ 1 \in Places(queue, h)
      <3>1. /\ p \in Packets /\ p = queue[h].pkts[1]
            /\ Len(queue[h].pkts) \in Nat \ {0}
        BY <1>0, <2>1, HeadOf
      <3>2. Places(queue, h) = 1 .. Len(queue[h].pkts)
        BY <1>0, <2>1, PlacesOf
      <3>3. QED
        BY <3>1, <3>2
    <2>3. \A s \in Fates : s # "queued" => Owns(d, [fate EXCEPT ![p] = s])
      BY <1>0, <2>1, DropOwns
    <2>4. CASE cache[h] # None \/ Tail(queue[h].pkts) = << >>
      <3>1. queue' = d
        BY <1>2, <2>4 DEF DrainPacket
      <3>2. \E s \in Fates : s # "queued" /\ fate' = [fate EXCEPT ![p] = s]
        BY <1>2, <2>4 DEF DrainPacket, Fates
      <3> HIDE DEF d, p
      <3>3. QED
        BY <2>3, <3>1, <3>2
    <2>5. CASE ~(cache[h] # None \/ Tail(queue[h].pkts) = << >>)
      <3> DEFINE f == [fate EXCEPT ![p] = "sent"]
      <3>1. queue' = ArpQueueAdd(d, p, h) /\ fate' = fate
        BY <1>2, <2>5 DEF DrainPacket
      <3>2. Owns(d, f) /\ d \in Queues /\ f \in [Packets -> Fates]
        BY <1>0, <2>1, <2>3, DropEntry DEF Fates
      <3>3. f[p] # "queued"
        BY <1>0, <2>2
      <3>4. fate[p] = "queued"
        BY <1>0, <2>1, <2>2 DEF Owns
      <3> HIDE DEF d, p
      <3>5. Owns(ArpQueueAdd(d, p, h), [f EXCEPT ![p] = "queued"])
        <4>1. h \in Hops
          BY <2>1
        <4> HIDE DEF f, h
        <4>2. QED
          BY <4>1, <2>2, <3>2, <3>3, AddOwns
      <3>6. [f EXCEPT ![p] = "queued"] = fate
        BY <1>0, <2>2, <3>4
      <3>7. QED
        BY <3>1, <3>5, <3>6
    <2>6. QED
      BY <2>4, <2>5
  <1>3. ASSUME NEW h \in Hops, VisitEntry(h)
        PROVE  Owns(queue', fate')
    <2>1. queue' \in Queues
      BY TypeStep DEF TypeOK, Queues
    <2>2. queue[h] # None
      BY <1>3 DEF VisitEntry, Control
    <2> DEFINE asked == [pkts |-> queue[h].pkts, reqs |-> queue[h].reqs + 1,
                         age |-> 0]
    <2>3. queue' = queue \/ (~Exhausted(queue[h])
                              /\ queue' = [queue EXCEPT ![h] = asked])
      BY <1>3 DEF VisitEntry
    <2>4. ~Exhausted(queue[h]) => asked \in QueueEntry
      <3>1. queue[h] \in QueueEntry
        BY <1>0, <2>2 DEF Queues
      <3>2. QED
        BY <3>1 DEF QueueEntry, Ages, Exhausted
    <2>5. asked.pkts = queue[h].pkts
      OBVIOUS
    <2> HIDE DEF asked
    <2>6. \A g \in Hops : /\ queue[g] = None <=> queue'[g] = None
                          /\ queue[g] # None => queue'[g].pkts = queue[g].pkts
      BY <1>0, <2>2, <2>3, <2>4, <2>5 DEF Queues
    <2>7. fate' = fate
      BY <1>3 DEF VisitEntry
    <2>8. QED
      BY <1>0, <2>1, <2>6, <2>7, SameListsOwn
  <1>4. ASSUME NEW b \in Hops \cup {None}, GiveUpPacket(b)
        PROVE  Owns(queue', fate')
    <2> DEFINE h == arp.hop
               p == Head(queue[h].pkts)
               e == ErrOf(p)
               replies == ~p[2] /\ p[1] \in Errable /\ b # None
               queues == replies /\ cache[b] = None
               q == IF queues THEN ArpQueueAdd(queue, e, b) ELSE queue
               f == CASE queues -> [fate EXCEPT ![e] = "queued"]
                      [] replies /\ ~queues -> [fate EXCEPT ![e] = "sent"]
                      [] OTHER -> fate
    <2>1. h \in Hops /\ queue[h] # None /\ Places(queue, h) # {}
      BY <1>0, <1>4 DEF GiveUpPacket, Control, TypeOK, ArpStates, Owns
    <2>2. /\ p \in Packets /\ e \in Packets
          /\ q \in Queues /\ q[h] # None /\ Head(q[h].pkts) = p
      <3>1. queues \in BOOLEAN /\ (queues => b # None)
        OBVIOUS
      <3> HIDE DEF queues, h
      <3>2. QED
        BY <1>0, <2>1, <3>1, GrownEntry
    <2>3. queue' = DropHead(q, h) /\ fate' = [f EXCEPT ![p] = "freed"]
      BY <1>4 DEF GiveUpPacket
    <2>4. fate[p] = "queued"
      <3>1. /\ p = queue[h].pkts[1] /\ Len(queue[h].pkts) \in Nat \ {0}
        BY <1>0, <2>1, HeadOf
      <3>2. 1 \in Places(queue, h)
        BY <1>0, <2>1, <3>1, PlacesOf
      <3> HIDE DEF p, q, f, h, queues, e
      <3>3. \E g \in Hops : \E k \in Places(queue, g) : queue[g].pkts[k] = p
        BY <2>1, <3>1, <3>2
      <3>4. Owns(queue, fate) /\ p \in Packets
        BY <1>0, <2>2
      <3>5. QED
        BY <3>3, <3>4 DEF Owns
    <2>5. replies => fate[e] = "none"
      <3> SUFFICES ASSUME replies
                   PROVE  fate[e] = "none"
        OBVIOUS
      <3>1. p[1] \in Ids /\ p[2] = FALSE /\ p = <<p[1], FALSE>>
        <4>2. ~p[2]
          OBVIOUS
        <4> HIDE DEF p, q, f, e, queues
        <4>1. PICK i \in Ids, c \in BOOLEAN : p = <<i, c>>
          BY <2>2 DEF Packets
        <4>3. p[1] = i /\ p[2] = c
          BY <4>1
        <4>4. c = FALSE
          BY <4>2, <4>3
        <4>5. QED
          BY <4>1, <4>3, <4>4
      <3> HIDE DEF p
      <3>2. fate[<<p[1], FALSE>>] # "freed"
        BY <2>4, <3>1
      <3>3. QED
        BY <3>1, <3>2 DEF ErrAfterData, ErrOf
    <2>6. f \in [Packets -> Fates]
      BY <1>0 DEF Fates
    <2>7. Owns(q, f)
      <3>1. CASE queues
        <4>1. b \in Hops /\ fate[e] # "queued"
          BY <3>1, <2>5
        <4>2. q = ArpQueueAdd(queue, e, b) /\ f = [fate EXCEPT ![e] = "queued"]
          BY <3>1
        <4> HIDE DEF q, f, e
        <4>3. QED
          BY <1>0, <2>2, <4>1, <4>2, AddOwns
      <3>2. CASE replies /\ ~queues
        <4>1. q = queue /\ f = [fate EXCEPT ![e] = "sent"]
          BY <3>2
        <4>2. fate[e] # "queued"
          BY <2>5, <3>2
        <4> HIDE DEF q, f, e
        <4>3. \A x \in Packets : f[x] = "queued" <=> fate[x] = "queued"
          BY <1>0, <2>2, <4>1, <4>2
        <4>4. QED
          BY <1>0, <4>1, <4>3 DEF Owns, Places
      <3>3. CASE ~replies
        <4>1. q = queue /\ f = fate
          BY <3>3
        <4>2. QED
          BY <1>0, <4>1
      <3>4. QED
        BY <3>1, <3>2, <3>3
    <2> HIDE DEF q, f, p, h
    <2>8. Owns(DropHead(q, h), [f EXCEPT ![Head(q[h].pkts)] = "freed"])
      BY <2>1, <2>2, <2>6, <2>7, DropOwns DEF Fates
    <2>9. QED
      BY <2>2, <2>3, <2>8
  <1>5. CASE Tick
    <2>1. queue' \in Queues /\ fate' = fate
      BY <1>5, TypeStep DEF Tick, TypeOK, Queues
    <2> DEFINE Aged(e) == [e EXCEPT !.age = Older(@)]
    <2>2. \A h \in Hops : queue[h] # None => Aged(queue[h]) \in QueueEntry
      <3>1. \A a \in Ages : Older(a) \in Ages
        BY DEF Older, Ages
      <3>2. QED
        BY <1>0, <3>1 DEF Queues, QueueEntry
    <2>3. \A h \in Hops : queue[h] # None => Aged(queue[h]).pkts = queue[h].pkts
      BY <1>0 DEF Queues, QueueEntry
    <2>4. \A h \in Hops : queue'[h] = IF queue[h] = None THEN None
                                     ELSE Aged(queue[h])
      BY <1>5 DEF Tick
    <2> HIDE DEF Aged
    <2>5. \A h \in Hops : /\ queue[h] = None <=> queue'[h] = None
                          /\ queue[h] # None => queue'[h].pkts = queue[h].pkts
      BY <2>2, <2>3, <2>4
    <2>6. QED
      BY <1>0, <2>1, <2>5, SameListsOwn
  <1>6. CASE UNCHANGED <<queue, fate>>
    BY <1>0, <1>6
  <1>7. QED
    BY <1>1, <1>2, <1>3, <1>4, <1>5, <1>6
       DEF Next, RxStep, ArpThread, Cli, ProcessArpReply, SendQueuedPackets,
           ExpireArpCache, PassBegin, PassEnd, CliArpAdd, CliArpDel,
           CliNukeArpCache, CliSetTtl, vars

(* A packet at the head of an entry is a queued one. *)
LEMMA HeadQueued ==
  ASSUME IInv, NEW h \in Hops, queue[h] # None
  PROVE  Head(queue[h].pkts) \in Packets /\ fate[Head(queue[h].pkts)] = "queued"
  <1>0. queue \in Queues /\ Owns(queue, fate)
    BY DEF IInv, TypeOK, Queues, QueueOwnsPackets
  <1>1. Places(queue, h) # {}
    BY <1>0 DEF Owns
  <1>2. /\ Head(queue[h].pkts) \in Packets
        /\ Head(queue[h].pkts) = queue[h].pkts[1]
        /\ Len(queue[h].pkts) \in Nat \ {0}
    BY <1>0, <1>1, HeadOf
  <1>3. 1 \in Places(queue, h)
    BY <1>0, <1>2, PlacesOf
  <1>4. QED
    BY <1>0, <1>2, <1>3 DEF Owns

LEMMA ErrStep ==
  ASSUME IInv, [Next]_vars
  PROVE  ErrAfterData'
  <1> USE DEF IInv
  <1>0. /\ fate \in [Packets -> Fates]
        /\ \A i \in Ids : <<i, TRUE>> \in Packets /\ <<i, FALSE>> \in Packets
    BY DEF TypeOK, Packets
  <1>1. ASSUME NEW i \in Ids, NEW h \in Hops, SendIp(i, h)
        PROVE  ErrAfterData'
    <2>1. \E s \in {"sent", "queued"} : fate' = [fate EXCEPT ![<<i, FALSE>>] = s]
      BY <1>1 DEF SendIp, Data
    <2>2. fate[<<i, FALSE>>] = "none"
      BY <1>1 DEF SendIp, Data
    <2>3. QED
      BY <1>0, <2>1, <2>2 DEF ErrAfterData
  <1>2. CASE DrainPacket
    <2> DEFINE p == Head(queue[rx.hop].pkts)
    <2>1. p \in Packets /\ fate[p] = "queued"
      BY <1>2, HeadQueued DEF DrainPacket, Control
    <2>2. fate' = fate \/ \E s \in {"sent", "leaked"} : fate' = [fate EXCEPT ![p] = s]
      BY <1>2 DEF DrainPacket
    <2> HIDE DEF p
    <2>3. QED
      BY <1>0, <2>1, <2>2 DEF ErrAfterData
  <1>3. ASSUME NEW b \in Hops \cup {None}, GiveUpPacket(b)
        PROVE  ErrAfterData'
    <2> DEFINE p == Head(queue[arp.hop].pkts)
               e == ErrOf(p)
    <2>1. p \in Packets /\ fate[p] = "queued"
      BY <1>3, HeadQueued DEF GiveUpPacket, Control, TypeOK, ArpStates
    <2>2. PICK i \in Ids, c \in BOOLEAN : p = <<i, c>>
      BY <2>1 DEF Packets
    <2>3. e = <<i, TRUE>>
      BY <2>2 DEF ErrOf
    <2>4. \/ fate' = [fate EXCEPT ![p] = "freed"]
          \/ ~p[2] /\ \E s \in {"sent", "queued"} :
                fate' = [[fate EXCEPT ![e] = s] EXCEPT ![p] = "freed"]
      BY <1>3 DEF GiveUpPacket
    <2> HIDE DEF p, e
    <2>5. CASE fate' = [fate EXCEPT ![p] = "freed"]
      BY <1>0, <2>1, <2>5 DEF ErrAfterData
    <2>6. CASE ~p[2] /\ \E s \in {"sent", "queued"} :
                 fate' = [[fate EXCEPT ![e] = s] EXCEPT ![p] = "freed"]
      <3>1. c = FALSE /\ p = <<i, FALSE>>
        BY <2>2, <2>6
      <3>2. QED
        BY <1>0, <2>1, <2>3, <2>6, <3>1 DEF ErrAfterData
    <2>7. QED
      BY <2>4, <2>5, <2>6
  <1>4. CASE UNCHANGED fate
    BY <1>4 DEF ErrAfterData
  <1>5. QED
    BY <1>1, <1>2, <1>3, <1>4
       DEF Next, RxStep, ArpThread, Cli, ProcessArpReply, SendQueuedPackets,
           ExpireArpCache, PassBegin, VisitEntry, PassEnd, Tick, CliArpAdd,
           CliArpDel, CliNukeArpCache, CliSetTtl, vars

LEMMA InitIInv == Init => IInv
  <1> SUFFICES ASSUME Init PROVE IInv
    OBVIOUS
  <1>1. TypeOK
    BY DEF Init, TypeOK, RxStates, ArpStates, Fates
  <1>2. Control
    BY DEF Init, Control
  <1>3. QueueOwnsPackets
    BY DEF Init, QueueOwnsPackets, Owns, Places
  <1>4. ErrAfterData
    BY DEF Init, ErrAfterData, Packets
  <1>5. QED
    BY <1>1, <1>2, <1>3, <1>4 DEF IInv

(* IInv is an invariant, for every choice of the constants. *)
THEOREM Inductive == Spec => []IInv
  <1>1. IInv /\ [Next]_vars => IInv'
    BY TypeStep, ControlStep, OwnsStep, ErrStep DEF IInv
  <1>2. QED
    BY InitIInv, <1>1, PTL DEF Spec

(* Type correctness of the ARP state. *)
THEOREM TypeCorrect == Spec => []TypeOK
  <1>1. IInv => TypeOK
    BY DEF IInv
  <1>2. QED
    BY Inductive, <1>1, PTL

(* The queue owns its packets: none of the loops of or_arp.c leaves a      *)
(* packet in the queue after it has been transmitted or freed, or puts one *)
(* there twice - not even the drain that finds its hop gone.               *)
THEOREM PacketOwnership == Spec => []QueueOwnsPackets
  <1>1. IInv => QueueOwnsPackets
    BY DEF IInv
  <1>2. QED
    BY Inductive, <1>1, PTL

(* write_arp_cache_to_hw looks at an entry's address and whether it is     *)
(* static, not at its age.                                                 *)
LEMMA SameImages ==
  ASSUME NEW c, NEW d,
         \A h \in Hops : /\ c[h] = None <=> d[h] = None
                         /\ c[h] # None => c[h].mac = d[h].mac /\ c[h].static = d[h].static
  PROVE  HwImages(c) = HwImages(d)
  <1> DEFINE Cached(x) == {h \in Hops : x[h] # None}
             Static(x) == {h \in Cached(x) : x[h].static}
             Image(x, s) == [h \in Hops |-> IF h \in s THEN x[h].mac ELSE None]
             Fits(s, a, b) == /\ Cardinality(s) <= Depth
                              /\ s # a => Cardinality(s) = Depth
                              /\ b \subseteq s \/ s \subseteq b
             Sets(a, b) == {t \in SUBSET a : Fits(t, a, b)}
  <1>1. Cached(c) = Cached(d)
    OBVIOUS
  <1>2. Static(c) = Static(d)
    BY <1>1
  <1>3. \A s \in SUBSET Cached(c) : Image(c, s) = Image(d, s)
    OBVIOUS
  <1>4. \A x : HwImages(x) = {Image(x, s) : s \in Sets(Cached(x), Static(x))}
    BY DEF HwImages
  <1>5. \A a, b : Sets(a, b) \subseteq SUBSET a
    OBVIOUS
  <1> HIDE DEF Cached, Static, Image, Sets
  <1>6. HwImages(c) = {Image(c, s) : s \in Sets(Cached(c), Static(c))}
    BY <1>4
  <1>7. HwImages(d) = {Image(d, s) : s \in Sets(Cached(c), Static(c))}
    BY <1>1, <1>2, <1>4
  <1>8. \A s \in Sets(Cached(c), Static(c)) : Image(c, s) = Image(d, s)
    BY <1>3, <1>5
  <1>9. QED
    BY <1>6, <1>7, <1>8

(* The empty cache has one image: a table of zeroes. *)
LEMMA EmptyImage ==
  [h \in Hops |-> None] \in HwImages([h \in Hops |-> None])
  <1> DEFINE c == [h \in Hops |-> None]
  <1>1. {h \in Hops : c[h] # None} = {}
    OBVIOUS
  <1>2. Cardinality({}) = 0 /\ 0 <= Depth
    BY FS_EmptySet
  <1>3. c = [h \in Hops |-> IF h \in {} THEN c[h].mac ELSE None]
    OBVIOUS
  <1>4. QED
    BY <1>1, <1>2, <1>3 DEF HwImages

LEMMA MirrorStep ==
  ASSUME IInv, HwMirrorsCache, [Next]_vars
  PROVE  HwMirrorsCache'
  <1> SUFFICES hw' \in HwImages(cache')
    BY DEF HwMirrorsCache, HwImages
  <1>0. hw \in HwImages(cache) /\ cache \in [Hops -> CacheEntry \cup {None}]
    BY DEF HwMirrorsCache, IInv, TypeOK
  <1>1. ASSUME NEW gone \in SUBSET Hops, Evict(gone)
        PROVE  hw' \in HwImages(cache')
    <2>1. CASE \E h \in gone : cache[h] # None
      BY <1>1, <2>1 DEF Evict
    <2>2. CASE ~\E h \in gone : cache[h] # None
      <3>1. cache' = cache /\ hw' = hw
        BY <1>0, <1>1, <2>2 DEF Evict
      <3>2. QED
        BY <1>0, <3>1
    <2>3. QED
      BY <2>1, <2>2
  <1>2. CASE ExpireArpCache
    BY <1>1, <1>2 DEF ExpireArpCache
  <1>3. ASSUME NEW h \in Hops, CliArpDel(h)
        PROVE  hw' \in HwImages(cache')
    BY <1>1, <1>3 DEF CliArpDel
  <1>4. CASE Tick
    <2> DEFINE Aged(e) == [e EXCEPT !.age = Older(@)]
    <2>1. \A h \in Hops : cache[h] # None => cache[h] \in CacheEntry
      BY <1>0
    <2>2. \A e \in CacheEntry : /\ Aged(e) \in CacheEntry
                               /\ Aged(e).mac = e.mac /\ Aged(e).static = e.static
      BY DEF CacheEntry, Older, Ages
    <2>3. \A h \in Hops : cache'[h] = IF cache[h] = None THEN None ELSE Aged(cache[h])
      BY <1>4 DEF Tick
    <2>4. hw' = hw
      BY <1>4 DEF Tick
    <2> HIDE DEF Aged
    <2>5. \A h \in Hops :
            /\ cache[h] = None <=> cache'[h] = None
            /\ cache[h] # None => /\ cache[h].mac = cache'[h].mac
                                 /\ cache[h].static = cache'[h].static
      BY <2>1, <2>2, <2>3
    <2>6. HwImages(cache) = HwImages(cache')
      BY <2>5, SameImages
    <2>7. QED
      BY <1>0, <2>4, <2>6
  <1>5. CASE UNCHANGED <<cache, hw>>
    BY <1>0, <1>5
  <1>6. CASE \/ \E h \in Hops, m \in Macs : ProcessArpReply(h, m) \/ CliArpAdd(h, m)
             \/ CliNukeArpCache
    BY <1>6 DEF ProcessArpReply, CliArpAdd, CliNukeArpCache, UpdateArpCache
  <1>7. QED
    BY <1>2, <1>3, <1>4, <1>5, <1>6
       DEF Next, RxStep, ArpThread, Cli, SendIp, SendQueuedPackets, DrainPacket,
           PassBegin, VisitEntry, GiveUpPacket, PassEnd, CliSetTtl, vars

(* In every reachable state the hardware table is a rewrite of the present *)
(* cache, for any number of hops and any depth of the table.               *)
THEOREM HardwareMirror == Spec => []HwMirrorsCache
  <1>1. Init => HwMirrorsCache
    BY EmptyImage DEF Init, HwMirrorsCache
  <1>2. IInv /\ HwMirrorsCache /\ [Next]_vars => HwMirrorsCache'
    BY MirrorStep
  <1>3. QED
    BY Inductive, <1>1, <1>2, PTL DEF Spec

LEMMA WaitStep ==
  ASSUME IInv, NoWaitBehindLearnedHop, [Next]_vars
  PROVE  NoWaitBehindLearnedHop'
  <1> USE DEF IInv
  <1>0. /\ queue \in Queues /\ Owns(queue, fate)
        /\ cache \in [Hops -> CacheEntry \cup {None}]
        /\ rx \in RxStates
    BY DEF TypeOK, Queues, QueueOwnsPackets
  <1>1. ASSUME NEW i \in Ids, NEW h \in Hops, SendIp(i, h)
        PROVE  NoWaitBehindLearnedHop'
    <2>1. Data(i) \in Packets
      BY DEF Data, Packets
    <2>2. UNCHANGED <<cache, rx>>
      BY <1>1 DEF SendIp
    <2>3. \A g \in Hops : cache[g] # None => queue'[g] = queue[g]
      <3>1. \A g \in Hops : g # h => ArpQueueAdd(queue, Data(i), h)[g] = queue[g]
        BY <1>0, <2>1, AddEntry
      <3>2. QED
        BY <1>1, <3>1 DEF SendIp
    <2>4. QED
      BY <2>2, <2>3 DEF NoWaitBehindLearnedHop
  <1>2. ASSUME NEW h \in Hops, NEW m \in Macs, ProcessArpReply(h, m)
        PROVE  NoWaitBehindLearnedHop'
    <2>1. /\ rx.pc = "idle" /\ queue' = queue
          /\ rx'.pc = "window" /\ rx'.hop = h
          /\ \A g \in Hops : g # h => cache'[g] = cache[g]
      BY <1>0, <1>2 DEF ProcessArpReply, UpdateArpCache
    <2>2. QED
      BY <2>1 DEF NoWaitBehindLearnedHop
  <1>3. CASE SendQueuedPackets
    <2>1. UNCHANGED <<cache, queue>> /\ rx.hop \in Hops
      BY <1>3 DEF SendQueuedPackets, Control
    <2>2. queue[rx.hop] = None \/ (rx'.pc = "drain" /\ rx'.hop = rx.hop)
      BY <1>0, <1>3 DEF SendQueuedPackets, RxStates
    <2>3. QED
      BY <1>3, <2>1, <2>2 DEF NoWaitBehindLearnedHop, SendQueuedPackets
  <1>4. CASE DrainPacket
    <2> DEFINE h == rx.hop
               p == Head(queue[h].pkts)
               d == DropHead(queue, h)
    <2>1. h \in Hops /\ queue[h] # None /\ Places(queue, h) # {}
      BY <1>0, <1>4 DEF DrainPacket, Control, Owns
    <2>2. /\ d \in Queues
          /\ d[h] = None <=> Tail(queue[h].pkts) = << >>
          /\ \A g \in Hops : g # h => d[g] = queue[g]
      BY <1>0, <2>1, DropEntry
    <2>3. p \in Packets
      BY <1>0, <2>1, HeadOf
    <2>4. cache' = cache
      BY <1>4 DEF DrainPacket
    <2>5. CASE cache[h] # None \/ Tail(queue[h].pkts) = << >>
      <3>1. queue' = d
        BY <1>4, <2>5 DEF DrainPacket
      <3>2. Tail(queue[h].pkts) = << >> \/ rx' = rx
        BY <1>4 DEF DrainPacket
      <3>3. rx.pc = "drain"
        BY <1>4 DEF DrainPacket
      <3>4. QED
        BY <2>1, <2>2, <2>4, <3>1, <3>2, <3>3 DEF NoWaitBehindLearnedHop
    <2>6. CASE ~(cache[h] # None \/ Tail(queue[h].pkts) = << >>)
      <3>1. queue' = ArpQueueAdd(d, p, h) /\ rx' = rx
        BY <1>4, <2>6 DEF DrainPacket
      <3> HIDE DEF d, p
      <3>2. \A g \in Hops : g # h => queue'[g] = d[g]
        <4>1. h \in Hops
          BY <2>1
        <4> HIDE DEF h
        <4>2. \A g \in Hops : g # h => ArpQueueAdd(d, p, h)[g] = d[g]
          BY <4>1, <2>2 DEF ArpQueueAdd, Queues
        <4>3. QED
          BY <3>1, <4>2
      <3>3. QED
        BY <2>2, <2>4, <2>6, <3>1, <3>2 DEF NoWaitBehindLearnedHop
    <2>7. QED
      BY <2>5, <2>6
  <1>5. ASSUME NEW gone \in SUBSET Hops, Evict(gone), UNCHANGED <<queue, rx>>
        PROVE  NoWaitBehindLearnedHop'
    BY <1>0, <1>5 DEF Evict, NoWaitBehindLearnedHop
  <1>6. CASE ExpireArpCache
    BY <1>5, <1>6 DEF ExpireArpCache
  <1>7. ASSUME NEW h \in Hops, VisitEntry(h)
        PROVE  NoWaitBehindLearnedHop'
    <2>1. queue[h] # None
      BY <1>7 DEF VisitEntry, Control
    <2>2. \A g \in Hops : queue'[g] # None => queue[g] # None
      BY <1>0, <1>7, <2>1 DEF VisitEntry, Queues
    <2>3. QED
      BY <1>7, <2>2 DEF VisitEntry, NoWaitBehindLearnedHop
  <1>8. ASSUME NEW b \in Hops \cup {None}, GiveUpPacket(b)
        PROVE  NoWaitBehindLearnedHop'
    <2> DEFINE h == arp.hop
               p == Head(queue[h].pkts)
               c == /\ ~p[2] /\ p[1] \in Errable /\ b # None
                    /\ cache[b] = None
               q == IF c THEN ArpQueueAdd(queue, ErrOf(p), b) ELSE queue
    <2>1. h \in Hops /\ queue[h] # None /\ Places(queue, h) # {}
      BY <1>0, <1>8 DEF GiveUpPacket, Control, TypeOK, ArpStates, Owns
    <2>2. /\ ErrOf(p) \in Packets
          /\ q \in Queues /\ q[h] # None /\ Places(q, h) # {}
      BY <1>0, <2>1, GrownEntry
    <2>3. queue' = DropHead(q, h) /\ cache' = cache /\ rx' = rx
      BY <1>8 DEF GiveUpPacket
    <2>4. \A g \in Hops : cache[g] # None => q[g] = queue[g]
      <3> HIDE DEF p
      <3>1. CASE c
        <4>1. b \in Hops /\ cache[b] = None /\ q = ArpQueueAdd(queue, ErrOf(p), b)
          BY <3>1
        <4>2. queue \in Queues
          BY <1>0
        <4> HIDE DEF q, c, h
        <4>3. \A g \in Hops : g # b => ArpQueueAdd(queue, ErrOf(p), b)[g] = queue[g]
          BY <4>1, <4>2 DEF ArpQueueAdd, Queues
        <4>4. QED
          BY <4>1, <4>3
      <3>2. CASE ~c
        <4>1. q = queue
          BY <3>2
        <4>2. QED
          BY <4>1
      <3>3. QED
        BY <3>1, <3>2
    <2> HIDE DEF q, p, h, c
    <2>5. \A g \in Hops : DropHead(q, h)[g] # None => q[g] # None
      BY <2>1, <2>2, DropEntry
    <2>6. QED
      BY <2>3, <2>4, <2>5 DEF NoWaitBehindLearnedHop
  <1>9. CASE Tick
    <2>1. \A h \in Hops : queue'[h] # None => queue[h] # None
      BY <1>9 DEF Tick
    <2>2. \A h \in Hops : cache'[h] # None =>
            cache[h] # None /\ cache'[h].static = cache[h].static
      BY <1>0, <1>9 DEF Tick, CacheEntry
    <2>3. QED
      BY <1>9, <2>1, <2>2 DEF Tick, NoWaitBehindLearnedHop
  <1>10. ASSUME NEW h \in Hops, NEW m \in Macs, CliArpAdd(h, m)
         PROVE  NoWaitBehindLearnedHop'
    <2>1. cache'[h].static /\ \A g \in Hops : g # h => cache'[g] = cache[g]
      BY <1>0, <1>10 DEF CliArpAdd, UpdateArpCache
    <2>2. QED
      BY <1>10, <2>1 DEF CliArpAdd, NoWaitBehindLearnedHop
  <1>11. ASSUME NEW h \in Hops, CliArpDel(h)
         PROVE  NoWaitBehindLearnedHop'
    BY <1>5, <1>11 DEF CliArpDel
  <1>12. CASE CliNukeArpCache
    BY <1>12 DEF CliNukeArpCache, NoWaitBehindLearnedHop
  <1>13. CASE UNCHANGED <<cache, queue, rx>>
    BY <1>13 DEF NoWaitBehindLearnedHop
  <1>14. QED
    BY <1>1, <1>2, <1>3, <1>4, <1>6, <1>7, <1>8, <1>9, <1>10, <1>11, <1>12, <1>13
       DEF Next, RxStep, ArpThread, Cli, PassBegin, PassEnd, CliSetTtl, vars

(* Packets do not wait behind an address the router has learned from a     *)
(* reply, whatever the threads and the operator do between the two halves  *)
(* of process_arp_reply.                                                   *)
THEOREM NoWait == Spec => []NoWaitBehindLearnedHop
  <1>1. Init => NoWaitBehindLearnedHop
    BY DEF Init, NoWaitBehindLearnedHop
  <1>2. IInv /\ NoWaitBehindLearnedHop /\ [Next]_vars => NoWaitBehindLearnedHop'
    BY WaitStep
  <1>3. QED
    BY Inductive, <1>1, <1>2, PTL DEF Spec
=============================================================================
