---------------------------- MODULE LwtcpProofs ----------------------------
(***************************************************************************)
(* Theorems about Lwtcp: for one connection shorter than half of the       *)
(* sequence space, any windows, segment and queue sizes, any writes and    *)
(* any losses, delays, duplications and timeouts,                          *)
(*                                                                         *)
(*   TcpStreamIntact      the stream is received in order, without gaps    *)
(*   TcpEofAfterData      the end is reported after the last byte          *)
(*   TcpNothingForgotten  what is not received is still queued             *)
(*   TcpBuffersReturned   the counters of the queues are exact             *)
(*                                                                         *)
(* The argument.  A sequence number x of end e stands for the place        *)
(* Pos(e, x) of e's stream: 0 is its SYN, 1 .. written its bytes and the   *)
(* next one its FIN.  On a short connection SeqLt and SeqLeq order numbers *)
(* as they order places.  TcpInv keeps, beside the state, the places       *)
(* `cuts' where each end began a segment: a segment may grow while it is   *)
(* unsent, also after a timeout took it back, but never past a place where *)
(* another begins (SegOK).  Two that overlap therefore begin together: the *)
(* receiver cuts what it has off the front of one, never off the back of   *)
(* one it queues.  Given that,                                             *)
(*   - unacked and unsent hold the places from the last acknowledged one   *)
(*     to snd_lbb, in order and without a gap (Queue, Sending);            *)
(*   - every segment in the network and in ooseq is one of the sender's,   *)
(*     and acknowledges no more than its sender has received (WireOK);     *)
(*   - what the application has and what waits for it are the bytes before *)
(*     rcv_nxt (Rcv, Heard).                                               *)
(* An operation of the code is a lemma that takes a well-formed control    *)
(* block (Ok) to a well-formed one that acknowledges no less (Kept) or     *)
(* whose stream has grown (Grown); a step of one end leaves the other end  *)
(* and the network in order (StepPeer).                                    *)
(***************************************************************************)
EXTENDS Lwtcp, FiniteSetTheorems, SequenceTheorems, WellFoundedInduction, TLAPS

(***************************************************************************)
(* Definitions of the invariant.                                            *)
(***************************************************************************)
(* One connection, shorter than half of the sequence space: beyond that an  *)
(* old segment may be taken for a new one, in this code as in any TCP.      *)
OneShortConnection ==
  MaxConns <= 1 /\ \A e \in Ends : MaxBytes[e] + 2 < SeqSpace \div 2

(* The sequence number of an end's SYN, and how far x is from it. *)
Base(e) == IF e = "client" THEN Plus(Iss[e], SeqSpace - 1) ELSE Iss[e]
Pos(e, x) == Diff(x, Base(e))
EndPos(e, x) == Pos(e, x.seq) + TcpLen(x)

-----------------------------------------------------------------------------
(* Numbers *)
LEMMA TcpConsts ==
  /\ SeqSpace \in Nat /\ SeqSpace >= 1 /\ SeqSpace \div 2 \in Nat
  /\ 2 * (SeqSpace \div 2) <= SeqSpace
  /\ Iss \in [Ends -> Seqs] /\ MaxBytes \in [Ends -> Nat]
  /\ TcpSndBuf \in Nat /\ TcpSndBuf >= 1 /\ BufMod \in Nat /\ BufMod > TcpSndBuf
  /\ TcpMss \in Nat /\ TcpMss >= 1 /\ TcpWnd \in Nat /\ TcpWnd >= 1 /\ MaxConns \in Nat
<1>1. SeqSpace \in Nat /\ TcpMss \in Nat /\ TcpMss >= 1 /\ TcpSndBuf \in Nat /\ TcpSndBuf >= 1
      /\ TcpWnd \in TcpMss .. 2 * TcpMss /\ 2 * TcpSndBuf + 4 < SeqSpace \div 2
  BY LwtcpAssumption
<1>2. SeqSpace \div 2 \in Int /\ SeqSpace - 1 <= 2 * (SeqSpace \div 2) /\ 2 * (SeqSpace \div 2) <= SeqSpace
  BY <1>1
<1>3. TcpWnd \in Nat /\ TcpWnd >= 1 /\ SeqSpace >= 1 /\ SeqSpace \div 2 >= 0
  BY <1>1, <1>2
<1> QED BY <1>1, <1>2, <1>3, LwtcpAssumption

LEMMA PeerIs ==
  ASSUME NEW e \in Ends
  PROVE  Peer(e) \in Ends /\ Peer(Peer(e)) = e /\ Peer(e) # e
BY DEF Ends, Peer

LEMMA DiffIs ==
  ASSUME NEW a \in Seqs, NEW b \in Seqs
  PROVE  Diff(a, b) = IF a >= b THEN a - b ELSE a - b + SeqSpace
<1>1. a \in Int /\ b \in Int /\ 0 <= a /\ a < SeqSpace /\ 0 <= b /\ b < SeqSpace /\ SeqSpace \in Int
  BY TcpConsts DEF Seqs
<1>2. CASE a >= b
  <2>1. (a - b) % SeqSpace = a - b
    BY <1>1, <1>2
  <2> QED BY <1>2, <2>1 DEF Diff
<1>3. CASE ~(a >= b)
  <2>1. (a - b) % SeqSpace = a - b + SeqSpace
    BY <1>1, <1>3
  <2> QED BY <1>3, <2>1 DEF Diff
<1> QED BY <1>2, <1>3

LEMMA PlusIs ==
  ASSUME NEW a \in Seqs, NEW n \in Nat, n < SeqSpace
  PROVE  Plus(a, n) = IF a + n < SeqSpace THEN a + n ELSE a + n - SeqSpace
<1>1. a \in Int /\ 0 <= a /\ a < SeqSpace /\ SeqSpace \in Int
  BY TcpConsts DEF Seqs
<1>2. CASE a + n < SeqSpace
  <2>1. (a + n) % SeqSpace = a + n
    BY <1>1, <1>2
  <2> QED BY <1>2, <2>1 DEF Plus
<1>3. CASE ~(a + n < SeqSpace)
  <2>1. (a + n) % SeqSpace = a + n - SeqSpace
    BY <1>1, <1>3
  <2> QED BY <1>3, <2>1 DEF Plus
<1> QED BY <1>2, <1>3

LEMMA BaseType ==
  ASSUME NEW e \in Ends
  PROVE  Base(e) \in Seqs
<1>1. Iss[e] \in Seqs /\ SeqSpace - 1 \in Nat /\ SeqSpace \in Nat
  BY TcpConsts
<1>2. Plus(Iss[e], SeqSpace - 1) \in Seqs
  <2>1. Plus(Iss[e], SeqSpace - 1) = IF Iss[e] + (SeqSpace - 1) < SeqSpace THEN Iss[e] + (SeqSpace - 1)
                                     ELSE Iss[e] + (SeqSpace - 1) - SeqSpace
    BY <1>1, PlusIs
  <2> QED BY <1>1, <2>1 DEF Seqs
<1> QED BY <1>1, <1>2 DEF Base

LEMMA PosType ==
  ASSUME NEW e \in Ends, NEW x \in Seqs
  PROVE  Pos(e, x) \in Nat /\ Pos(e, x) < SeqSpace
<1>1. Diff(x, Base(e)) = IF x >= Base(e) THEN x - Base(e) ELSE x - Base(e) + SeqSpace
  BY BaseType, DiffIs
<1> QED BY <1>1, BaseType, TcpConsts DEF Pos, Seqs

LEMMA PosPlus ==
  ASSUME NEW e \in Ends, NEW x \in Seqs, NEW n \in Nat, Pos(e, x) + n < SeqSpace
  PROVE  Plus(x, n) \in Seqs /\ Pos(e, Plus(x, n)) = Pos(e, x) + n
<1> USE TcpConsts
<1>0. PICK b : b = Base(e)
  OBVIOUS
<1>1. b \in Seqs
  BY <1>0, BaseType
<1>2. Pos(e, x) = IF x >= b THEN x - b ELSE x - b + SeqSpace
  BY <1>0, <1>1, DiffIs DEF Pos
<1>3. n < SeqSpace
  BY <1>1, <1>2 DEF Seqs
<1>4. Plus(x, n) = IF x + n < SeqSpace THEN x + n ELSE x + n - SeqSpace
  BY <1>3, PlusIs
<1>5. Plus(x, n) \in Seqs
  BY <1>3, <1>4 DEF Seqs
<1>6. Pos(e, Plus(x, n)) = IF Plus(x, n) >= b THEN Plus(x, n) - b ELSE Plus(x, n) - b + SeqSpace
  BY <1>0, <1>1, <1>5, DiffIs DEF Pos
<1> QED BY <1>1, <1>2, <1>3, <1>4, <1>5, <1>6 DEF Seqs

LEMMA PosDiff ==
  ASSUME NEW e \in Ends, NEW x \in Seqs, NEW y \in Seqs
  PROVE  /\ Pos(e, x) >= Pos(e, y) => Diff(x, y) = Pos(e, x) - Pos(e, y)
         /\ Pos(e, x) < Pos(e, y) => Diff(x, y) = Pos(e, x) - Pos(e, y) + SeqSpace
         /\ x = y <=> Pos(e, x) = Pos(e, y)
<1>0. PICK b : b = Base(e)
  OBVIOUS
<1>1. b \in Seqs
  BY <1>0, BaseType
<1>2. Pos(e, x) = IF x >= b THEN x - b ELSE x - b + SeqSpace
  BY <1>0, <1>1, DiffIs DEF Pos
<1>3. Pos(e, y) = IF y >= b THEN y - b ELSE y - b + SeqSpace
  BY <1>0, <1>1, DiffIs DEF Pos
<1>4. Diff(x, y) = IF x >= y THEN x - y ELSE x - y + SeqSpace
  BY DiffIs
<1> QED BY <1>1, <1>2, <1>3, <1>4, TcpConsts DEF Seqs

LEMMA PosLt ==
  ASSUME NEW e \in Ends, NEW x \in Seqs, NEW y \in Seqs,
         Pos(e, x) < SeqSpace \div 2, Pos(e, y) < SeqSpace \div 2
  PROVE  /\ SeqLt(x, y) <=> Pos(e, x) < Pos(e, y)
         /\ SeqLeq(x, y) <=> Pos(e, x) <= Pos(e, y)
         /\ x = y <=> Pos(e, x) = Pos(e, y)
<1>1. Pos(e, x) \in Nat /\ Pos(e, y) \in Nat
  BY PosType
<1>2. PICK px, py, h : px = Pos(e, x) /\ py = Pos(e, y) /\ h = SeqSpace \div 2
  OBVIOUS
<1>3. /\ px >= py => Diff(x, y) = px - py
      /\ px < py => Diff(x, y) = px - py + SeqSpace
      /\ x = y <=> px = py
  BY <1>2, PosDiff
<1>4. px \in Nat /\ py \in Nat /\ h \in Nat /\ px < h /\ py < h /\ 2 * h <= SeqSpace /\ SeqSpace \in Nat
  BY <1>1, <1>2, TcpConsts
<1>5. Diff(x, y) >= h <=> px < py
  BY ONLY <1>3, <1>4
<1> QED BY <1>1, <1>2, <1>3, <1>5 DEF SeqLt, SeqLeq

LEMMA BaseIs ==
  /\ Pos("client", Iss["client"]) = 1 \/ SeqSpace = 1
  /\ \A e \in Ends : Pos(e, Base(e)) = 0
<1>1. \A e \in Ends : Pos(e, Base(e)) = 0
  <2> TAKE e \in Ends
  <2>1. Base(e) \in Seqs /\ Base(e) >= Base(e)
    BY BaseType, TcpConsts DEF Seqs
  <2> QED BY <2>1, DiffIs, TcpConsts DEF Pos, Seqs
<1>2. Iss["client"] \in Seqs
  BY TcpConsts DEF Ends
<1>3. PICK b, i : i = Iss["client"] /\ b = Plus(i, SeqSpace - 1)
  OBVIOUS
<1>4. b = IF i + (SeqSpace - 1) < SeqSpace THEN i + (SeqSpace - 1) ELSE i + (SeqSpace - 1) - SeqSpace
  BY <1>2, <1>3, PlusIs, TcpConsts
<1>5. b \in Seqs /\ i \in Seqs
  BY <1>2, <1>3, <1>4, TcpConsts DEF Seqs
<1>6. Pos("client", i) = IF i >= b THEN i - b ELSE i - b + SeqSpace
  BY <1>3, <1>5, DiffIs DEF Pos, Base
<1>7. Pos("client", i) = 1 \/ SeqSpace = 1
  BY <1>4, <1>5, <1>6, TcpConsts DEF Seqs
<1> QED BY <1>1, <1>3, <1>7

LEMMA ModIs ==
  ASSUME NEW m \in Nat, m > 0, NEW p \in Int, NEW r \in 0 .. m - 1
  PROVE  (m * p + r) % m = r
<1>1. PICK z, a, b : z = m * p + r /\ a = z \div m /\ b = z % m
  OBVIOUS
<1>2. z \in Int /\ a \in Int /\ b \in 0 .. m - 1 /\ z = m * a + b
  BY <1>1
<1>3. PICK d : d = a - p
  OBVIOUS
<1>4. d \in Int /\ m * a = m * p + m * d /\ m * d \in Int /\ m * p \in Int
  BY <1>2, <1>3
<1>5. r = m * d + b
  BY <1>1, <1>2, <1>4
<1>6. d >= 1 => m * d >= m
  BY <1>4
<1>7. d <= -1 => m * d <= -m
  BY <1>4
<1>8. d = 0
  BY <1>2, <1>4, <1>5, <1>6, <1>7
<1> QED BY <1>1, <1>2, <1>5, <1>8

(* x % m does not change what is added to it means modulo m. *)
LEMMA ModPlus ==
  ASSUME NEW x \in Int, NEW y \in Int, NEW m \in Nat, m > 0
  PROVE  ((x % m) + y) % m = (x + y) % m
<1>1. PICK q, r : q = x \div m /\ r = x % m
  OBVIOUS
<1>2. x = m * q + r /\ r \in 0 .. m - 1 /\ q \in Int
  BY <1>1
<1>3. PICK q2, r2 : q2 = (r + y) \div m /\ r2 = (r + y) % m
  OBVIOUS
<1>4. r + y = m * q2 + r2 /\ r2 \in 0 .. m - 1 /\ q2 \in Int
  BY <1>2, <1>3
<1>5. m * q \in Int /\ m * q2 \in Int /\ m * (q + q2) = m * q + m * q2
  BY <1>2, <1>4
<1>6. x + y = m * (q + q2) + r2
  BY <1>2, <1>4, <1>5
<1>7. (x + y) % m = r2
  <2>1. PICK p : p = q + q2
    OBVIOUS
  <2>2. p \in Int /\ x + y = m * p + r2
    BY <1>2, <1>4, <1>6, <2>1
  <2>3. (m * p + r2) % m = r2
    BY <1>4, <2>2, ModIs
  <2> QED BY <2>2, <2>3
<1> QED BY <1>1, <1>3, <1>7

LEMMA ModDown ==
  ASSUME NEW x \in Int, NEW m \in Nat, NEW t \in Nat, t >= 1, x % m = t, m > t
  PROVE  (x - 1) % m = t - 1
<1>1. PICK q : q = x \div m
  OBVIOUS
<1>2. x = m * q + t /\ q \in Int
  BY <1>1
<1>3. x - 1 = m * q + (t - 1) /\ t - 1 \in 0 .. m - 1 /\ m * q \in Int
  BY <1>2
<1> QED BY <1>2, <1>3

-----------------------------------------------------------------------------
(* Least and greatest numbers, induction, and what is defined by recursion *)
LEMMA LeastOf ==
  ASSUME NEW S, S \subseteq Nat, S # {}
  PROVE  \E i \in S : \A j \in S : i <= j
<1> DEFINE R == OpToRel(<, Nat)
<1>1. IsWellFoundedOn(R, Nat)
  BY NatLessThanWellFounded
<1> HIDE DEF R
<1>2. PICK i \in S : \A y \in S : ~ (<<y, i>> \in R)
  BY <1>1, WFMin
<1>3. \A y, x \in Nat : y < x => <<y, x>> \in R
  BY DEF R, OpToRel
<1>4. \A y \in S : ~(y < i)
  BY <1>2, <1>3
<1> QED BY <1>4

LEMMA GreatestOf ==
  ASSUME NEW n \in Nat, NEW S, S \subseteq 0 .. n, S # {}
  PROVE  Max(S) \in S /\ \A j \in S : j <= Max(S)
<1> DEFINE T == {n - i : i \in S}
<1>1. T \subseteq Nat /\ T # {}
  OBVIOUS
<1>2. PICK t \in T : \A u \in T : t <= u
  BY <1>1, LeastOf
<1>3. PICK i \in S : t = n - i
  BY <1>2
<1>4. \A j \in S : i >= j
  <2> TAKE j \in S
  <2>1. n - j \in T /\ t <= n - j
    BY <1>2
  <2> QED BY <1>3, <2>1
<1>5. Max(S) \in S /\ \A j \in S : Max(S) >= j
  BY <1>4 DEF Max
<1> QED BY <1>5

LEMMA StepsUp ==
  ASSUME NEW n \in Nat, NEW G, 0 \in G, \A i \in 1 .. n : i - 1 \in G => i \in G
  PROVE  \A i \in 0 .. n : i \in G
<1> DEFINE Bad == {i \in 0 .. n : i \notin G}
<1>1. ASSUME Bad # {} PROVE FALSE
  <2>1. Bad \subseteq Nat
    OBVIOUS
  <2>2. PICK i \in Bad : \A y \in Bad : i <= y
    BY <1>1, <2>1, LeastOf
  <2>3. i \in 1 .. n
    OBVIOUS
  <2>4. i - 1 \in 0 .. n /\ ~(i <= i - 1)
    BY <2>3
  <2>5. i - 1 \in G
    BY <2>2, <2>4
  <2> QED BY <2>2, <2>3, <2>5
<1> QED BY <1>1

(* Numbers that are added up one after the other *)
SumDef(f, q) == f = [i \in 0 .. Len(q) |-> IF i = 0 THEN 0 ELSE f[i - 1] + q[i].n]
Counted(q) == q \in Seq(Segs)

LEMMA SegN ==
  ASSUME NEW q, Counted(q), NEW i \in 1 .. Len(q)
  PROVE  q[i] \in Segs /\ q[i].n \in Nat
<1>1. q[i] \in Segs
  BY DEF Counted
<1> QED BY <1>1 DEF Segs

LEMMA SumExists ==
  ASSUME NEW q, Counted(q)
  PROVE  \E f \in [0 .. Len(q) -> Nat] : SumDef(f, q)
<1> DEFINE n == Len(q)
<1> DEFINE G == {k \in Nat : \E f \in [0 .. k -> Nat] :
                   f[0] = 0 /\ \A i \in 1 .. k : f[i] = f[i - 1] + q[i].n}
<1>0. n \in Nat
  BY DEF Counted
<1>1. 0 \in G
  <2>1. PICK f : f = [i \in 0 .. 0 |-> 0]
    OBVIOUS
  <2>2. f \in [0 .. 0 -> Nat] /\ f[0] = 0
    BY <2>1
  <2> QED BY <2>2
<1>2. ASSUME NEW k \in 1 .. n, k - 1 \in G PROVE k \in G
  <2>1. PICK g \in [0 .. k - 1 -> Nat] :
          g[0] = 0 /\ \A i \in 1 .. k - 1 : g[i] = g[i - 1] + q[i].n
    BY <1>2
  <2>2. k - 1 \in 0 .. k - 1 /\ k \in Nat /\ q[k].n \in Nat
    BY <1>0, SegN
  <2>3. PICK f : f = [i \in 0 .. k |-> IF i = k THEN g[k - 1] + q[k].n ELSE g[i]]
    OBVIOUS
  <2>4. \A i \in 0 .. k : f[i] = IF i = k THEN g[k - 1] + q[k].n ELSE g[i]
    BY <2>3
  <2>5. f \in [0 .. k -> Nat]
    <3>1. g[k - 1] + q[k].n \in Nat
      BY <2>1, <2>2
    <3>2. \A i \in 0 .. k : (IF i = k THEN g[k - 1] + q[k].n ELSE g[i]) \in Nat
      BY <2>1, <3>1
    <3> QED BY <2>3, <3>2
  <2>6. ASSUME NEW i \in 1 .. k PROVE f[i] = f[i - 1] + q[i].n
    <3>1. i \in 0 .. k /\ i - 1 \in 0 .. k /\ i - 1 # k
      BY <2>2
    <3>2. f[i - 1] = g[i - 1]
      BY <2>4, <3>1
    <3>3. CASE i = k
      BY <2>4, <3>1, <3>2, <3>3
    <3>4. CASE i # k
      <4>1. i \in 1 .. k - 1
        BY <3>4, <2>2
      <4> QED BY <2>1, <2>4, <3>1, <3>2, <3>4, <4>1
    <3> QED BY <3>3, <3>4
  <2>7. f[0] = 0
    BY <2>1, <2>2, <2>4
  <2> QED BY <2>2, <2>5, <2>6, <2>7
<1>3. n \in G
  <2> HIDE DEF G, n
  <2>1. \A i \in 0 .. n : i \in G
    BY <1>0, <1>1, <1>2, StepsUp
  <2> QED BY <1>0, <2>1
<1>4. PICK f \in [0 .. n -> Nat] : f[0] = 0 /\ \A i \in 1 .. n : f[i] = f[i - 1] + q[i].n
  BY <1>3
<1>5. \A i \in 0 .. n : f[i] = IF i = 0 THEN 0 ELSE f[i - 1] + q[i].n
  BY <1>4
<1>6. SumDef(f, q)
  BY <1>4, <1>5 DEF SumDef
<1> QED BY <1>4, <1>6

LEMMA QueueLenIs ==
  ASSUME NEW q, Counted(q)
  PROVE  \E f \in [0 .. Len(q) -> Nat] :
           f[0] = 0 /\ (\A i \in 1 .. Len(q) : f[i] = f[i - 1] + q[i].n) /\ QueueLen(q) = f[Len(q)]
<1>1. PICK g : g = CHOOSE f : SumDef(f, q)
  OBVIOUS
<1>2. SumDef(g, q)
  BY <1>1, SumExists
<1>3. QueueLen(q) = g[Len(q)]
  BY <1>1 DEF QueueLen, SumDef
<1>4. PICK h \in [0 .. Len(q) -> Nat] : SumDef(h, q)
  BY SumExists
<1>5. Len(q) \in Nat
  BY DEF Counted
<1>6. \A i \in 0 .. Len(q) : g[i] = IF i = 0 THEN 0 ELSE g[i - 1] + q[i].n
  BY <1>2 DEF SumDef
<1>7. \A i \in 0 .. Len(q) : h[i] = IF i = 0 THEN 0 ELSE h[i - 1] + q[i].n
  BY <1>4 DEF SumDef
<1> DEFINE G == {i \in Nat : i <= Len(q) => g[i] = h[i]}
<1>8. 0 \in G
  BY <1>5, <1>6, <1>7
<1>9. ASSUME NEW i \in 1 .. Len(q), i - 1 \in G PROVE i \in G
  BY <1>5, <1>6, <1>7, <1>9
<1>10. \A i \in 0 .. Len(q) : i \in G
  <2> HIDE DEF G
  <2> QED BY <1>5, <1>8, <1>9, StepsUp
<1>11. \A i \in 0 .. Len(q) : g[i] = h[i]
  BY <1>10, <1>5
<1>12. h[0] = 0 /\ \A i \in 1 .. Len(q) : h[i] = h[i - 1] + q[i].n
  BY <1>5, <1>7
<1>13. QueueLen(q) = h[Len(q)]
  BY <1>3, <1>5, <1>11
<1> QED BY <1>4, <1>12, <1>13

LEMMA QueueLenNat ==
  ASSUME NEW q, Counted(q)
  PROVE  QueueLen(q) \in Nat
<1>1. PICK f \in [0 .. Len(q) -> Nat] : QueueLen(q) = f[Len(q)]
  BY QueueLenIs
<1>2. Len(q) \in 0 .. Len(q)
  BY DEF Counted
<1> QED BY <1>1, <1>2

LEMMA QueueLenJoin ==
  ASSUME NEW a, NEW b, Counted(a), Counted(b)
  PROVE  Counted(a \o b) /\ QueueLen(a \o b) = QueueLen(a) + QueueLen(b)
<1>0. PICK n, m : n = Len(a) /\ m = Len(b)
  OBVIOUS
<1>1. n \in Nat /\ m \in Nat /\ a \in Seq(Segs) /\ b \in Seq(Segs)
  BY <1>0 DEF Counted
<1>2. /\ a \o b \in Seq(Segs) /\ Len(a \o b) = n + m
      /\ \A i \in 1 .. n : (a \o b)[i] = a[i]
      /\ \A i \in 1 .. m : (a \o b)[n + i] = b[i]
  BY <1>0, <1>1
<1>3. Counted(a \o b)
  BY <1>2 DEF Counted
<1>4. PICK s : s = a \o b
  OBVIOUS
<1>5. PICK f \in [0 .. n -> Nat] :
        f[0] = 0 /\ (\A i \in 1 .. n : f[i] = f[i - 1] + a[i].n) /\ QueueLen(a) = f[n]
  BY <1>0, QueueLenIs
<1>6. PICK g \in [0 .. m -> Nat] :
        g[0] = 0 /\ (\A i \in 1 .. m : g[i] = g[i - 1] + b[i].n) /\ QueueLen(b) = g[m]
  BY <1>0, QueueLenIs
<1>7. PICK h \in [0 .. n + m -> Nat] :
        h[0] = 0 /\ (\A i \in 1 .. n + m : h[i] = h[i - 1] + s[i].n) /\ QueueLen(s) = h[n + m]
  BY <1>2, <1>3, <1>4, QueueLenIs
<1> DEFINE G == {i \in Nat : i <= n => h[i] = f[i]}
<1>8. \A i \in 0 .. n : i \in G
  <2>1. 0 \in G
    BY <1>5, <1>7
  <2>2. ASSUME NEW i \in 1 .. n, i - 1 \in G PROVE i \in G
    <3>1. i \in 1 .. n + m /\ i - 1 \in Nat /\ i - 1 <= n
      BY <1>1
    <3>2. h[i] = h[i - 1] + s[i].n /\ s[i] = a[i] /\ f[i] = f[i - 1] + a[i].n /\ h[i - 1] = f[i - 1]
      BY <1>2, <1>4, <1>5, <1>7, <2>2, <3>1
    <3> QED BY <3>2
  <2> HIDE DEF G
  <2> QED BY <1>1, <2>1, <2>2, StepsUp
<1>9. h[n] = f[n]
  BY <1>1, <1>8
<1> DEFINE K == {i \in Nat : i <= m => h[n + i] = f[n] + g[i]}
<1>10. \A i \in 0 .. m : i \in K
  <2>0. f[n] \in Nat
    BY <1>1, <1>5
  <2>1. 0 \in K
    BY <1>1, <1>6, <1>9, <2>0
  <2>2. ASSUME NEW i \in 1 .. m, i - 1 \in K PROVE i \in K
    <3>1. n + i \in 1 .. n + m /\ i - 1 \in Nat /\ i - 1 <= m /\ (n + i) - 1 = n + (i - 1) /\ i - 1 \in 0 .. m
      BY <1>1
    <3>2. h[n + i] = h[(n + i) - 1] + s[n + i].n /\ h[n + (i - 1)] = f[n] + g[i - 1]
      BY <1>7, <2>2, <3>1
    <3>3. s[n + i] = b[i] /\ g[i] = g[i - 1] + b[i].n /\ g[i - 1] \in Nat /\ b[i].n \in Nat
      BY <1>0, <1>2, <1>4, <1>6, <3>1, SegN
    <3>4. h[n + i] = f[n] + g[i - 1] + b[i].n
      BY <3>1, <3>2, <3>3
    <3> QED BY <2>0, <3>3, <3>4
  <2> HIDE DEF K
  <2> QED BY <1>1, <2>1, <2>2, StepsUp
<1>11. h[n + m] = f[n] + g[m]
  BY <1>1, <1>10
<1> QED BY <1>3, <1>4, <1>5, <1>6, <1>7, <1>11

LEMMA QueueLenOne ==
  ASSUME NEW x \in Segs
  PROVE  Counted(<<x>>) /\ QueueLen(<<x>>) = x.n
<1>1. Counted(<<x>>) /\ Len(<<x>>) = 1
  BY DEF Counted
<1>2. PICK f \in [0 .. 1 -> Nat] :
        f[0] = 0 /\ (\A i \in 1 .. 1 : f[i] = f[i - 1] + <<x>>[i].n) /\ QueueLen(<<x>>) = f[1]
  BY <1>1, QueueLenIs
<1>3. f[1] = f[0] + <<x>>[1].n /\ x.n \in Nat
  BY <1>2 DEF Segs
<1> QED BY <1>1, <1>2, <1>3

LEMMA QueueLenNone == Counted(<<>>) /\ QueueLen(<<>>) = 0
<1>1. Counted(<<>>) /\ Len(<<>>) = 0
  BY DEF Counted
<1>2. PICK f \in [0 .. 0 -> Nat] : f[0] = 0 /\ QueueLen(<<>>) = f[0]
  BY <1>1, QueueLenIs
<1> QED BY <1>1, <1>2

(* QueueLen counts n and nothing else. *)
LEMMA QueueLenSame ==
  ASSUME NEW a, NEW b, Counted(a), Counted(b), Len(a) = Len(b),
         \A i \in 1 .. Len(a) : a[i].n = b[i].n
  PROVE  QueueLen(a) = QueueLen(b)
<1>0. PICK n : n = Len(a)
  OBVIOUS
<1>1. n \in Nat /\ n = Len(b)
  BY <1>0 DEF Counted
<1>5. PICK f \in [0 .. n -> Nat] :
        f[0] = 0 /\ (\A i \in 1 .. n : f[i] = f[i - 1] + a[i].n) /\ QueueLen(a) = f[n]
  BY <1>0, QueueLenIs
<1>6. PICK g \in [0 .. n -> Nat] :
        g[0] = 0 /\ (\A i \in 1 .. n : g[i] = g[i - 1] + b[i].n) /\ QueueLen(b) = g[n]
  BY <1>1, QueueLenIs
<1> DEFINE G == {i \in Nat : i <= n => f[i] = g[i]}
<1>8. \A i \in 0 .. n : i \in G
  <2>1. 0 \in G
    BY <1>5, <1>6
  <2>2. ASSUME NEW i \in 1 .. n, i - 1 \in G PROVE i \in G
    <3>1. i - 1 \in Nat /\ i - 1 <= n
      BY <1>1
    <3>2. g[i] = g[i - 1] + b[i].n /\ f[i] = f[i - 1] + a[i].n /\ g[i - 1] = f[i - 1] /\ a[i].n = b[i].n
      BY <1>0, <1>5, <1>6, <2>2, <3>1
    <3> QED BY <3>2
  <2> HIDE DEF G
  <2> QED BY <1>1, <2>1, <2>2, StepsUp
<1> QED BY <1>1, <1>5, <1>6, <1>8

LEMMA SplitIs ==
  ASSUME NEW S, NEW q \in Seq(S), NEW k \in 0 .. Len(q)
  PROVE  /\ SubSeq(q, 1, k) \in Seq(S) /\ Len(SubSeq(q, 1, k)) = k
         /\ \A i \in 1 .. k : SubSeq(q, 1, k)[i] = q[i]
         /\ Tail1(q, k) \in Seq(S) /\ Len(Tail1(q, k)) = Len(q) - k
         /\ \A i \in 1 .. Len(q) - k : Tail1(q, k)[i] = q[k + i]
         /\ q = SubSeq(q, 1, k) \o Tail1(q, k)
<1>1. Len(q) \in Nat /\ k \in Nat /\ k <= Len(q)
  OBVIOUS
<1>2. /\ SubSeq(q, 1, k) \in Seq(S) /\ Len(SubSeq(q, 1, k)) = k
      /\ \A i \in 1 .. k : SubSeq(q, 1, k)[i] = q[i]
  BY <1>1
<1>3. /\ Tail1(q, k) \in Seq(S) /\ Len(Tail1(q, k)) = Len(q) - k
      /\ \A i \in 1 .. Len(q) - k : Tail1(q, k)[i] = q[k + i]
  BY <1>1 DEF Tail1
<1>4. PICK a, b : a = SubSeq(q, 1, k) /\ b = Tail1(q, k)
  OBVIOUS
<1>5. a \o b \in Seq(S) /\ Len(a \o b) = Len(q)
  BY <1>1, <1>2, <1>3, <1>4
<1>6. \A i \in 1 .. Len(q) : (a \o b)[i] = q[i]
  <2> TAKE i \in 1 .. Len(q)
  <2>1. CASE i <= k
    BY <1>1, <1>2, <1>3, <1>4, <2>1
  <2>2. CASE i > k
    <3>1. i - k \in 1 .. Len(q) - k /\ k + (i - k) = i
      BY <1>1, <2>2
    <3>2. (a \o b)[i] = b[i - k]
      BY <1>1, <1>2, <1>3, <1>4, <2>2, <3>1
    <3> QED BY <1>3, <1>4, <3>1, <3>2
  <2>3. i <= k \/ i > k
    BY <1>1
  <2> QED BY <2>1, <2>2, <2>3
<1>7. q = a \o b
  BY <1>5, <1>6, SeqEqual
<1> QED BY <1>2, <1>3, <1>4, <1>7

LEMMA QueueLenSplit ==
  ASSUME NEW q, Counted(q), NEW k \in 0 .. Len(q)
  PROVE  /\ Counted(SubSeq(q, 1, k)) /\ Counted(Tail1(q, k))
         /\ QueueLen(q) = QueueLen(SubSeq(q, 1, k)) + QueueLen(Tail1(q, k))
<1>1. Counted(SubSeq(q, 1, k)) /\ Counted(Tail1(q, k)) /\ q = SubSeq(q, 1, k) \o Tail1(q, k)
  BY SplitIs DEF Counted
<1> QED BY <1>1, QueueLenJoin

LEMMA LeadIs ==
  ASSUME NEW S, NEW q \in Seq(S), NEW at, NEW k, k = Lead(q, at)
  PROVE  k \in 0 .. Len(q) /\ (\A i \in 1 .. k : i \in at) /\ (k < Len(q) => k + 1 \notin at)
<1> DEFINE T == {j \in 0 .. Len(q) : 1 .. j \subseteq at}
<1>1. Len(q) \in Nat /\ T \subseteq 0 .. Len(q) /\ 0 \in T
  OBVIOUS
<1>2. k = Max(T)
  BY DEF Lead
<1>3. k \in T /\ \A j \in T : j <= k
  BY <1>1, <1>2, GreatestOf
<1>4. k < Len(q) /\ k + 1 \in at => k + 1 \in T
  BY <1>1, <1>3
<1> QED BY <1>3, <1>4

-----------------------------------------------------------------------------
(* A segment of e, which has written w bytes and, if k, the end of its      *)
(* stream.  It begins at one of the places C where a segment was begun, and *)
(* reaches over no other.                                                   *)
SegOK(e, C, w, k, x) ==
  /\ x.seq \in Seqs /\ x.data \in Seq(Nat) /\ x.syn \in BOOLEAN /\ x.fin \in BOOLEAN
  /\ x.syn => Pos(e, x.seq) = 0 /\ x.data = <<>> /\ ~x.fin
  /\ ~x.syn => Pos(e, x.seq) >= 1
  /\ x.fin => x.data = <<>> /\ Pos(e, x.seq) = w + 1 /\ k
  /\ ~x.syn /\ ~x.fin => x.data # <<>>
  /\ \A i \in 1 .. Len(x.data) : x.data[i] = Pos(e, x.seq) - 1 + i
  /\ Pos(e, x.seq) + Len(x.data) <= w + 1
  /\ Pos(e, x.seq) \in C
  /\ \A a \in C : a <= Pos(e, x.seq) \/ a >= EndPos(e, x)

(* A queue of segments that holds the stream from lo to hi. *)
Queue(e, C, w, k, q, lo, hi) ==
  /\ q \in Seq(Segs) /\ lo \in Nat /\ hi \in Nat /\ lo <= hi
  /\ \A i \in 1 .. Len(q) : /\ SegOK(e, C, w, k, q[i]) /\ (q[i].syn => q[i].n = 1)
                            /\ lo <= Pos(e, q[i].seq) /\ EndPos(e, q[i]) <= hi
  /\ \A i, j \in 1 .. Len(q) : i < j => EndPos(e, q[i]) <= Pos(e, q[j].seq)
  /\ \A b \in lo .. hi - 1 : \E i \in 1 .. Len(q) : Pos(e, q[i].seq) <= b /\ b < EndPos(e, q[i])

(* e has written w bytes, or less than it may. *)
Writes(e, C, w, k) ==
  OneShortConnection /\ e \in Ends /\ C \in SUBSET Nat /\ w \in 0 .. MaxBytes[e] /\ k \in BOOLEAN

LEMMA WritesFit ==
  ASSUME NEW e, NEW C, NEW w, NEW k, Writes(e, C, w, k)
  PROVE  /\ w \in Nat /\ w + 2 < SeqSpace \div 2 /\ w + 2 < SeqSpace /\ e \in Ends
         /\ SeqSpace \in Nat /\ SeqSpace \div 2 \in Nat /\ C \subseteq Nat /\ k \in BOOLEAN
<1>1. MaxBytes[e] \in Nat /\ MaxBytes[e] + 2 < SeqSpace \div 2
  BY TcpConsts DEF Writes, OneShortConnection
<1>2. w \in Nat /\ w <= MaxBytes[e]
  BY <1>1 DEF Writes
<1> QED BY <1>1, <1>2, TcpConsts DEF Writes

LEMMA TcpLenIs ==
  ASSUME NEW x, x.data \in Seq(Nat), x.syn \in BOOLEAN, x.fin \in BOOLEAN
  PROVE  /\ Len(x.data) \in Nat /\ TcpLen(x) \in Nat
         /\ x.syn \/ x.fin => TcpLen(x) = Len(x.data) + 1
         /\ ~x.syn /\ ~x.fin => TcpLen(x) = Len(x.data)
<1>1. PICK n : n = Len(x.data)
  OBVIOUS
<1>2. n \in Nat
  BY <1>1
<1>3. TcpLen(x) = n + IF x.syn \/ x.fin THEN 1 ELSE 0
  BY <1>1 DEF TcpLen
<1>4. CASE x.syn \/ x.fin
  <2>1. TcpLen(x) = n + 1
    BY <1>3, <1>4
  <2>2. n + 1 \in Nat
    BY <1>2
  <2> QED BY <1>1, <1>2, <1>4, <2>1, <2>2
<1>5. CASE ~(x.syn \/ x.fin)
  BY <1>1, <1>2, <1>3, <1>5
<1> QED BY <1>4, <1>5

LEMMA SegFacts ==
  ASSUME NEW e, NEW C, NEW w, NEW k, Writes(e, C, w, k), NEW x, SegOK(e, C, w, k, x)
  PROVE  /\ Pos(e, x.seq) \in Nat /\ TcpLen(x) \in Nat /\ TcpLen(x) >= 1 /\ Len(x.data) \in Nat
         /\ EndPos(e, x) \in Nat /\ EndPos(e, x) > Pos(e, x.seq)
         /\ EndPos(e, x) <= w + 2 /\ (EndPos(e, x) = w + 2 => k)
         /\ (x.fin => EndPos(e, x) = w + 2 /\ Pos(e, x.seq) = w + 1 /\ TcpLen(x) = 1)
         /\ (~x.fin => EndPos(e, x) <= w + 1)
         /\ (x.syn => EndPos(e, x) = 1 /\ Pos(e, x.seq) = 0)
         /\ (~x.syn => Pos(e, x.seq) >= 1)
         /\ (~x.syn /\ ~x.fin => TcpLen(x) = Len(x.data))
         /\ SegEnd(x) \in Seqs /\ Pos(e, SegEnd(x)) = EndPos(e, x)
         /\ Pos(e, x.seq) <= w + 1 /\ x.seq \in Seqs
<1>1. w \in Nat /\ w + 2 < SeqSpace /\ e \in Ends /\ SeqSpace \in Nat
  BY WritesFit
<1>2. x.seq \in Seqs /\ x.data \in Seq(Nat) /\ x.syn \in BOOLEAN /\ x.fin \in BOOLEAN
  BY DEF SegOK
<1>3. PICK p, n, t : p = Pos(e, x.seq) /\ n = Len(x.data) /\ t = TcpLen(x)
  OBVIOUS
<1>4. p \in Nat
  BY <1>1, <1>2, <1>3, PosType
<1>5. n \in Nat /\ t \in Nat /\ (x.syn \/ x.fin => t = n + 1) /\ (~x.syn /\ ~x.fin => t = n)
  BY <1>2, <1>3, TcpLenIs
<1>6. /\ x.syn => p = 0 /\ n = 0 /\ ~x.fin
      /\ ~x.syn => p >= 1
      /\ x.fin => n = 0 /\ p = w + 1 /\ k
      /\ p + n <= w + 1
  BY <1>3 DEF SegOK
<1>7. ~x.syn /\ ~x.fin => n > 0
  <2>1. x.data # <<>> => Len(x.data) > 0
    BY <1>2
  <2> QED BY <1>3, <2>1 DEF SegOK
<1>8. /\ t >= 1 /\ p + t <= w + 2 /\ (p + t = w + 2 => k) /\ (x.fin => p + t = w + 2 /\ t = 1)
      /\ (~x.fin => p + t <= w + 1) /\ (x.syn => p + t = 1 /\ p = 0)
  BY <1>1, <1>2, <1>4, <1>5, <1>6, <1>7
<1>9. EndPos(e, x) = p + t
  BY <1>3 DEF EndPos
<1>10. SegEnd(x) \in Seqs /\ Pos(e, SegEnd(x)) = p + t
  <2>1. Pos(e, x.seq) + t < SeqSpace
    BY <1>1, <1>3, <1>4, <1>5, <1>8
  <2>2. Plus(x.seq, t) \in Seqs /\ Pos(e, Plus(x.seq, t)) = Pos(e, x.seq) + t
    BY <1>1, <1>2, <1>5, <2>1, PosPlus
  <2> QED BY <1>3, <2>2 DEF SegEnd
<1> QED BY <1>1, <1>2, <1>3, <1>4, <1>5, <1>6, <1>8, <1>9, <1>10

LEMMA SegLike ==
  ASSUME NEW e, NEW C, NEW w, NEW k, NEW x, SegOK(e, C, w, k, x),
         NEW y, y.seq = x.seq, y.data = x.data, y.syn = x.syn, y.fin = x.fin
  PROVE  SegOK(e, C, w, k, y) /\ EndPos(e, y) = EndPos(e, x) /\ TcpLen(y) = TcpLen(x) /\ SegEnd(y) = SegEnd(x)
<1>1. TcpLen(y) = TcpLen(x)
  BY DEF TcpLen
<1>2. EndPos(e, y) = EndPos(e, x) /\ SegEnd(y) = SegEnd(x)
  BY <1>1 DEF EndPos, SegEnd
<1>3. SegOK(e, C, w, k, y)
  BY <1>2 DEF SegOK
<1> QED BY <1>1, <1>2, <1>3

LEMMA SegGrows ==
  ASSUME NEW e, NEW C, NEW w, NEW k, Writes(e, C, w, k), NEW x, SegOK(e, C, w, k, x),
         NEW D, NEW v, NEW l, Writes(e, D, v, l), C \subseteq D, w <= v, k => l /\ v = w,
         \A a \in D \ C : a >= EndPos(e, x)
  PROVE  SegOK(e, D, v, l, x)
<1>1. w \in Nat /\ v \in Nat
  BY WritesFit
<1>2. Pos(e, x.seq) \in Nat /\ Len(x.data) \in Nat
  BY SegFacts
<1> QED BY <1>1, <1>2 DEF SegOK

LEMMA QueueNone ==
  ASSUME NEW e, NEW C, NEW w, NEW k, NEW lo \in Nat
  PROVE  Queue(e, C, w, k, <<>>, lo, lo)
BY DEF Queue

LEMMA QueueEmpty ==
  ASSUME NEW e, NEW C, NEW w, NEW k, NEW lo, NEW hi, Queue(e, C, w, k, <<>>, lo, hi)
  PROVE  lo = hi
<1>1. lo \in Nat /\ hi \in Nat /\ lo <= hi /\ ~(lo \in lo .. hi - 1)
  BY DEF Queue
<1> QED BY <1>1

LEMMA QueueOne ==
  ASSUME NEW e, NEW C, NEW w, NEW k, Writes(e, C, w, k), NEW x \in Segs, SegOK(e, C, w, k, x), x.syn => x.n = 1
  PROVE  Queue(e, C, w, k, <<x>>, Pos(e, x.seq), EndPos(e, x))
<1>1. Pos(e, x.seq) \in Nat /\ EndPos(e, x) \in Nat /\ EndPos(e, x) > Pos(e, x.seq)
  BY SegFacts
<1>2. <<x>> \in Seq(Segs) /\ Len(<<x>>) = 1 /\ <<x>>[1] = x
  OBVIOUS
<1> QED BY <1>1, <1>2 DEF Queue

LEMMA QueueJoin ==
  ASSUME NEW e, NEW C, NEW w, NEW k, Writes(e, C, w, k), NEW a, NEW b, NEW lo, NEW mid, NEW hi,
         Queue(e, C, w, k, a, lo, mid), Queue(e, C, w, k, b, mid, hi)
  PROVE  Queue(e, C, w, k, a \o b, lo, hi) /\ QueueLen(a \o b) = QueueLen(a) + QueueLen(b)
<1>0. PICK s, n, m : s = a \o b /\ n = Len(a) /\ m = Len(b)
  OBVIOUS
<1>1. a \in Seq(Segs) /\ b \in Seq(Segs) /\ lo \in Nat /\ mid \in Nat /\ hi \in Nat /\ lo <= mid /\ mid <= hi
      /\ n \in Nat /\ m \in Nat
  BY <1>0 DEF Queue
<1>2. s \in Seq(Segs) /\ Len(s) = n + m
      /\ (\A i \in 1 .. n : s[i] = a[i]) /\ (\A i \in 1 .. m : s[n + i] = b[i])
  BY <1>0, <1>1
<1>3. \A i \in 1 .. n + m : i \in 1 .. n \/ (i - n \in 1 .. m /\ s[i] = b[i - n])
  <2> TAKE i \in 1 .. n + m
  <2>1. i \in 1 .. n \/ (i - n \in 1 .. m /\ n + (i - n) = i)
    BY <1>1
  <2> QED BY <1>2, <2>1
<1>4. \A i \in 1 .. n : /\ SegOK(e, C, w, k, a[i]) /\ (a[i].syn => a[i].n = 1)
                        /\ lo <= Pos(e, a[i].seq) /\ EndPos(e, a[i]) <= mid
                        /\ Pos(e, a[i].seq) \in Nat /\ EndPos(e, a[i]) \in Nat
  BY <1>0, SegFacts DEF Queue
<1>5. \A i \in 1 .. m : /\ SegOK(e, C, w, k, b[i]) /\ (b[i].syn => b[i].n = 1)
                        /\ mid <= Pos(e, b[i].seq) /\ EndPos(e, b[i]) <= hi
                        /\ Pos(e, b[i].seq) \in Nat /\ EndPos(e, b[i]) \in Nat
  BY <1>0, SegFacts DEF Queue
<1>6. \A i \in 1 .. n + m : /\ SegOK(e, C, w, k, s[i]) /\ (s[i].syn => s[i].n = 1)
                            /\ lo <= Pos(e, s[i].seq) /\ EndPos(e, s[i]) <= hi
  <2> TAKE i \in 1 .. n + m
  <2>1. CASE i \in 1 .. n
    <3>1. s[i] = a[i]
      BY ONLY <1>2, <2>1
    <3>2. SegOK(e, C, w, k, a[i]) /\ (a[i].syn => a[i].n = 1)
      BY ONLY <1>4, <2>1
    <3>3. lo <= Pos(e, a[i].seq) /\ EndPos(e, a[i]) <= mid /\ EndPos(e, a[i]) \in Nat
      BY ONLY <1>4, <2>1
    <3>4. EndPos(e, a[i]) <= hi
      BY ONLY <1>1, <3>3
    <3> QED BY ONLY <3>1, <3>2, <3>3, <3>4
  <2>2. CASE i - n \in 1 .. m /\ s[i] = b[i - n]
    BY <1>1, <1>5, <2>2
  <2> QED BY <1>3, <2>1, <2>2
<1>7. \A i, j \in 1 .. n + m : i < j => EndPos(e, s[i]) <= Pos(e, s[j].seq)
  <2> SUFFICES ASSUME NEW i \in 1 .. n + m, NEW j \in 1 .. n + m, i < j
               PROVE  EndPos(e, s[i]) <= Pos(e, s[j].seq)
    OBVIOUS
  <2>1. CASE j \in 1 .. n
    <3>1. i \in 1 .. n
      BY <1>1, <2>1
    <3>2. EndPos(e, a[i]) <= Pos(e, a[j].seq)
      BY <1>0, <2>1, <3>1 DEF Queue
    <3> QED BY <1>2, <2>1, <3>1, <3>2
  <2>2. CASE j - n \in 1 .. m /\ s[j] = b[j - n]
    <3>1. CASE i \in 1 .. n
      <4>1. s[i] = a[i] /\ EndPos(e, a[i]) <= mid /\ EndPos(e, a[i]) \in Nat
        BY <1>2, <1>4, <3>1
      <4>2. mid <= Pos(e, b[j - n].seq) /\ Pos(e, b[j - n].seq) \in Nat
        BY <1>5, <2>2
      <4> QED BY <1>1, <2>2, <4>1, <4>2
    <3>2. CASE i - n \in 1 .. m /\ s[i] = b[i - n]
      <4>1. i - n < j - n
        BY <1>1
      <4>2. EndPos(e, b[i - n]) <= Pos(e, b[j - n].seq)
        BY <1>0, <2>2, <3>2, <4>1 DEF Queue
      <4> QED BY <2>2, <3>2, <4>2
    <3> QED BY <1>3, <3>1, <3>2
  <2> QED BY <1>3, <2>1, <2>2
<1>8. ASSUME NEW y \in lo .. hi - 1
      PROVE  \E i \in 1 .. n + m : Pos(e, s[i].seq) <= y /\ y < EndPos(e, s[i])
  <2>1. CASE y < mid
    <3>1. y \in lo .. mid - 1
      BY <1>1, <2>1
    <3>2. PICK i \in 1 .. n : Pos(e, a[i].seq) <= y /\ y < EndPos(e, a[i])
      BY <1>0, <3>1 DEF Queue
    <3>3. i \in 1 .. n + m /\ s[i] = a[i]
      <4>1. i \in 1 .. n
        OBVIOUS
      <4>2. i \in 1 .. n + m
        BY ONLY <1>1, <4>1
      <4>3. s[i] = a[i]
        BY ONLY <1>2, <4>1
      <4> QED BY <4>2, <4>3
    <3> QED BY <3>2, <3>3
  <2>2. CASE ~(y < mid)
    <3>1. y \in mid .. hi - 1
      BY <1>1, <2>2
    <3>2. PICK i \in 1 .. m : Pos(e, b[i].seq) <= y /\ y < EndPos(e, b[i])
      BY <1>0, <3>1 DEF Queue
    <3>3. n + i \in 1 .. n + m /\ s[n + i] = b[i]
      BY <1>1, <1>2
    <3> QED BY <3>2, <3>3
  <2> QED BY <2>1, <2>2
<1>9. Queue(e, C, w, k, s, lo, hi)
  <2>1. Len(s) = n + m /\ s \in Seq(Segs) /\ lo \in Nat /\ hi \in Nat /\ lo <= hi
    BY <1>1, <1>2
  <2> QED BY <1>6, <1>7, <1>8, <2>1 DEF Queue
<1>10. QueueLen(a \o b) = QueueLen(a) + QueueLen(b)
  BY <1>1, QueueLenJoin DEF Counted
<1> QED BY <1>0, <1>9, <1>10

LEMMA QueueSplit ==
  ASSUME NEW e, NEW C, NEW w, NEW k, Writes(e, C, w, k), NEW q, NEW lo, NEW hi,
         Queue(e, C, w, k, q, lo, hi), NEW r \in 0 .. Len(q)
  PROVE  \E mid \in Nat :
           /\ Queue(e, C, w, k, SubSeq(q, 1, r), lo, mid)
           /\ Queue(e, C, w, k, Tail1(q, r), mid, hi)
           /\ QueueLen(q) = QueueLen(SubSeq(q, 1, r)) + QueueLen(Tail1(q, r))
<1>0. PICK a, b, n : a = SubSeq(q, 1, r) /\ b = Tail1(q, r) /\ n = Len(q)
  OBVIOUS
<1>1. q \in Seq(Segs) /\ lo \in Nat /\ hi \in Nat /\ lo <= hi /\ n \in Nat /\ r \in Nat /\ r <= n
  BY <1>0 DEF Queue
<1>2. /\ a \in Seq(Segs) /\ Len(a) = r /\ (\A i \in 1 .. r : a[i] = q[i])
      /\ b \in Seq(Segs) /\ Len(b) = n - r /\ (\A i \in 1 .. n - r : b[i] = q[r + i])
  BY <1>0, <1>1, SplitIs
<1>3. \A i \in 1 .. n : /\ SegOK(e, C, w, k, q[i]) /\ (q[i].syn => q[i].n = 1)
                        /\ lo <= Pos(e, q[i].seq) /\ EndPos(e, q[i]) <= hi
                        /\ Pos(e, q[i].seq) \in Nat /\ EndPos(e, q[i]) \in Nat
                        /\ Pos(e, q[i].seq) < EndPos(e, q[i])
  BY <1>0, SegFacts DEF Queue
<1>4. \A i, j \in 1 .. n : i < j => EndPos(e, q[i]) <= Pos(e, q[j].seq)
  BY <1>0 DEF Queue
<1>5. PICK mid : mid = IF r = n THEN hi ELSE Pos(e, q[r + 1].seq)
  OBVIOUS
<1>6. r # n => r + 1 \in 1 .. n
  BY <1>1
<1>7. mid \in Nat /\ lo <= mid /\ mid <= hi
  <2>1. CASE r = n
    BY <1>1, <1>5, <2>1
  <2>2. CASE r # n
    BY <1>1, <1>3, <1>5, <1>6, <2>2
  <2> QED BY <2>1, <2>2
<1>8. \A i \in 1 .. r : EndPos(e, q[i]) <= mid
  <2> TAKE i \in 1 .. r
  <2>1. i \in 1 .. n
    BY <1>1
  <2>2. CASE r = n
    BY <1>3, <1>5, <2>1, <2>2
  <2>3. CASE r # n
    <3>1. i < r + 1
      BY <1>1
    <3> QED BY <1>4, <1>5, <1>6, <2>1, <2>3, <3>1
  <2> QED BY <2>2, <2>3
<1>9. \A i \in 1 .. n : i > r => mid <= Pos(e, q[i].seq)
  <2> SUFFICES ASSUME NEW i \in 1 .. n, i > r PROVE mid <= Pos(e, q[i].seq)
    OBVIOUS
  <2>1. r # n
    BY <1>1
  <2>2. CASE i = r + 1
    BY <1>1, <1>3, <1>5, <1>6, <2>1, <2>2
  <2>3. CASE i # r + 1
    <3>1. r + 1 < i
      BY <1>1, <2>3
    <3>2. EndPos(e, q[r + 1]) <= Pos(e, q[i].seq)
      BY <1>4, <1>6, <2>1, <3>1
    <3>3. Pos(e, q[r + 1].seq) < EndPos(e, q[r + 1]) /\ mid = Pos(e, q[r + 1].seq)
      BY <1>3, <1>5, <1>6, <2>1
    <3> QED BY <1>3, <1>6, <1>7, <2>1, <3>2, <3>3
  <2> QED BY <2>2, <2>3
<1>10. Queue(e, C, w, k, a, lo, mid)
  <2>1. \A i \in 1 .. r : i \in 1 .. n
    BY <1>1
  <2>2. \A y \in lo .. mid - 1 : \E i \in 1 .. r : Pos(e, a[i].seq) <= y /\ y < EndPos(e, a[i])
    <3> TAKE y \in lo .. mid - 1
    <3>1. y \in lo .. hi - 1
      BY <1>1, <1>7
    <3>2. PICK i \in 1 .. n : Pos(e, q[i].seq) <= y /\ y < EndPos(e, q[i])
      BY <1>0, <3>1 DEF Queue
    <3>3. ~(i > r)
      BY <1>3, <1>7, <1>9, <3>2
    <3>4. i \in 1 .. r
      BY <1>1, <3>3
    <3> QED BY <1>2, <3>2, <3>4
  <2>3. \A i \in 1 .. r : /\ SegOK(e, C, w, k, a[i]) /\ (a[i].syn => a[i].n = 1)
                        /\ lo <= Pos(e, a[i].seq) /\ EndPos(e, a[i]) <= mid
    BY <1>2, <1>3, <1>8, <2>1
  <2>4. \A i, j \in 1 .. r : i < j => EndPos(e, a[i]) <= Pos(e, a[j].seq)
    BY <1>2, <1>4, <2>1
  <2> QED BY <1>1, <1>2, <1>7, <2>2, <2>3, <2>4 DEF Queue
<1>11. Queue(e, C, w, k, b, mid, hi)
  <2>1. \A i \in 1 .. n - r : r + i \in 1 .. n /\ r + i > r
    BY <1>1
  <2>2. \A y \in mid .. hi - 1 : \E i \in 1 .. n - r : Pos(e, b[i].seq) <= y /\ y < EndPos(e, b[i])
    <3> TAKE y \in mid .. hi - 1
    <3>1. y \in lo .. hi - 1
      BY <1>1, <1>7
    <3>2. PICK i \in 1 .. n : Pos(e, q[i].seq) <= y /\ y < EndPos(e, q[i])
      BY <1>0, <3>1 DEF Queue
    <3>3. ~(i \in 1 .. r)
      BY <1>3, <1>7, <1>8, <3>2
    <3>4. i - r \in 1 .. n - r /\ r + (i - r) = i
      BY <1>1, <3>3
    <3>5. b[i - r] = q[i]
      BY <1>2, <3>4
    <3> QED BY <3>2, <3>4, <3>5
  <2>3. \A i, j \in 1 .. n - r : i < j => EndPos(e, b[i]) <= Pos(e, b[j].seq)
    <3> SUFFICES ASSUME NEW i \in 1 .. n - r, NEW j \in 1 .. n - r, i < j
                 PROVE EndPos(e, b[i]) <= Pos(e, b[j].seq)
      OBVIOUS
    <3>1. r + i < r + j
      BY <1>1
    <3> QED BY <1>2, <1>4, <2>1, <3>1
  <2>4. \A i \in 1 .. n - r : /\ SegOK(e, C, w, k, b[i]) /\ (b[i].syn => b[i].n = 1)
                        /\ mid <= Pos(e, b[i].seq) /\ EndPos(e, b[i]) <= hi
    <3> TAKE i \in 1 .. n - r
    <3>1. b[i] = q[r + i] /\ r + i \in 1 .. n /\ mid <= Pos(e, q[r + i].seq)
      BY <1>2, <1>9, <2>1
    <3> QED BY <1>3, <3>1
  <2> QED BY <1>1, <1>2, <1>7, <2>2, <2>3, <2>4 DEF Queue
<1>12. QueueLen(q) = QueueLen(SubSeq(q, 1, r)) + QueueLen(Tail1(q, r))
  BY <1>1, QueueLenSplit DEF Counted
<1> QED BY <1>0, <1>7, <1>10, <1>11, <1>12

LEMMA QueueGrows ==
  ASSUME NEW e, NEW C, NEW w, NEW k, Writes(e, C, w, k), NEW q, NEW lo, NEW hi, Queue(e, C, w, k, q, lo, hi),
         NEW D, NEW v, NEW l, Writes(e, D, v, l), C \subseteq D, w <= v, k => l /\ v = w,
         \A a \in D \ C : a >= hi
  PROVE  Queue(e, D, v, l, q, lo, hi)
<1>1. ASSUME NEW i \in 1 .. Len(q) PROVE SegOK(e, D, v, l, q[i])
  <2>1. SegOK(e, C, w, k, q[i]) /\ EndPos(e, q[i]) <= hi /\ hi \in Nat
    BY DEF Queue
  <2>2. EndPos(e, q[i]) \in Nat /\ D \subseteq Nat
    BY <2>1, SegFacts, WritesFit
  <2>3. \A a \in D \ C : a >= EndPos(e, q[i])
    BY <2>1, <2>2
  <2> QED BY <2>1, <2>3, SegGrows
<1> QED BY <1>1 DEF Queue

(* The ACK flag of a queued segment is set when it is sent. *)
LEMMA QueueLike ==
  ASSUME NEW e, NEW C, NEW w, NEW k, NEW q, NEW lo, NEW hi, Queue(e, C, w, k, q, lo, hi),
         NEW r \in Seq(Segs), Len(r) = Len(q),
         \A i \in 1 .. Len(q) : r[i].seq = q[i].seq /\ r[i].data = q[i].data /\ r[i].syn = q[i].syn
                                /\ r[i].fin = q[i].fin /\ r[i].n = q[i].n
  PROVE  Queue(e, C, w, k, r, lo, hi) /\ QueueLen(r) = QueueLen(q)
<1>1. q \in Seq(Segs)
  BY DEF Queue
<1>2. QueueLen(r) = QueueLen(q)
  BY <1>1, QueueLenSame DEF Counted
<1>3. \A i \in 1 .. Len(q) : SegOK(e, C, w, k, r[i]) /\ EndPos(e, r[i]) = EndPos(e, q[i])
  <2> TAKE i \in 1 .. Len(q)
  <2>1. SegOK(e, C, w, k, q[i])
    BY DEF Queue
  <2> QED BY <2>1, SegLike
<1> QED BY <1>2, <1>3 DEF Queue

-----------------------------------------------------------------------------
Fields == {"state", "rcv_nxt", "rcv_wnd", "delay", "gotfin", "lastack", "snd_nxt", "snd_max",
  "snd_lbb", "snd_wnd", "snd_wl1", "snd_wl2", "cwnd", "dupacks", "infr", "nrtx", "snd_buf", "qlen",
  "unsent", "unacked", "ooseq", "pend", "out", "attached", "got", "held", "eof", "err", "written",
  "closing"}
Pcb(c) == c = [f \in Fields |-> c[f]]

Open == {"SYN_SENT", "SYN_RCVD", "ESTABLISHED", "CLOSE_WAIT"}
Synced == Active \ {"SYN_SENT"}

(* Where an end stands: itself e and its peer p, the places C and Cp where   *)
(* each began a segment, the w bytes the peer has written, whether (k) it    *)
(* has closed, and what it may have acknowledged, lp at most.                *)
Env(g) ==
  /\ OneShortConnection
  /\ g.e \in Ends /\ g.p = Peer(g.e) /\ g.C \in SUBSET Nat /\ g.Cp \in SUBSET Nat
  /\ g.w \in 0 .. MaxBytes[g.p] /\ g.k \in BOOLEAN /\ g.lp \in Nat

(* The unacknowledged and the unsent segments hold what is not acknowledged. *)
Sending(e, C, w, k, a, u, la, lb) ==
  \E lo, mid \in Nat :
    /\ Queue(e, C, w, k, a, lo, mid) /\ Queue(e, C, w, k, u, mid, lb) /\ lo <= la
    /\ \A i \in 1 .. Len(a) : la < EndPos(e, a[i])
    /\ \A i \in 1 .. Len(u) : la < EndPos(e, u[i])

Used(g, c) == IF g.e = "client" /\ c.state # "SYN_SENT" THEN 1 ELSE 0

Snd(g, c) ==
  /\ c.lastack \in Seqs /\ c.snd_max \in Seqs /\ c.snd_lbb \in Seqs /\ c.snd_buf \in Int
  /\ Pos(g.e, c.lastack) <= Pos(g.e, c.snd_max) /\ Pos(g.e, c.snd_max) <= Pos(g.e, c.snd_lbb)
  /\ Pos(g.e, c.lastack) <= g.lp
  /\ Pos(g.e, c.snd_lbb) = c.written + IF c.state \in Open THEN 1 ELSE 2
  /\ \A a \in g.C : a < Pos(g.e, c.snd_lbb)
  /\ c.qlen = QueueLen(c.unsent) + QueueLen(c.unacked)
  /\ (c.snd_buf + (Pos(g.e, c.snd_lbb) - Pos(g.e, c.lastack))) % BufMod = TcpSndBuf - Used(g, c)
  /\ Sending(g.e, g.C, c.written, c.closing, c.unacked, c.unsent,
             Pos(g.e, c.lastack), Pos(g.e, c.snd_lbb))

OoSegs == [seq : Seqs, data : Seq(Nat), fin : BOOLEAN, syn : BOOLEAN]

(* The bytes of the peer before position r. *)
Upto(g, r) == IF r = g.w + 2 THEN g.w ELSE r - 1

Early(g, c, r) ==
  /\ c.ooseq \in Seq(OoSegs)
  /\ \A i \in 1 .. Len(c.ooseq) :
       SegOK(g.p, g.Cp, g.w, g.k, c.ooseq[i]) /\ Pos(g.p, c.ooseq[i].seq) > r
  /\ \A i, j \in 1 .. Len(c.ooseq) : i < j => Pos(g.p, c.ooseq[i].seq) < Pos(g.p, c.ooseq[j].seq)

Rcv(g, c) ==
  /\ Pos(g.p, c.rcv_nxt) >= 1 /\ (Pos(g.p, c.rcv_nxt) = g.w + 2 => g.k)
  /\ c.pend \in Seq(Nat)
  /\ c.attached => /\ Len(c.got) + Len(c.pend) = Upto(g, Pos(g.p, c.rcv_nxt))
                   /\ \A i \in 1 .. Len(c.pend) : c.pend[i] = Len(c.got) + i
  /\ c.gotfin => Pos(g.p, c.rcv_nxt) = g.w + 2
  /\ Early(g, c, Pos(g.p, c.rcv_nxt))

Starting(g, c) ==
  /\ g.e = "client" /\ ~c.delay /\ c.held = 0 /\ ~c.gotfin /\ c.ooseq = <<>> /\ c.pend = <<>>
  /\ c.got = <<>> /\ Pos(g.e, c.lastack) = 0 /\ c.unacked # <<>> /\ c.unacked[1].syn
  /\ Pos(g.e, c.snd_max) >= 1
  /\ \A i \in 1 .. Len(c.unsent) : ~c.unsent[i].ack
  /\ \A i \in 1 .. Len(c.unacked) : ~c.unacked[i].ack

Accepting(g, c) ==
  g.e = "server" /\ ~c.gotfin /\ Pos(g.p, c.rcv_nxt) = 1 /\ c.got = <<>> /\ c.pend = <<>>

Life(g, c) ==
  /\ c.state \in States /\ c.written \in 0 .. MaxBytes[g.e] /\ g.lp <= c.written + 2
  /\ c.attached \in BOOLEAN /\ c.delay \in BOOLEAN /\ c.closing \in BOOLEAN /\ c.gotfin \in BOOLEAN
  /\ c.state = "CLOSED" => g.e = "server" \/ c.err \/ c.closing
  /\ c.state \in Open => ~c.closing /\ (c.attached <=> c.state # "SYN_RCVD")
  /\ c.state \in States \ ({"CLOSED"} \cup Open) => c.closing
  /\ c.state = "SYN_SENT" => Starting(g, c)
  /\ c.state = "SYN_RCVD" => Accepting(g, c)
  /\ c.state # "CLOSED" =>
       c.snd_nxt \in Seqs /\ Pos(g.e, c.snd_nxt) <= c.written + 2 /\ c.rcv_nxt \in Seqs
  /\ c.state \notin {"CLOSED", "SYN_SENT"} => Pos(g.p, c.rcv_nxt) <= g.w + 2

Heard(g, c) ==
  /\ c.got \in Seq(Nat) /\ Len(c.got) <= g.w
  /\ \A i \in 1 .. Len(c.got) : c.got[i] = i
  /\ c.eof => g.k /\ Len(c.got) = g.w

(* What c may have acknowledged. *)
Lim(g, c) == IF c.state \in Synced THEN Pos(g.p, c.rcv_nxt)
             ELSE IF c.state = "SYN_SENT" THEN 1 ELSE g.w + 2

WireRec(s) == s = [f \in {"seq", "data", "syn", "fin", "rst", "ack", "ackno", "wnd"} |-> s[f]]

WireOK(e, C, w, k, lim, s) ==
  /\ WireRec(s)
  /\ s.seq \in Seqs /\ s.ackno \in Seqs /\ s.data \in Seq(Nat)
  /\ s.syn \in BOOLEAN /\ s.fin \in BOOLEAN /\ s.rst \in BOOLEAN /\ s.ack \in BOOLEAN
  /\ ~s.rst => \/ s.data = <<>> /\ ~s.syn /\ ~s.fin /\ Pos(e, s.seq) <= w + 2
               \/ SegOK(e, C, w, k, s)
  /\ ~s.rst /\ s.ack => Pos(Peer(e), s.ackno) <= lim

Sends(g, c, s) == WireOK(g.e, g.C, c.written, c.closing, Lim(g, c), s)

Ok(g, c) ==
  /\ Pcb(c) /\ Life(g, c) /\ Heard(g, c)
  /\ c.state \in Active => Snd(g, c)
  /\ c.state \in Synced => Rcv(g, c)
  /\ \A s \in c.out : Sends(g, c, s)

(* d is well formed if c is, and acknowledges no less. *)
Kept(g, c, d) ==
  Ok(g, d) /\ Lim(g, c) <= Lim(g, d) /\ d.written = c.written /\ d.closing = c.closing

-----------------------------------------------------------------------------
LEMMA EnvFacts ==
  ASSUME NEW g, Env(g)
  PROVE  /\ g.e \in Ends /\ g.p \in Ends /\ g.p = Peer(g.e) /\ g.e = Peer(g.p)
         /\ Writes(g.p, g.Cp, g.w, g.k) /\ g.w \in Nat /\ g.lp \in Nat /\ g.k \in BOOLEAN
         /\ g.C \subseteq Nat /\ g.Cp \subseteq Nat
         /\ g.w + 2 < SeqSpace \div 2 /\ g.w + 2 < SeqSpace /\ SeqSpace \in Nat
<1>1. g.e \in Ends /\ g.p \in Ends /\ g.p = Peer(g.e) /\ g.e = Peer(g.p)
  BY PeerIs DEF Env
<1>2. Writes(g.p, g.Cp, g.w, g.k)
  BY <1>1 DEF Env, Writes
<1> QED BY <1>1, <1>2, WritesFit DEF Env

LEMMA StateSets ==
  /\ Active \subseteq States /\ Synced \subseteq Active /\ Open \subseteq Active
  /\ "CLOSED" \notin Active /\ "TIME_WAIT" \notin Active /\ "SYN_SENT" \notin Synced
  /\ \A s \in States : s \in Synced <=> s \notin {"CLOSED", "TIME_WAIT", "SYN_SENT"}
BY DEF Active, Synced, Open, States

LEMMA OkFacts ==
  ASSUME NEW g, NEW c, Env(g), Ok(g, c)
  PROVE  /\ Writes(g.e, g.C, c.written, c.closing) /\ c.written \in Nat
         /\ c.state \in States /\ c.attached \in BOOLEAN /\ c.delay \in BOOLEAN
         /\ c.closing \in BOOLEAN /\ c.gotfin \in BOOLEAN
         /\ c.written + 2 < SeqSpace \div 2 /\ c.written + 2 < SeqSpace
         /\ (c.state # "CLOSED" => c.rcv_nxt \in Seqs /\ Pos(g.p, c.rcv_nxt) \in Nat)
         /\ Lim(g, c) \in Nat
<1>1. Writes(g.e, g.C, c.written, c.closing)
  BY DEF Ok, Life, Env, Writes
<1>2. c.state # "CLOSED" => c.rcv_nxt \in Seqs /\ Pos(g.p, c.rcv_nxt) \in Nat
  BY EnvFacts, PosType DEF Ok, Life
<1>3. Lim(g, c) \in Nat
  <2>1. c.state \in Synced => c.state # "CLOSED"
    BY StateSets
  <2>2. g.w \in Nat
    BY EnvFacts
  <2> QED BY <1>2, <2>1, <2>2 DEF Lim
<1>4. /\ c.state \in States /\ c.attached \in BOOLEAN /\ c.delay \in BOOLEAN
      /\ c.closing \in BOOLEAN /\ c.gotfin \in BOOLEAN
  BY DEF Ok, Life
<1> QED BY <1>1, <1>2, <1>3, <1>4, WritesFit

LEMMA KeptRefl ==
  ASSUME NEW g, NEW c, Env(g), Ok(g, c)
  PROVE  Kept(g, c, c)
<1>1. Lim(g, c) \in Nat
  BY OkFacts
<1> QED BY <1>1 DEF Kept

LEMMA KeptTrans ==
  ASSUME NEW g, NEW c, NEW d, NEW f, Env(g), Ok(g, c), Kept(g, c, d), Kept(g, d, f)
  PROVE  Kept(g, c, f)
<1>1. Lim(g, c) \in Nat /\ Lim(g, d) \in Nat /\ Lim(g, f) \in Nat
  BY OkFacts DEF Kept
<1> QED BY <1>1 DEF Kept

LEMMA WireLater ==
  ASSUME NEW e \in Ends, NEW C, NEW w, NEW k, NEW a \in Nat, NEW b \in Nat, a <= b, NEW s, WireOK(e, C, w, k, a, s)
  PROVE  WireOK(e, C, w, k, b, s)
<1>1. Pos(Peer(e), s.ackno) \in Nat
  BY PosType, PeerIs DEF WireOK
<1> QED BY <1>1 DEF WireOK

SameSnd(c, d) ==
  /\ d.lastack = c.lastack /\ d.snd_max = c.snd_max /\ d.snd_lbb = c.snd_lbb
  /\ d.snd_buf = c.snd_buf /\ d.qlen = c.qlen /\ d.unsent = c.unsent /\ d.unacked = c.unacked
  /\ d.written = c.written /\ d.closing = c.closing
SameRcv(c, d) ==
  /\ d.rcv_nxt = c.rcv_nxt /\ d.pend = c.pend /\ d.attached = c.attached /\ d.got = c.got
  /\ d.gotfin = c.gotfin /\ d.ooseq = c.ooseq
SameApp(c, d) ==
  d.got = c.got /\ d.eof = c.eof /\ (c.err => d.err)

LEMMA SndSame ==
  ASSUME NEW g, NEW c, NEW d, Snd(g, c), SameSnd(c, d),
         d.state \in Open <=> c.state \in Open, d.state = "SYN_SENT" <=> c.state = "SYN_SENT"
  PROVE  Snd(g, d)
<1>1. Used(g, d) = Used(g, c)
  BY DEF Used
<1> QED BY <1>1 DEF Snd, SameSnd

LEMMA RcvSame ==
  ASSUME NEW g, NEW c, NEW d, Rcv(g, c), SameRcv(c, d)
  PROVE  Rcv(g, d)
<1>1. Early(g, d, Pos(g.p, d.rcv_nxt))
  BY DEF Rcv, Early, SameRcv
<1> QED BY <1>1 DEF Rcv, SameRcv

LEMMA HeardSame ==
  ASSUME NEW g, NEW c, NEW d, Heard(g, c), SameApp(c, d)
  PROVE  Heard(g, d)
BY DEF Heard, SameApp

LEMMA OutSame ==
  ASSUME NEW g, NEW c, NEW d, Env(g), Ok(g, c), Lim(g, c) <= Lim(g, d), Lim(g, d) \in Nat,
         d.written = c.written, d.closing = c.closing, NEW s \in c.out
  PROVE  Sends(g, d, s)
<1>1. WireOK(g.e, g.C, c.written, c.closing, Lim(g, c), s) /\ Lim(g, c) \in Nat /\ g.e \in Ends
  BY OkFacts, EnvFacts DEF Ok, Sends
<1> QED BY <1>1, WireLater DEF Sends

(* The fields the invariant is about, except delay and out *)
Same(c, d) ==
  SameSnd(c, d) /\ SameRcv(c, d) /\ SameApp(c, d) /\ d.state = c.state /\ d.snd_nxt = c.snd_nxt

LEMMA OkSame ==
  ASSUME NEW g, NEW c, NEW d, Env(g), Ok(g, c), Pcb(d), Same(c, d), d.delay \in BOOLEAN,
         c.state = "SYN_SENT" => ~d.delay /\ d.held = c.held,
         \A s \in d.out : s \in c.out \/ Sends(g, d, s)
  PROVE  Kept(g, c, d)
<1>1. Lim(g, d) = Lim(g, c) /\ Lim(g, c) \in Nat
  BY OkFacts DEF Lim, Same, SameRcv
<1>2. d.written = c.written /\ d.closing = c.closing /\ d.state = c.state
  BY DEF Same, SameSnd
<1>3. Lim(g, c) <= Lim(g, d)
  BY <1>1
<1>4. \A s \in d.out : Sends(g, d, s)
  BY <1>1, <1>2, <1>3, OutSame
<1>5. Heard(g, d)
  BY HeardSame DEF Ok, Same
<1>6. d.state \in Active => Snd(g, d)
  BY <1>2, SndSame DEF Ok, Same
<1>7. d.state \in Synced => Rcv(g, d)
  BY <1>2, RcvSame DEF Ok, Same
<1>8. Life(g, d)
  <2>1. c.state = "SYN_SENT" => Starting(g, d)
    BY DEF Ok, Life, Starting, Same, SameSnd, SameRcv
  <2>2. c.state = "SYN_RCVD" => Accepting(g, d)
    BY DEF Ok, Life, Accepting, Same, SameSnd, SameRcv
  <2> QED BY <2>1, <2>2 DEF Ok, Life, Same, SameSnd, SameRcv, SameApp
<1> QED BY <1>2, <1>3, <1>4, <1>5, <1>6, <1>7, <1>8 DEF Ok, Kept

-----------------------------------------------------------------------------
LEMMA SendIs ==
  ASSUME NEW c, Pcb(c), NEW s, NEW d, d = Send(c, s)
  PROVE  Pcb(d) /\ Same(c, d) /\ d.delay = c.delay /\ d.held = c.held /\ d.out = c.out \cup {s}
BY DEF Send, Pcb, Fields, Same, SameSnd, SameRcv, SameApp

LEMMA AckNowIs ==
  ASSUME NEW c, Pcb(c), NEW d, d = AckNow(c)
  PROVE  /\ Pcb(d) /\ Same(c, d) /\ d.delay = FALSE /\ d.held = c.held
         /\ d.out = c.out \cup {PureAck(c)}
<1>1. PICK b : b = [c EXCEPT !.delay = FALSE]
  OBVIOUS
<1>2. Pcb(b) /\ Same(c, b) /\ b.delay = FALSE /\ b.held = c.held /\ b.out = c.out
  BY <1>1 DEF Pcb, Fields, Same, SameSnd, SameRcv, SameApp
<1>3. d = Send(b, PureAck(c))
  BY <1>1 DEF AckNow
<1>4. Pcb(d) /\ Same(b, d) /\ d.delay = b.delay /\ d.held = b.held /\ d.out = b.out \cup {PureAck(c)}
  BY <1>2, <1>3, SendIs
<1> QED BY <1>2, <1>4 DEF Same, SameSnd, SameRcv, SameApp

LEMMA SendsSame ==
  ASSUME NEW g, NEW c, NEW d, Same(c, d), NEW s, Sends(g, c, s)
  PROVE  Sends(g, d, s)
<1>1. Lim(g, d) = Lim(g, c)
  BY DEF Lim, Same, SameRcv
<1> QED BY <1>1 DEF Sends, Same, SameSnd

LEMMA PureAckOk ==
  ASSUME NEW g, NEW c, Env(g), Ok(g, c), c.state \notin {"CLOSED", "SYN_SENT"}
  PROVE  Sends(g, c, PureAck(c))
<1>1. PICK s : s = PureAck(c)
  OBVIOUS
<1>2. /\ s.seq = c.snd_nxt /\ s.data = <<>> /\ s.syn = FALSE /\ s.fin = FALSE /\ s.rst = FALSE
      /\ s.ack = TRUE /\ s.ackno = c.rcv_nxt
  BY <1>1 DEF PureAck
<1>3. c.snd_nxt \in Seqs /\ Pos(g.e, c.snd_nxt) <= c.written + 2 /\ c.rcv_nxt \in Seqs
      /\ Pos(g.p, c.rcv_nxt) <= g.w + 2
  BY DEF Ok, Life
<1>4. Pos(g.p, c.rcv_nxt) <= Lim(g, c)
  <2>1. c.state # "SYN_SENT" /\ Pos(g.p, c.rcv_nxt) \in Nat
    BY OkFacts
  <2> QED BY <1>3, <2>1 DEF Lim
<1>5. Peer(g.e) = g.p
  BY EnvFacts
<1>6. WireOK(g.e, g.C, c.written, c.closing, Lim(g, c), s)
  <2>1. s.syn \in BOOLEAN /\ s.fin \in BOOLEAN /\ s.rst \in BOOLEAN /\ s.ack \in BOOLEAN /\ s.data \in Seq(Nat)
    <3>1. s.data \in Seq(Nat)
      BY <1>2
    <3>2. s.syn \in BOOLEAN /\ s.fin \in BOOLEAN /\ s.rst \in BOOLEAN /\ s.ack \in BOOLEAN
      BY <1>2, Zenon
    <3> QED BY <3>1, <3>2
  <2>2. ~s.syn /\ ~s.fin /\ s.data = <<>>
    BY <1>2
  <2>3. s.seq \in Seqs /\ s.ackno \in Seqs /\ Pos(g.e, s.seq) <= c.written + 2
        /\ Pos(Peer(g.e), s.ackno) <= Lim(g, c)
    BY <1>2, <1>3, <1>4, <1>5
  <2>4. WireRec(s)
    BY <1>1 DEF PureAck, WireRec
  <2> QED BY <2>1, <2>2, <2>3, <2>4 DEF WireOK
<1> QED BY <1>1, <1>6 DEF Sends

LEMMA AckNowOk ==
  ASSUME NEW g, NEW c, Env(g), Ok(g, c), c.state \notin {"CLOSED", "SYN_SENT"}, NEW d, d = AckNow(c)
  PROVE  Kept(g, c, d) /\ Same(c, d)
<1>1. Pcb(c) /\ Sends(g, c, PureAck(c))
  BY PureAckOk DEF Ok
<1>2. /\ Pcb(d) /\ Same(c, d) /\ d.delay = FALSE /\ d.held = c.held
      /\ d.out = c.out \cup {PureAck(c)}
  BY <1>1, AckNowIs
<1>3. \A s \in d.out : s \in c.out \/ Sends(g, d, s)
  BY <1>1, <1>2, SendsSame
<1> QED BY <1>2, <1>3, OkSame

LEMMA AckOk ==
  ASSUME NEW g, NEW c, Env(g), Ok(g, c), c.state \notin {"CLOSED", "SYN_SENT"}, NEW d, d = Ack(c)
  PROVE  Kept(g, c, d) /\ Same(c, d)
<1>1. CASE c.delay
  <2>1. d = AckNow(c)
    BY <1>1 DEF Ack
  <2> QED BY <2>1, AckNowOk
<1>2. CASE ~c.delay
  <2>1. d = [c EXCEPT !.delay = TRUE]
    BY <1>2 DEF Ack
  <2>2. Pcb(d) /\ Same(c, d) /\ d.delay = TRUE /\ d.out = c.out
    BY <2>1 DEF Ok, Pcb, Fields, Same, SameSnd, SameRcv, SameApp
  <2> QED BY <2>2, OkSame
<1> QED BY <1>1, <1>2

LEMMA WireOk ==
  ASSUME NEW g, NEW c, Env(g), Ok(g, c), c.state \in Active, NEW x,
         SegOK(g.e, g.C, c.written, c.closing, x), x.ack \in BOOLEAN, c.state = "SYN_SENT" => ~x.ack, NEW w
  PROVE  Sends(g, c, Wire(c, x, w))
<1>1. PICK s : s = Wire(c, x, w)
  OBVIOUS
<1>2. /\ s.seq = x.seq /\ s.data = x.data /\ s.syn = x.syn /\ s.fin = x.fin /\ s.rst = FALSE
      /\ s.ack = x.ack /\ s.ackno = c.rcv_nxt
  BY <1>1 DEF Wire
<1>3. c.state # "CLOSED" /\ (c.state \in Synced <=> c.state # "SYN_SENT")
  BY StateSets DEF Synced
<1>4. c.rcv_nxt \in Seqs /\ Pos(g.p, c.rcv_nxt) \in Nat
  BY <1>3, OkFacts
<1>5. s.ack => Pos(g.p, c.rcv_nxt) <= Lim(g, c)
  BY <1>2, <1>3, <1>4 DEF Lim
<1>6. Peer(g.e) = g.p
  BY EnvFacts
<1>7. SegOK(g.e, g.C, c.written, c.closing, s)
  BY <1>2, SegLike
<1>8. s.seq \in Seqs /\ s.data \in Seq(Nat) /\ s.syn \in BOOLEAN /\ s.fin \in BOOLEAN
  BY <1>7 DEF SegOK
<1>9. WireOK(g.e, g.C, c.written, c.closing, Lim(g, c), s)
  <2>1. WireRec(s)
    BY <1>1 DEF Wire, WireRec
  <2> QED BY <1>2, <1>4, <1>5, <1>6, <1>7, <1>8, <2>1 DEF WireOK
<1> QED BY <1>1, <1>9 DEF Sends

LEMMA RexmitSegOk ==
  ASSUME NEW g, NEW c, Env(g), Ok(g, c), c.state \in Active, NEW x,
         SegOK(g.e, g.C, c.written, c.closing, x), x.ack \in BOOLEAN, c.state = "SYN_SENT" => ~x.ack,
         NEW d, d = RexmitSeg(c, x)
  PROVE  Kept(g, c, d) /\ Same(c, d)
<1>1. CASE InWnd(c, x)
  <2>1. PICK b : b = [c EXCEPT !.nrtx = Min({@ + 1, MaxRtx + 1})]
    OBVIOUS
  <2>2. Pcb(b) /\ Same(c, b) /\ b.out = c.out /\ b.delay = c.delay /\ b.held = c.held
    BY <2>1 DEF Ok, Pcb, Fields, Same, SameSnd, SameRcv, SameApp
  <2>3. d = Send(b, Wire(c, x, c.rcv_wnd))
    BY <1>1, <2>1 DEF RexmitSeg
  <2>4. Pcb(d) /\ Same(b, d) /\ d.delay = b.delay /\ d.held = b.held
        /\ d.out = b.out \cup {Wire(c, x, c.rcv_wnd)}
    BY <2>2, <2>3, SendIs
  <2>5. Same(c, d) /\ d.delay = c.delay /\ d.held = c.held /\ d.out = c.out \cup {Wire(c, x, c.rcv_wnd)}
    BY <2>2, <2>4 DEF Same, SameSnd, SameRcv, SameApp
  <2>6. Sends(g, d, Wire(c, x, c.rcv_wnd))
    BY <2>5, WireOk, SendsSame
  <2>7. \A s \in d.out : s \in c.out \/ Sends(g, d, s)
    BY <2>5, <2>6
  <2>8. d.delay \in BOOLEAN /\ (c.state = "SYN_SENT" => ~d.delay)
    BY <2>5 DEF Ok, Life, Starting
  <2> QED BY <2>4, <2>5, <2>7, <2>8, OkSame
<1>2. CASE ~InWnd(c, x)
  <2>1. d = c
    BY <1>2 DEF RexmitSeg
  <2> QED BY <2>1, KeptRefl DEF Same, SameSnd, SameRcv, SameApp
<1> QED BY <1>1, <1>2

-----------------------------------------------------------------------------
(* tcp_output *)
LEMMA SndFacts ==
  ASSUME NEW g, NEW c, Env(g), Ok(g, c), c.state \in Active
  PROVE  /\ c.unsent \in Seq(Segs) /\ c.unacked \in Seq(Segs)
         /\ Counted(c.unsent) /\ Counted(c.unacked)
         /\ (\A i \in 1 .. Len(c.unsent) : SegOK(g.e, g.C, c.written, c.closing, c.unsent[i]))
         /\ (\A i \in 1 .. Len(c.unacked) : SegOK(g.e, g.C, c.written, c.closing, c.unacked[i]))
         /\ Pos(g.e, c.lastack) \in Nat /\ Pos(g.e, c.snd_max) \in Nat /\ Pos(g.e, c.snd_lbb) \in Nat
         /\ Pos(g.e, c.snd_lbb) <= c.written + 2 /\ Pos(g.e, c.snd_lbb) >= 1
         /\ Pos(g.e, c.lastack) <= Pos(g.e, c.snd_max) /\ Pos(g.e, c.snd_max) <= Pos(g.e, c.snd_lbb)
         /\ c.lastack \in Seqs /\ c.snd_max \in Seqs /\ c.snd_lbb \in Seqs
<1>1. Snd(g, c) /\ g.e \in Ends /\ c.written \in Nat
  BY EnvFacts, OkFacts DEF Ok
<1>2. Sending(g.e, g.C, c.written, c.closing, c.unacked, c.unsent,
              Pos(g.e, c.lastack), Pos(g.e, c.snd_lbb))
  BY <1>1 DEF Snd
<1>3. c.unsent \in Seq(Segs) /\ c.unacked \in Seq(Segs)
         /\ (\A i \in 1 .. Len(c.unsent) : SegOK(g.e, g.C, c.written, c.closing, c.unsent[i]))
         /\ (\A i \in 1 .. Len(c.unacked) : SegOK(g.e, g.C, c.written, c.closing, c.unacked[i]))
  BY <1>2 DEF Sending, Queue
<1>4. c.lastack \in Seqs /\ c.snd_max \in Seqs /\ c.snd_lbb \in Seqs
      /\ Pos(g.e, c.lastack) <= Pos(g.e, c.snd_max) /\ Pos(g.e, c.snd_max) <= Pos(g.e, c.snd_lbb)
      /\ (Pos(g.e, c.snd_lbb) = c.written + 1 \/ Pos(g.e, c.snd_lbb) = c.written + 2)
  BY <1>1 DEF Snd
<1>5. Pos(g.e, c.lastack) \in Nat /\ Pos(g.e, c.snd_max) \in Nat /\ Pos(g.e, c.snd_lbb) \in Nat
  BY <1>1, <1>4, PosType
<1> QED BY <1>1, <1>3, <1>4, <1>5 DEF Counted

Resent(c, x) == [x EXCEPT !.ack = @ \/ c.state # "SYN_SENT"]

LEMMA ResentIs ==
  ASSUME NEW c, NEW x \in Segs, NEW y, y = Resent(c, x)
  PROVE  /\ y \in Segs /\ y.seq = x.seq /\ y.data = x.data /\ y.syn = x.syn /\ y.fin = x.fin
         /\ y.n = x.n /\ y.ack = (x.ack \/ c.state # "SYN_SENT") /\ y.ack \in BOOLEAN
BY DEF Resent, Segs

(* What tcp_output does of a connection, if it sends. *)
Outputs(c, d, r, sent) ==
  /\ r \in 1 .. Len(c.unsent) /\ sent \in Seq(Segs) /\ Len(sent) = r
  /\ \A i \in 1 .. r : sent[i] = Resent(c, c.unsent[i])
  /\ Pcb(d)
  /\ d.unsent = Tail1(c.unsent, r) /\ d.unacked = c.unacked \o sent
  /\ d.snd_nxt = SegEnd(sent[r])
  /\ d.snd_max = (IF SeqLt(c.snd_max, SegEnd(sent[r])) THEN SegEnd(sent[r]) ELSE c.snd_max)
  /\ d.delay = (c.delay /\ c.state = "SYN_SENT")
  /\ \E w : d.out = c.out \cup {Wire(c, sent[i], w) : i \in 1 .. r}
  /\ d.state = c.state /\ d.lastack = c.lastack /\ d.snd_lbb = c.snd_lbb /\ d.snd_buf = c.snd_buf
  /\ d.qlen = c.qlen /\ d.written = c.written /\ d.closing = c.closing /\ d.held = c.held
  /\ SameRcv(c, d) /\ SameApp(c, d)

LEMMA OutputIs ==
  ASSUME NEW c, Pcb(c), c.unsent \in Seq(Segs), NEW d, d = Output(c)
  PROVE  d = c \/ \E r, sent : Outputs(c, d, r, sent)
<1>1. PICK r : r = Lead(c.unsent, {i \in DOMAIN c.unsent : InWnd(c, c.unsent[i])})
  OBVIOUS
<1>2. r \in 0 .. Len(c.unsent)
  BY <1>1, LeadIs
<1>3. PICK sent : sent = [i \in 1 .. r |-> [c.unsent[i] EXCEPT !.ack = @ \/ c.state # "SYN_SENT"]]
  OBVIOUS
<1>4. PICK w : w = IF c.rcv_wnd < TcpMss THEN 0 ELSE c.rcv_wnd
  OBVIOUS
<1>5. CASE r = 0
  BY <1>1, <1>5 DEF Output
<1>6. CASE r # 0
  <2>1. d = [c EXCEPT !.unsent = Tail1(@, r),
                    !.unacked = @ \o sent,
                    !.snd_nxt = SegEnd(sent[r]),
                    !.snd_max = IF SeqLt(@, SegEnd(sent[r])) THEN SegEnd(sent[r]) ELSE @,
                    !.delay = @ /\ c.state = "SYN_SENT",
                    !.out = @ \cup {Wire(c, sent[i], w) : i \in 1 .. r}]
    BY <1>1, <1>3, <1>4, <1>6 DEF Output
  <2>2. r \in 1 .. Len(c.unsent) /\ r \in Nat
    BY <1>2, <1>6
  <2>3. \A i \in 1 .. r : c.unsent[i] \in Segs
    BY <2>2
  <2>4. \A i \in 1 .. r : sent[i] = Resent(c, c.unsent[i]) /\ sent[i] \in Segs
    BY <1>3, <2>3, ResentIs DEF Resent
  <2>5. sent \in Seq(Segs) /\ Len(sent) = r
    <3>1. \A i \in 1 .. r : Resent(c, c.unsent[i]) \in Segs
      BY <2>3, ResentIs
    <3>2. sent = [i \in 1 .. r |-> Resent(c, c.unsent[i])]
      BY <1>3 DEF Resent
    <3>3. sent \in [1 .. r -> Segs]
      BY <3>1, <3>2
    <3> QED BY <2>2, <3>3
  <2>6. PICK x, o : x = SegEnd(sent[r]) /\ o = {Wire(c, sent[i], w) : i \in 1 .. r}
    OBVIOUS
  <2>10. PICK mx, dl, us, ua, oo : /\ mx = (IF SeqLt(c.snd_max, x) THEN x ELSE c.snd_max)
             /\ dl = (c.delay /\ c.state = "SYN_SENT") /\ us = Tail1(c.unsent, r)
             /\ ua = c.unacked \o sent /\ oo = c.out \cup o
    OBVIOUS
  <2>7. d = [c EXCEPT !.unsent = us, !.unacked = ua, !.snd_nxt = x, !.snd_max = mx,
                      !.delay = dl, !.out = oo]
    BY <2>1, <2>6, <2>10 DEF Pcb, Fields
  <2>8. /\ Pcb(d) /\ d.unsent = Tail1(c.unsent, r) /\ d.unacked = c.unacked \o sent
        /\ d.snd_nxt = x /\ d.snd_max = (IF SeqLt(c.snd_max, x) THEN x ELSE c.snd_max)
        /\ d.delay = (c.delay /\ c.state = "SYN_SENT") /\ d.out = c.out \cup o
        /\ d.state = c.state /\ d.lastack = c.lastack /\ d.snd_lbb = c.snd_lbb /\ d.snd_buf = c.snd_buf
        /\ d.qlen = c.qlen /\ d.written = c.written /\ d.closing = c.closing /\ d.held = c.held
        /\ SameRcv(c, d) /\ SameApp(c, d)
    <3>1. /\ Pcb(d) /\ d.unsent = us /\ d.unacked = ua /\ d.snd_nxt = x /\ d.snd_max = mx
          /\ d.delay = dl /\ d.out = oo
      BY ONLY <2>7, Pcb(c) DEF Pcb, Fields
    <3>2. /\ d.state = c.state /\ d.lastack = c.lastack /\ d.snd_lbb = c.snd_lbb /\ d.snd_buf = c.snd_buf
          /\ d.qlen = c.qlen /\ d.written = c.written /\ d.closing = c.closing /\ d.held = c.held
          /\ SameRcv(c, d) /\ SameApp(c, d)
      BY ONLY <2>7, Pcb(c) DEF Pcb, Fields, SameRcv, SameApp
    <3> QED BY <2>10, <3>1, <3>2
  <2>9. Outputs(c, d, r, sent)
    BY <2>2, <2>4, <2>5, <2>6, <2>8 DEF Outputs
  <2> QED BY <2>9
<1> QED BY <1>5, <1>6

-----------------------------------------------------------------------------
LEMMA OutputOk ==
  ASSUME NEW g, NEW c, Env(g), Ok(g, c), c.state \in Active, NEW d, d = Output(c)
  PROVE  Kept(g, c, d) /\ d.state = c.state /\ SameRcv(c, d) /\ SameApp(c, d) /\ d.lastack = c.lastack
         /\ d.held = c.held
<1> USE EnvFacts
<1>1. Pcb(c) /\ c.unsent \in Seq(Segs) /\ Snd(g, c) /\ c.unacked \in Seq(Segs)
  BY SndFacts DEF Ok
<1>2. CASE d = c
  BY <1>2, KeptRefl DEF SameRcv, SameApp
<1>3. ASSUME NEW r, NEW sent, Outputs(c, d, r, sent)
      PROVE  Kept(g, c, d) /\ d.state = c.state /\ SameRcv(c, d) /\ SameApp(c, d) /\ d.lastack = c.lastack
             /\ d.held = c.held
  <2>1. PICK la, lb, w, k : la = Pos(g.e, c.lastack) /\ lb = Pos(g.e, c.snd_lbb) /\ w = c.written /\ k = c.closing
    OBVIOUS
  <2>2. PICK lo, mid \in Nat :
          /\ Queue(g.e, g.C, w, k, c.unacked, lo, mid) /\ Queue(g.e, g.C, w, k, c.unsent, mid, lb) /\ lo <= la
          /\ \A i \in 1 .. Len(c.unacked) : la < EndPos(g.e, c.unacked[i])
          /\ \A i \in 1 .. Len(c.unsent) : la < EndPos(g.e, c.unsent[i])
    BY <1>1, <2>1 DEF Snd, Sending
  <2>3. Writes(g.e, g.C, w, k) /\ w \in Nat /\ w + 2 < SeqSpace \div 2
    BY <2>1, OkFacts
  <2>4. r \in 1 .. Len(c.unsent) /\ r \in 0 .. Len(c.unsent) /\ r \in Nat /\ Len(c.unsent) \in Nat
    BY <1>1, <1>3 DEF Outputs
  <2>5. PICK m \in Nat : /\ Queue(g.e, g.C, w, k, SubSeq(c.unsent, 1, r), mid, m)
                         /\ Queue(g.e, g.C, w, k, Tail1(c.unsent, r), m, lb)
                         /\ QueueLen(c.unsent) = QueueLen(SubSeq(c.unsent, 1, r)) + QueueLen(Tail1(c.unsent, r))
    BY <2>2, <2>3, <2>4, QueueSplit
  <2>6. /\ Len(SubSeq(c.unsent, 1, r)) = r /\ (\A i \in 1 .. r : SubSeq(c.unsent, 1, r)[i] = c.unsent[i])
        /\ Len(Tail1(c.unsent, r)) = Len(c.unsent) - r
        /\ \A i \in 1 .. Len(c.unsent) - r : Tail1(c.unsent, r)[i] = c.unsent[r + i]
        /\ SubSeq(c.unsent, 1, r) \in Seq(Segs) /\ Tail1(c.unsent, r) \in Seq(Segs)
    <3>1. PICK u : u = c.unsent
      OBVIOUS
    <3>2. u \in Seq(Segs) /\ r \in 0 .. Len(u)
      BY <1>1, <2>4, <3>1
    <3>3. /\ SubSeq(u, 1, r) \in Seq(Segs) /\ Len(SubSeq(u, 1, r)) = r
          /\ \A i \in 1 .. r : SubSeq(u, 1, r)[i] = u[i]
          /\ Tail1(u, r) \in Seq(Segs) /\ Len(Tail1(u, r)) = Len(u) - r
          /\ \A i \in 1 .. Len(u) - r : Tail1(u, r)[i] = u[r + i]
      BY ONLY <3>2, SplitIs
    <3> QED BY ONLY <3>1, <3>3
  <2>7. sent \in Seq(Segs) /\ Len(sent) = r /\ \A i \in 1 .. r : sent[i] = Resent(c, c.unsent[i])
    BY <1>3 DEF Outputs
  <2>8. \A i \in 1 .. r : /\ c.unsent[i] \in Segs /\ sent[i].seq = c.unsent[i].seq /\ sent[i].data = c.unsent[i].data
                          /\ sent[i].syn = c.unsent[i].syn /\ sent[i].fin = c.unsent[i].fin /\ sent[i].n = c.unsent[i].n
                          /\ sent[i].ack = (c.unsent[i].ack \/ c.state # "SYN_SENT") /\ sent[i].ack \in BOOLEAN
    <3> TAKE i \in 1 .. r
    <3>1. c.unsent[i] \in Segs
      BY <1>1, <2>4
    <3> QED BY <2>7, <3>1, ResentIs
  <2>9. Queue(g.e, g.C, w, k, sent, mid, m) /\ QueueLen(sent) = QueueLen(SubSeq(c.unsent, 1, r))
    <3>1. PICK f : f = SubSeq(c.unsent, 1, r)
      OBVIOUS
    <3>2. Queue(g.e, g.C, w, k, f, mid, m) /\ Len(f) = r /\ \A i \in 1 .. r : f[i] = c.unsent[i]
      BY <2>5, <2>6, <3>1
    <3>3. Len(sent) = Len(f) /\ \A i \in 1 .. Len(f) : sent[i].seq = f[i].seq /\ sent[i].data = f[i].data
             /\ sent[i].syn = f[i].syn /\ sent[i].fin = f[i].fin /\ sent[i].n = f[i].n
      BY ONLY <2>7, <2>8, <3>2
    <3>4. sent \in Seq(Segs)
      BY <2>7
    <3>5. Queue(g.e, g.C, w, k, sent, mid, m) /\ QueueLen(sent) = QueueLen(f)
      BY ONLY <3>2, <3>3, <3>4, QueueLike
    <3> QED BY <3>1, <3>5
  <2>10. Queue(g.e, g.C, w, k, c.unacked \o sent, lo, m) /\ QueueLen(c.unacked \o sent) = QueueLen(c.unacked) + QueueLen(sent)
    BY <2>2, <2>3, <2>9, QueueJoin
  <2>11. \A i \in 1 .. r : /\ SegOK(g.e, g.C, w, k, sent[i]) /\ EndPos(g.e, sent[i]) = EndPos(g.e, c.unsent[i])
                           /\ la < EndPos(g.e, sent[i]) /\ EndPos(g.e, sent[i]) <= lb
    <3> TAKE i \in 1 .. r
    <3>1. i \in 1 .. Len(c.unsent)
      BY <2>4
    <3>2. SegOK(g.e, g.C, w, k, c.unsent[i]) /\ la < EndPos(g.e, c.unsent[i]) /\ EndPos(g.e, c.unsent[i]) <= lb
      BY <2>2, <3>1 DEF Queue
    <3> QED BY <2>8, <3>2, SegLike
  <2>12. Len(c.unacked \o sent) = Len(c.unacked) + r /\ Len(c.unacked) \in Nat
         /\ (\A i \in 1 .. Len(c.unacked) : (c.unacked \o sent)[i] = c.unacked[i])
         /\ (\A i \in 1 .. r : (c.unacked \o sent)[Len(c.unacked) + i] = sent[i])
    <3>1. PICK a : a = c.unacked
      OBVIOUS
    <3>2. a \in Seq(Segs) /\ sent \in Seq(Segs) /\ Len(sent) = r
      BY <1>1, <2>7, <3>1
    <3>3. Len(a \o sent) = Len(a) + r /\ Len(a) \in Nat
         /\ (\A i \in 1 .. Len(a) : (a \o sent)[i] = a[i])
         /\ (\A i \in 1 .. r : (a \o sent)[Len(a) + i] = sent[i])
      BY ONLY <3>2
    <3> QED BY <3>1, <3>3
  <2>13. ASSUME NEW i \in 1 .. Len(c.unacked \o sent)
         PROVE  i \in 1 .. Len(c.unacked) \/ (i - Len(c.unacked) \in 1 .. r /\ (c.unacked \o sent)[i] = sent[i - Len(c.unacked)])
    <3>1. PICK n : n = Len(c.unacked)
      OBVIOUS
    <3>2. i \in 1 .. n \/ (i - n \in 1 .. r /\ n + (i - n) = i)
      BY <2>4, <2>12, <3>1
    <3> QED BY <2>12, <3>1, <3>2
  <2>14. \A i \in 1 .. Len(c.unacked \o sent) : la < EndPos(g.e, (c.unacked \o sent)[i])
    BY <2>2, <2>11, <2>12, <2>13
  <2>15. \A i \in 1 .. Len(Tail1(c.unsent, r)) : la < EndPos(g.e, Tail1(c.unsent, r)[i])
    <3> TAKE i \in 1 .. Len(Tail1(c.unsent, r))
    <3>1. r + i \in 1 .. Len(c.unsent) /\ i \in 1 .. Len(c.unsent) - r
      BY <2>4, <2>6
    <3> QED BY <2>2, <2>6, <3>1
  <2>16. Sending(g.e, g.C, w, k, c.unacked \o sent, Tail1(c.unsent, r), la, lb)
    BY <2>2, <2>5, <2>10, <2>14, <2>15 DEF Sending
  <2>17. SegEnd(sent[r]) \in Seqs /\ Pos(g.e, SegEnd(sent[r])) = EndPos(g.e, sent[r]) /\ EndPos(g.e, sent[r]) \in Nat
         /\ EndPos(g.e, sent[r]) <= lb /\ EndPos(g.e, sent[r]) <= w + 2
    <3>1. r \in 1 .. r
      BY <2>4
    <3> QED BY <2>3, <2>11, <3>1, SegFacts
  <2>18. c.snd_max \in Seqs /\ la <= Pos(g.e, c.snd_max) /\ Pos(g.e, c.snd_max) <= lb /\ la \in Nat /\ lb \in Nat
         /\ Pos(g.e, c.snd_max) \in Nat /\ lb <= w + 2
    BY <2>1, SndFacts
  <2>19. /\ d.snd_max \in Seqs /\ la <= Pos(g.e, d.snd_max) /\ Pos(g.e, d.snd_max) <= lb
         /\ Pos(g.e, c.snd_max) <= Pos(g.e, d.snd_max) /\ Pos(g.e, d.snd_max) \in Nat
    <3>1. Pos(g.e, SegEnd(sent[r])) < SeqSpace \div 2 /\ Pos(g.e, c.snd_max) < SeqSpace \div 2
      BY <2>3, <2>17, <2>18, TcpConsts
    <3>2. SeqLt(c.snd_max, SegEnd(sent[r])) <=> Pos(g.e, c.snd_max) < Pos(g.e, SegEnd(sent[r]))
      BY <2>17, <2>18, <3>1, PosLt
    <3>3. d.snd_max = (IF SeqLt(c.snd_max, SegEnd(sent[r])) THEN SegEnd(sent[r]) ELSE c.snd_max)
      BY <1>3 DEF Outputs
    <3>4. CASE SeqLt(c.snd_max, SegEnd(sent[r]))
      BY <2>17, <2>18, <3>2, <3>3, <3>4
    <3>5. CASE ~SeqLt(c.snd_max, SegEnd(sent[r]))
      BY <2>18, <3>3, <3>5
    <3> QED BY <3>4, <3>5
  <2>20. /\ Pcb(d)
         /\ d.unsent = Tail1(c.unsent, r) /\ d.unacked = c.unacked \o sent
         /\ d.snd_nxt = SegEnd(sent[r]) /\ d.delay = (c.delay /\ c.state = "SYN_SENT")
         /\ d.state = c.state /\ d.lastack = c.lastack /\ d.snd_lbb = c.snd_lbb /\ d.snd_buf = c.snd_buf
         /\ d.qlen = c.qlen /\ d.written = c.written /\ d.closing = c.closing /\ d.held = c.held
         /\ SameRcv(c, d) /\ SameApp(c, d)
    BY <1>3 DEF Outputs
  <2>21. Snd(g, d)
    <3>1. Used(g, d) = Used(g, c)
      BY <2>20 DEF Used
    <3>2. QueueLen(c.unsent) \in Nat /\ QueueLen(c.unacked) \in Nat /\ QueueLen(sent) \in Nat /\ QueueLen(Tail1(c.unsent, r)) \in Nat
      BY <1>1, <2>6, <2>7, QueueLenNat DEF Counted
    <3>3. d.qlen = QueueLen(d.unsent) + QueueLen(d.unacked)
      <4>1. c.qlen = QueueLen(c.unsent) + QueueLen(c.unacked)
        BY <1>1 DEF Snd
      <4> QED BY <2>5, <2>9, <2>10, <2>20, <3>2, <4>1
    <3>4. Sending(g.e, g.C, d.written, d.closing, d.unacked, d.unsent, Pos(g.e, d.lastack), Pos(g.e, d.snd_lbb))
      BY <2>1, <2>16, <2>20
    <3> QED BY <1>1, <2>1, <2>19, <2>20, <3>1, <3>3, <3>4 DEF Snd
  <2>22. Lim(g, d) = Lim(g, c) /\ Lim(g, c) \in Nat
    BY <2>20, OkFacts DEF Lim, SameRcv
  <2>23. Life(g, d)
    <3>1. c.state = "SYN_SENT" => Starting(g, d)
      <4> SUFFICES ASSUME c.state = "SYN_SENT" PROVE Starting(g, d)
        OBVIOUS
      <4>1. Starting(g, c)
        BY DEF Ok, Life
      <4>2. \A i \in 1 .. Len(d.unsent) : ~d.unsent[i].ack
        <5> TAKE i \in 1 .. Len(d.unsent)
        <5>1. r + i \in 1 .. Len(c.unsent) /\ i \in 1 .. Len(c.unsent) - r
          BY <2>4, <2>6, <2>20
        <5>2. d.unsent[i] = c.unsent[r + i]
          BY <2>6, <2>20, <5>1
        <5> QED BY <4>1, <5>1, <5>2 DEF Starting
      <4>3. \A i \in 1 .. r : ~sent[i].ack
        <5> TAKE i \in 1 .. r
        <5>1. i \in 1 .. Len(c.unsent)
          BY <2>4
        <5>2. ~c.unsent[i].ack
          BY <4>1, <5>1 DEF Starting
        <5> QED BY <2>8, <5>2
      <4>4. \A i \in 1 .. Len(d.unacked) : ~d.unacked[i].ack
        BY <2>12, <2>13, <2>20, <4>1, <4>3 DEF Starting
      <4>5. d.unacked # <<>> /\ d.unacked[1].syn
        <5>1. Len(c.unacked) >= 1 /\ c.unacked[1].syn
          BY <1>1, <4>1 DEF Starting
        <5>2. 1 \in 1 .. Len(c.unacked) /\ Len(d.unacked) >= 1
          BY <2>4, <2>12, <2>20, <5>1
        <5>3. d.unacked[1] = c.unacked[1]
          BY <2>12, <2>20, <5>2
        <5>4. d.unacked # <<>>
          BY <5>2
        <5> QED BY <5>1, <5>3, <5>4
      <4>6. Pos(g.e, d.snd_max) >= 1
        <5>1. Pos(g.e, c.snd_max) >= 1
          BY <4>1 DEF Starting
        <5> QED BY <2>18, <2>19, <5>1
      <4> QED BY <2>20, <4>1, <4>2, <4>4, <4>5, <4>6 DEF Starting, SameRcv
    <3>2. c.state = "SYN_RCVD" => Accepting(g, d)
      BY <2>20 DEF Ok, Life, Accepting, SameRcv
    <3>3. d.snd_nxt \in Seqs /\ Pos(g.e, d.snd_nxt) <= d.written + 2
      BY <2>1, <2>17, <2>20
    <3>4. d.delay \in BOOLEAN
      BY <2>20
    <3> QED BY <2>20, <3>1, <3>2, <3>3, <3>4 DEF Ok, Life, SameRcv, SameApp
  <2>24. \A s \in d.out : Sends(g, d, s)
    <3>1. PICK wnd : d.out = c.out \cup {Wire(c, sent[i], wnd) : i \in 1 .. r}
      BY <1>3 DEF Outputs
    <3>2. ASSUME NEW i \in 1 .. r PROVE Sends(g, d, Wire(c, sent[i], wnd))
      <4>1. c.state = "SYN_SENT" => ~sent[i].ack
        <5> SUFFICES ASSUME c.state = "SYN_SENT" PROVE ~sent[i].ack
          OBVIOUS
        <5>1. i \in 1 .. Len(c.unsent)
          BY <2>4
        <5>2. ~c.unsent[i].ack
          BY <5>1 DEF Ok, Life, Starting
        <5> QED BY <2>8, <5>2
      <4>2. SegOK(g.e, g.C, c.written, c.closing, sent[i]) /\ sent[i].ack \in BOOLEAN
        BY <2>1, <2>8, <2>11
      <4>3. Sends(g, c, Wire(c, sent[i], wnd))
        BY <4>1, <4>2, WireOk
      <4> QED BY <2>20, <2>22, <4>3 DEF Sends
    <3>3. ASSUME NEW s \in c.out PROVE Sends(g, d, s)
      <4>1. Sends(g, c, s)
        BY DEF Ok
      <4> QED BY <2>20, <2>22, <4>1 DEF Sends
    <3> QED BY <3>1, <3>2, <3>3
  <2>25. Heard(g, d) /\ (d.state \in Synced => Rcv(g, d))
    BY <2>20, HeardSame, RcvSame DEF Ok
  <2> QED BY <2>20, <2>21, <2>22, <2>23, <2>24, <2>25 DEF Kept, Ok
<1> QED BY <1>1, <1>2, <1>3, OutputIs

-----------------------------------------------------------------------------
LEMMA LimMost ==
  ASSUME NEW g, NEW c, Env(g), Ok(g, c)
  PROVE  Lim(g, c) <= g.w + 2
<1>1. g.w \in Nat
  BY EnvFacts
<1>2. CASE c.state \in Synced
  <2>1. c.state \notin {"CLOSED", "SYN_SENT"}
    BY <1>2, StateSets
  <2> QED BY <1>2, <2>1 DEF Ok, Life, Lim
<1>3. CASE c.state \notin Synced
  BY <1>1, <1>3 DEF Lim
<1> QED BY <1>2, <1>3

(* A pcb that is closed keeps what the application saw. *)
LEMMA ClosedOk ==
  ASSUME NEW g, NEW c, Env(g), Ok(g, c), NEW d, Pcb(d), d.state = "CLOSED", d.attached = FALSE,
         d.delay = FALSE, d.gotfin = FALSE, d.got = c.got, d.eof = c.eof, d.written = c.written,
         d.closing = c.closing, g.e = "server" \/ d.err \/ d.closing,
         \A s \in d.out : s \in c.out \/ Sends(g, c, s)
  PROVE  Kept(g, c, d)
<1>1. Lim(g, d) = g.w + 2 /\ g.w \in Nat
  BY EnvFacts, StateSets DEF Lim
<1>2. Lim(g, c) <= Lim(g, d) /\ Lim(g, d) \in Nat /\ Lim(g, c) \in Nat
  BY <1>1, LimMost, OkFacts
<1>3. ASSUME NEW s, Sends(g, c, s) PROVE Sends(g, d, s)
  BY <1>2, <1>3, WireLater, EnvFacts DEF Sends
<1>4. \A s \in d.out : Sends(g, d, s)
  BY <1>3 DEF Ok
<1>5. Heard(g, d)
  BY DEF Ok, Heard
<1>6. Life(g, d)
  BY DEF Ok, Life, Open, States
<1>7. d.state \notin Active /\ d.state \notin Synced
  BY StateSets
<1> QED BY <1>2, <1>4, <1>5, <1>6, <1>7 DEF Kept, Ok

LEMMA FreedIs ==
  ASSUME NEW c, NEW d, d = FreedPcb(c)
  PROVE  /\ Pcb(d) /\ d.state = "CLOSED" /\ d.attached = FALSE /\ d.delay = FALSE /\ d.gotfin = FALSE
         /\ d.got = c.got /\ d.eof = c.eof /\ d.written = c.written /\ d.closing = c.closing
         /\ d.err = c.err /\ d.out = c.out /\ d.pend = <<>>
<1>1. PICK b : b = TcpNew(0)
  OBVIOUS
<1>2. Pcb(b)
  BY <1>1 DEF TcpNew, Pcb, Fields
<1>3. b.state = "CLOSED" /\ b.attached = FALSE /\ b.delay = FALSE /\ b.gotfin = FALSE /\ b.pend = <<>>
  BY <1>1 DEF TcpNew
<1>4. d = [b EXCEPT !.out = c.out, !.got = c.got, !.eof = c.eof, !.err = c.err,
                    !.written = c.written, !.closing = c.closing]
  BY <1>1 DEF FreedPcb
<1> QED BY <1>2, <1>3, <1>4 DEF Pcb, Fields

LEMMA ErrfIs ==
  ASSUME NEW c, Pcb(c), NEW d, d = Errf(c)
  PROVE  /\ Pcb(d) /\ Same(c, d) /\ d.delay = c.delay /\ d.held = c.held /\ d.out = c.out
         /\ (c.attached => d.err) /\ d.rcv_wnd = c.rcv_wnd
<1>1. CASE c.attached
  <2>1. d = [c EXCEPT !.err = TRUE]
    BY <1>1 DEF Errf
  <2> QED BY <2>1 DEF Pcb, Fields, Same, SameSnd, SameRcv, SameApp
<1>2. CASE ~c.attached
  <2>1. d = c
    BY <1>2 DEF Errf
  <2> QED BY <1>2, <2>1 DEF Same, SameSnd, SameRcv, SameApp
<1> QED BY <1>1, <1>2

LEMMA ErrfOk ==
  ASSUME NEW g, NEW c, Env(g), Ok(g, c), c.state # "CLOSED", NEW d, d = Errf(c)
  PROVE  /\ Kept(g, c, d) /\ Same(c, d) /\ (g.e = "server" \/ d.err \/ d.closing)
<1>1. /\ Pcb(d) /\ Same(c, d) /\ d.delay = c.delay /\ d.held = c.held /\ d.out = c.out
      /\ (c.attached => d.err)
  BY ErrfIs DEF Ok
<1>2. Kept(g, c, d)
  <2>1. d.delay \in BOOLEAN /\ (c.state = "SYN_SENT" => ~d.delay)
    BY <1>1 DEF Ok, Life, Starting
  <2> QED BY <1>1, <2>1, OkSame
<1>3. g.e = "server" \/ c.attached \/ c.closing
  BY DEF Ok, Life, Accepting
<1>4. d.closing = c.closing
  BY <1>1 DEF Same, SameSnd
<1> QED BY <1>1, <1>2, <1>3, <1>4

LEMMA FreedOk ==
  ASSUME NEW g, NEW c, Env(g), Ok(g, c), g.e = "server" \/ c.err \/ c.closing, NEW d, d = FreedPcb(c)
  PROVE  Kept(g, c, d) /\ d.state = "CLOSED" /\ d.pend = <<>>
<1>1. /\ Pcb(d) /\ d.state = "CLOSED" /\ d.attached = FALSE /\ d.delay = FALSE /\ d.gotfin = FALSE
      /\ d.got = c.got /\ d.eof = c.eof /\ d.written = c.written /\ d.closing = c.closing
      /\ d.err = c.err /\ d.out = c.out /\ d.pend = <<>>
  BY FreedIs
<1>2. g.e = "server" \/ d.err \/ d.closing
  BY <1>1
<1> QED BY <1>1, <1>2, ClosedOk

Removed(c, d) ==
  /\ Pcb(d) /\ d.state = "CLOSED" /\ d.attached = FALSE /\ d.delay = FALSE /\ d.gotfin = FALSE
  /\ d.got = c.got /\ d.eof = c.eof /\ d.written = c.written /\ d.closing = c.closing
  /\ (c.err => d.err) /\ d.pend = <<>>
  /\ \A s \in d.out : s \in c.out \/ (c.delay /\ c.state # "TIME_WAIT" /\ s = PureAck(c))

LEMMA PcbRemoveIs ==
  ASSUME NEW c, Pcb(c), NEW d, d = PcbRemove(c)
  PROVE  Removed(c, d)
<1>1. CASE c.delay /\ c.state # "TIME_WAIT"
  <2>1. PICK b : b = AckNow(c)
    OBVIOUS
  <2>2. Pcb(b) /\ Same(c, b) /\ b.out = c.out \cup {PureAck(c)}
    BY <2>1, AckNowIs
  <2>3. d = FreedPcb(b)
    BY <1>1, <2>1 DEF PcbRemove
  <2>4. /\ Pcb(d) /\ d.state = "CLOSED" /\ d.attached = FALSE /\ d.delay = FALSE /\ d.gotfin = FALSE
        /\ d.got = b.got /\ d.eof = b.eof /\ d.written = b.written /\ d.closing = b.closing
        /\ d.err = b.err /\ d.out = b.out /\ d.pend = <<>>
    BY <2>3, FreedIs
  <2>5. b.got = c.got /\ b.eof = c.eof /\ b.written = c.written /\ b.closing = c.closing /\ (c.err => b.err)
    BY <2>2 DEF Same, SameSnd, SameApp
  <2> QED BY <1>1, <2>2, <2>4, <2>5 DEF Removed
<1>2. CASE ~(c.delay /\ c.state # "TIME_WAIT")
  <2>1. d = FreedPcb(c)
    BY <1>2 DEF PcbRemove
  <2>2. /\ Pcb(d) /\ d.state = "CLOSED" /\ d.attached = FALSE /\ d.delay = FALSE /\ d.gotfin = FALSE
        /\ d.got = c.got /\ d.eof = c.eof /\ d.written = c.written /\ d.closing = c.closing
        /\ d.err = c.err /\ d.out = c.out /\ d.pend = <<>>
    BY <2>1, FreedIs
  <2> QED BY <2>2 DEF Removed
<1> QED BY <1>1, <1>2

LEMMA PcbRemoveOk ==
  ASSUME NEW g, NEW c, Env(g), Ok(g, c), c.state # "CLOSED", g.e = "server" \/ c.err \/ c.closing,
         NEW d, d = PcbRemove(c)
  PROVE  Kept(g, c, d) /\ d.state = "CLOSED" /\ d.pend = <<>>
<1>0. Pcb(c)
  BY DEF Ok
<1>1. /\ Pcb(d) /\ d.state = "CLOSED" /\ d.attached = FALSE /\ d.delay = FALSE /\ d.gotfin = FALSE
      /\ d.got = c.got /\ d.eof = c.eof /\ d.written = c.written /\ d.closing = c.closing
      /\ (c.err => d.err) /\ d.pend = <<>>
      /\ \A s \in d.out : s \in c.out \/ (c.delay /\ c.state # "TIME_WAIT" /\ s = PureAck(c))
  <2>1. Removed(c, d)
    BY <1>0, PcbRemoveIs
  <2> QED BY <2>1 DEF Removed
<1>2. c.delay => c.state # "SYN_SENT"
  BY DEF Ok, Life, Starting
<1>3. \A s \in d.out : s \in c.out \/ Sends(g, c, s)
  BY <1>1, <1>2, PureAckOk
<1>4. g.e = "server" \/ d.err \/ d.closing
  BY <1>1
<1> QED BY <1>1, <1>3, <1>4, ClosedOk

LEMMA RstSends ==
  ASSUME NEW g, NEW c, NEW a \in Seqs, NEW b \in Seqs
  PROVE  Sends(g, c, TcpRst(a, b))
<1>1. PICK s : s = TcpRst(a, b)
  OBVIOUS
<1>2. /\ s.seq = a /\ s.data = <<>> /\ s.syn = FALSE /\ s.fin = FALSE /\ s.rst = TRUE
      /\ s.ack = TRUE /\ s.ackno = b
  BY <1>1 DEF TcpRst
<1>3. s.syn \in BOOLEAN /\ s.fin \in BOOLEAN /\ s.rst \in BOOLEAN /\ s.ack \in BOOLEAN
  BY <1>2, Zenon
<1>4. s.data \in Seq(Nat) /\ s.rst
  BY <1>2
<1>5. WireRec(s)
  BY <1>1 DEF TcpRst, WireRec
<1> QED BY <1>1, <1>2, <1>3, <1>4, <1>5 DEF Sends, WireOK

LEMMA AbortOk ==
  ASSUME NEW g, NEW c, Env(g), Ok(g, c), c.state \in Active, NEW d, d = Abort(c)
  PROVE  Kept(g, c, d) /\ d.state = "CLOSED" /\ d.pend = <<>>
<1>1. c.state # "CLOSED" /\ c.state # "TIME_WAIT"
  BY StateSets
<1>2. PICK b, f : b = Errf(c) /\ f = PcbRemove(b)
  OBVIOUS
<1>3. d = Send(f, TcpRst(c.snd_nxt, c.rcv_nxt))
  BY <1>1, <1>2 DEF Abort
<1>4. Kept(g, c, b) /\ Same(c, b) /\ (g.e = "server" \/ b.err \/ b.closing)
  BY <1>1, <1>2, ErrfOk
<1>5. Ok(g, b) /\ b.state # "CLOSED"
  BY <1>1, <1>4 DEF Kept, Same
<1>6. Kept(g, b, f) /\ f.state = "CLOSED" /\ f.pend = <<>>
  BY <1>2, <1>4, <1>5, PcbRemoveOk
<1>7. c.snd_nxt \in Seqs /\ c.rcv_nxt \in Seqs
  BY <1>1 DEF Ok, Life
<1>8. Ok(g, f)
  BY <1>6 DEF Kept
<1>9. Pcb(d) /\ Same(f, d) /\ d.delay = f.delay /\ d.held = f.held /\ d.out = f.out \cup {TcpRst(c.snd_nxt, c.rcv_nxt)}
  BY <1>3, <1>8, SendIs DEF Ok
<1>10. Kept(g, f, d)
  <2>1. \A s \in d.out : s \in f.out \/ Sends(g, d, s)
    BY <1>7, <1>9, RstSends
  <2>2. d.delay \in BOOLEAN /\ f.state # "SYN_SENT"
    BY <1>6, <1>8, <1>9, OkFacts
  <2> QED BY <1>8, <1>9, <2>1, <2>2, OkSame
<1>11. d.state = "CLOSED" /\ d.pend = <<>>
  BY <1>6, <1>9 DEF Same, SameRcv
<1>12. Kept(g, c, f)
  BY <1>4, <1>6, KeptTrans
<1> QED BY <1>10, <1>11, <1>12, KeptTrans

LEMMA ToTimeWaitOk ==
  ASSUME NEW g, NEW c, Env(g), Ok(g, c), c.state \in Synced, c.closing, NEW d, d = ToTimeWait(c)
  PROVE  Kept(g, c, d) /\ d.state = "TIME_WAIT"
<1>1. PICK b : b = AckNow(c)
  OBVIOUS
<1>2. c.state \notin {"CLOSED", "SYN_SENT"}
  BY StateSets
<1>3. Kept(g, c, b) /\ Same(c, b)
  BY <1>1, <1>2, AckNowOk
<1>4. Ok(g, b) /\ b.state = c.state
  BY <1>3 DEF Kept, Same
<1>5. d = [b EXCEPT !.state = "TIME_WAIT", !.unsent = <<>>, !.unacked = <<>>, !.ooseq = <<>>]
  BY <1>1 DEF ToTimeWait
<1>6. /\ Pcb(d) /\ d.state = "TIME_WAIT" /\ d.written = b.written /\ d.closing = b.closing
      /\ d.attached = b.attached /\ d.delay = b.delay /\ d.gotfin = b.gotfin /\ d.snd_nxt = b.snd_nxt
      /\ d.rcv_nxt = b.rcv_nxt /\ d.out = b.out /\ d.got = b.got /\ d.eof = b.eof
  <2>1. Pcb(b)
    BY <1>4 DEF Ok
  <2> QED BY ONLY <1>5, <2>1 DEF Pcb, Fields
<1>7. Lim(g, d) = g.w + 2 /\ g.w \in Nat
  BY <1>6, EnvFacts, StateSets DEF Lim
<1>8. Lim(g, b) <= Lim(g, d) /\ Lim(g, d) \in Nat
  BY <1>4, <1>7, LimMost
<1>9. \A s \in d.out : Sends(g, d, s)
  BY <1>4, <1>6, <1>8, OutSame
<1>10. Life(g, d)
  BY <1>2, <1>3, <1>4, <1>6 DEF Ok, Life, States, Open, Same, SameSnd
<1>11. Heard(g, d)
  BY <1>4, <1>6 DEF Ok, Heard
<1>12. d.state \notin Active /\ d.state \notin Synced
  BY <1>6, StateSets
<1>13. Kept(g, b, d)
  BY <1>6, <1>8, <1>9, <1>10, <1>11, <1>12 DEF Kept, Ok
<1> QED BY <1>3, <1>6, <1>13, KeptTrans

-----------------------------------------------------------------------------
(* tcp_receive: the acknowledgement *)
SetWnd(c, w, a, b) == [c EXCEPT !.snd_wnd = w, !.snd_wl1 = a, !.snd_wl2 = b]
LEMMA WndSame ==
  ASSUME NEW c, NEW d, NEW w, NEW a, NEW b, Pcb(c), d = SetWnd(c, w, a, b)
  PROVE  Pcb(d) /\ Same(c, d) /\ d.out = c.out /\ d.delay = c.delay /\ d.held = c.held
<1>1. Pcb(d)
  BY DEF SetWnd, Pcb, Fields
<1>2. SameSnd(c, d) /\ SameRcv(c, d) /\ d.got = c.got /\ d.eof = c.eof /\ d.err = c.err
  BY DEF SetWnd, Pcb, Fields, SameSnd, SameRcv
<1>3. d.state = c.state /\ d.snd_nxt = c.snd_nxt /\ d.out = c.out /\ d.delay = c.delay /\ d.held = c.held
  BY DEF SetWnd, Pcb, Fields
<1> QED BY <1>1, <1>2, <1>3 DEF Same, SameApp

LEMMA UpdateWndOk ==
  ASSUME NEW g, NEW c, Env(g), Ok(g, c), NEW s, NEW d, d = UpdateWnd(c, s)
  PROVE  Kept(g, c, d) /\ Same(c, d)
<1>1. d = c \/ d = [c EXCEPT !.snd_wnd = s.wnd, !.snd_wl1 = s.seq, !.snd_wl2 = s.ackno]
  BY DEF UpdateWnd
<1>2. Pcb(d) /\ Same(c, d) /\ d.out = c.out /\ d.delay = c.delay /\ d.held = c.held
  <2>1. CASE d = c
    BY <2>1 DEF Ok, Same, SameSnd, SameRcv, SameApp
  <2>2. CASE d = [c EXCEPT !.snd_wnd = s.wnd, !.snd_wl1 = s.seq, !.snd_wl2 = s.ackno]
    <3>1. d = SetWnd(c, s.wnd, s.seq, s.ackno)
      BY ONLY <2>2 DEF SetWnd
    <3>2. Pcb(c)
      BY DEF Ok
    <3> QED BY ONLY <3>1, <3>2, WndSame
  <2> QED BY <1>1, <2>1, <2>2
<1>3. d.delay \in BOOLEAN /\ (c.state = "SYN_SENT" => ~d.delay)
  BY <1>2 DEF Ok, Life, Starting
<1> QED BY <1>2, <1>3, OkSame

SetInfr(c, w, t) == [c EXCEPT !.cwnd = w, !.infr = t]
LEMMA InRecovery ==
  ASSUME NEW c, NEW d, NEW w, NEW t, Pcb(c), d = SetInfr(c, w, t)
  PROVE  Pcb(d) /\ Same(c, d) /\ d.out = c.out /\ d.delay = c.delay /\ d.held = c.held
<1>1. Pcb(d)
  BY DEF SetInfr, Pcb, Fields
<1>2. SameSnd(c, d) /\ SameRcv(c, d) /\ d.got = c.got /\ d.eof = c.eof /\ d.err = c.err
  BY DEF SetInfr, Pcb, Fields, SameSnd, SameRcv
<1>3. d.state = c.state /\ d.snd_nxt = c.snd_nxt /\ d.out = c.out /\ d.delay = c.delay /\ d.held = c.held
  BY DEF SetInfr, Pcb, Fields
<1> QED BY <1>1, <1>2, <1>3 DEF Same, SameApp

LEMMA DupAckOk ==
  ASSUME NEW g, NEW c, Env(g), Ok(g, c), c.state \in Synced, NEW d, d = DupAck(c)
  PROVE  Kept(g, c, d) /\ Same(c, d)
<1>1. PICK b : b = [c EXCEPT !.dupacks = Min({3, @ + 1})]
  OBVIOUS
<1>2. Pcb(b) /\ Same(c, b) /\ b.out = c.out /\ b.delay = c.delay /\ b.held = c.held
  BY <1>1 DEF Ok, Pcb, Fields, Same, SameSnd, SameRcv, SameApp
<1>3. c.state \in Active /\ c.state # "SYN_SENT" /\ c.delay \in BOOLEAN
  BY StateSets, OkFacts
<1>4. Kept(g, c, b) /\ Ok(g, b) /\ b.state = c.state
  BY <1>2, <1>3, OkSame DEF Kept, Same
<1>5. CASE d = b
  BY <1>2, <1>4, <1>5
<1>6. CASE b.unacked # <<>> /\ d = [RexmitSeg(b, Head(b.unacked)) EXCEPT !.cwnd = TcpWnd, !.infr = TRUE]
  <2>1. PICK x, r : x = Head(b.unacked) /\ r = RexmitSeg(b, x)
    OBVIOUS
  <2>2. b.unacked \in Seq(Segs) /\ \A i \in 1 .. Len(b.unacked) : SegOK(g.e, g.C, b.written, b.closing, b.unacked[i])
    BY <1>3, <1>4, SndFacts
  <2>3. 1 \in 1 .. Len(b.unacked) /\ x = b.unacked[1] /\ x \in Segs
    BY <1>6, <2>1, <2>2
  <2>4. SegOK(g.e, g.C, b.written, b.closing, x) /\ x.ack \in BOOLEAN
    BY <2>2, <2>3 DEF Segs
  <2>5. Kept(g, b, r) /\ Same(b, r)
    BY <1>3, <1>4, <2>1, <2>4, RexmitSegOk
  <2>6. d = [r EXCEPT !.cwnd = TcpWnd, !.infr = TRUE] /\ Ok(g, r)
    BY <1>6, <2>1, <2>5 DEF Kept
  <2>7. Pcb(d) /\ Same(r, d) /\ d.out = r.out /\ d.delay = r.delay /\ d.held = r.held
    <3>1. PICK t : t = TRUE
      OBVIOUS
    <3>2. d = SetInfr(r, TcpWnd, t)
      BY ONLY <2>6, <3>1 DEF SetInfr
    <3>3. Pcb(r)
      BY <2>6 DEF Ok
    <3> QED BY ONLY <3>2, <3>3, InRecovery
  <2>8. r.delay \in BOOLEAN /\ r.state # "SYN_SENT"
    BY <1>3, <1>4, <2>5, <2>6, OkFacts DEF Same
  <2>9. Kept(g, r, d)
    BY <2>6, <2>7, <2>8, OkSame
  <2>10. Kept(g, b, d)
    BY <1>4, <2>5, <2>9, KeptTrans
  <2>11. Kept(g, c, d)
    BY <1>4, <2>10, KeptTrans
  <2>12. Same(c, d)
    BY <1>2, <2>5, <2>7 DEF Same, SameSnd, SameRcv, SameApp
  <2> QED BY <2>11, <2>12
<1>7. CASE d = [b EXCEPT !.cwnd = TcpWnd, !.infr = TRUE]
  <2>1. Pcb(d) /\ Same(b, d) /\ d.out = b.out /\ d.delay = b.delay /\ d.held = b.held
    <3>1. PICK t : t = TRUE
      OBVIOUS
    <3>2. d = SetInfr(b, TcpWnd, t)
      BY ONLY <1>7, <3>1 DEF SetInfr
    <3> QED BY ONLY <1>2, <3>2, InRecovery
  <2>2. b.delay \in BOOLEAN /\ b.state # "SYN_SENT"
    BY <1>2, <1>3, <1>4
  <2>3. Kept(g, b, d)
    BY <1>4, <2>1, <2>2, OkSame
  <2>4. Kept(g, c, d)
    BY <1>4, <2>3, KeptTrans
  <2>5. Same(c, d)
    BY <1>2, <2>1 DEF Same, SameSnd, SameRcv, SameApp
  <2> QED BY <2>4, <2>5
<1>8. CASE b.infr
  BY <1>1, <1>5, <1>7, <1>8 DEF DupAck
<1>9. CASE ~b.infr
  BY <1>1, <1>5, <1>6, <1>9 DEF DupAck
<1> QED BY <1>8, <1>9

(* The segments of a queue that an ACK up to n covers are its first ones. *)
LEMMA AckedFront ==
  ASSUME NEW e, NEW C, NEW w, NEW k, Writes(e, C, w, k), NEW q, NEW lo, NEW hi, Queue(e, C, w, k, q, lo, hi),
         NEW n \in Seqs, Pos(e, n) <= w + 2, NEW a, a = Lead(q, {i \in DOMAIN q : SeqLeq(SegEnd(q[i]), n)})
  PROVE  /\ a \in 0 .. Len(q)
         /\ \A i \in 1 .. a : EndPos(e, q[i]) <= Pos(e, n)
         /\ \A i \in 1 .. Len(q) : i > a => EndPos(e, q[i]) > Pos(e, n)
<1>1. q \in Seq(Segs) /\ Len(q) \in Nat /\ DOMAIN q = 1 .. Len(q)
  BY DEF Queue
<1>2. PICK at : at = {i \in DOMAIN q : SeqLeq(SegEnd(q[i]), n)}
  OBVIOUS
<1>3. a \in 0 .. Len(q) /\ (\A i \in 1 .. a : i \in at) /\ (a < Len(q) => a + 1 \notin at)
  BY <1>1, <1>2, LeadIs
<1>4. e \in Ends /\ w + 2 < SeqSpace \div 2 /\ Pos(e, n) \in Nat /\ SeqSpace \div 2 \in Nat /\ w \in Nat
  BY WritesFit, PosType
<1>5. \A i \in 1 .. Len(q) : /\ SeqLeq(SegEnd(q[i]), n) <=> EndPos(e, q[i]) <= Pos(e, n)
                             /\ EndPos(e, q[i]) \in Nat /\ Pos(e, q[i].seq) \in Nat
                             /\ Pos(e, q[i].seq) < EndPos(e, q[i])
  <2> TAKE i \in 1 .. Len(q)
  <2>1. SegOK(e, C, w, k, q[i])
    BY DEF Queue
  <2>2. SegEnd(q[i]) \in Seqs /\ Pos(e, SegEnd(q[i])) = EndPos(e, q[i]) /\ EndPos(e, q[i]) \in Nat
        /\ EndPos(e, q[i]) <= w + 2 /\ Pos(e, q[i].seq) \in Nat /\ Pos(e, q[i].seq) < EndPos(e, q[i])
    BY <2>1, SegFacts
  <2>3. Pos(e, SegEnd(q[i])) < SeqSpace \div 2 /\ Pos(e, n) < SeqSpace \div 2
    BY <1>4, <2>2
  <2>4. SeqLeq(SegEnd(q[i]), n) <=> Pos(e, SegEnd(q[i])) <= Pos(e, n)
    BY <1>4, <2>2, <2>3, PosLt
  <2> QED BY <2>2, <2>4
<1>6. \A i \in 1 .. a : EndPos(e, q[i]) <= Pos(e, n)
  BY <1>1, <1>2, <1>3, <1>5
<1>7. ASSUME NEW i \in 1 .. Len(q), i > a PROVE EndPos(e, q[i]) > Pos(e, n)
  <2>1. a + 1 \in 1 .. Len(q) /\ a < Len(q)
    BY <1>1, <1>3, <1>7
  <2>2. EndPos(e, q[a + 1]) > Pos(e, n)
    <3>1. ~SeqLeq(SegEnd(q[a + 1]), n)
      BY <1>1, <1>2, <1>3, <2>1
    <3> QED BY <1>4, <1>5, <2>1, <3>1
  <2>3. CASE i = a + 1
    BY <2>2, <2>3
  <2>4. CASE i # a + 1
    <3>1. a + 1 < i
      BY <1>1, <1>3, <1>7, <2>4
    <3>2. EndPos(e, q[a + 1]) <= Pos(e, q[i].seq)
      BY <2>1, <3>1 DEF Queue
    <3> QED BY <1>4, <1>5, <2>1, <2>2, <3>2
  <2> QED BY <2>3, <2>4
<1> QED BY <1>3, <1>6, <1>7

LEMMA FrontBelow ==
  ASSUME NEW e, NEW C, NEW w, NEW k, NEW q, NEW lo, NEW hi, Queue(e, C, w, k, q, lo, hi), NEW A \in Nat, lo <= A,
         \A i \in 1 .. Len(q) : EndPos(e, q[i]) <= A, Writes(e, C, w, k)
  PROVE  hi <= A
<1>1. lo \in Nat /\ hi \in Nat /\ lo <= hi
  BY DEF Queue
<1>2. CASE lo = hi
  BY <1>2
<1>3. CASE lo # hi
  <2>1. hi - 1 \in lo .. hi - 1
    BY <1>1, <1>3
  <2>2. PICK i \in 1 .. Len(q) : hi - 1 < EndPos(e, q[i])
    BY <2>1 DEF Queue
  <2>3. EndPos(e, q[i]) \in Nat /\ EndPos(e, q[i]) <= A
    BY SegFacts DEF Queue
  <2> QED BY <1>1, <2>2, <2>3
<1> QED BY <1>2, <1>3

-----------------------------------------------------------------------------
(* What remains of both queues when all up to position A is acknowledged. *)
LEMMA NoLength ==
  ASSUME NEW S, NEW q \in Seq(S), Len(q) = 0
  PROVE  q = <<>>
OBVIOUS

(* The places of the segments that an ACK up to n covers *)
AckedOf(q, n) == {x \in DOMAIN q : SeqLeq(SegEnd(q[x]), n)}

LEMMA AckedQueues ==
  ASSUME NEW e, NEW C, NEW w, NEW k, Writes(e, C, w, k), NEW a, NEW u, NEW la \in Nat, NEW lb \in Nat,
         Sending(e, C, w, k, a, u, la, lb), NEW n \in Seqs, Pos(e, n) <= w + 2, la < Pos(e, n),
         NEW i, i = Lead(a, AckedOf(a, n)),
         NEW j, j = Lead(u, AckedOf(u, n))
  PROVE  /\ i \in 0 .. Len(a) /\ j \in 0 .. Len(u)
         /\ a \in Seq(Segs) /\ u \in Seq(Segs)
         /\ Sending(e, C, w, k, Tail1(a, i), Tail1(u, j), Pos(e, n), lb)
<1>0. PICK A : A = Pos(e, n)
  OBVIOUS
<1>1. A \in Nat /\ la < A
  BY <1>0, PosType, WritesFit
<1>2. PICK lo, mid \in Nat :
        /\ Queue(e, C, w, k, a, lo, mid) /\ Queue(e, C, w, k, u, mid, lb) /\ lo <= la
  BY DEF Sending
<1>3. a \in Seq(Segs) /\ u \in Seq(Segs) /\ Len(a) \in Nat /\ Len(u) \in Nat
  BY <1>2 DEF Queue
<1>4. /\ i \in 0 .. Len(a)
      /\ \A x \in 1 .. i : EndPos(e, a[x]) <= A
      /\ \A x \in 1 .. Len(a) : x > i => EndPos(e, a[x]) > A
  BY <1>0, <1>2, AckedFront DEF AckedOf
<1>5. /\ j \in 0 .. Len(u)
      /\ \A x \in 1 .. j : EndPos(e, u[x]) <= A
      /\ \A x \in 1 .. Len(u) : x > j => EndPos(e, u[x]) > A
  BY <1>0, <1>2, AckedFront DEF AckedOf
<1>6. PICK m1 \in Nat : Queue(e, C, w, k, SubSeq(a, 1, i), lo, m1) /\ Queue(e, C, w, k, Tail1(a, i), m1, mid)
  BY <1>2, <1>4, QueueSplit
<1>7. PICK m2 \in Nat : Queue(e, C, w, k, SubSeq(u, 1, j), mid, m2) /\ Queue(e, C, w, k, Tail1(u, j), m2, lb)
  BY <1>2, <1>5, QueueSplit
<1>8. /\ Len(SubSeq(a, 1, i)) = i /\ (\A x \in 1 .. i : SubSeq(a, 1, i)[x] = a[x])
      /\ Len(Tail1(a, i)) = Len(a) - i /\ (\A x \in 1 .. Len(a) - i : Tail1(a, i)[x] = a[i + x])
      /\ Tail1(a, i) \in Seq(Segs)
  BY <1>3, <1>4, SplitIs
<1>9. /\ Len(SubSeq(u, 1, j)) = j /\ (\A x \in 1 .. j : SubSeq(u, 1, j)[x] = u[x])
      /\ Len(Tail1(u, j)) = Len(u) - j /\ (\A x \in 1 .. Len(u) - j : Tail1(u, j)[x] = u[j + x])
      /\ SubSeq(u, 1, j) \in Seq(Segs) /\ Tail1(u, j) \in Seq(Segs)
  BY <1>3, <1>5, SplitIs
<1>10. \A x \in 1 .. Len(Tail1(a, i)) : A < EndPos(e, Tail1(a, i)[x])
  <2> TAKE x \in 1 .. Len(Tail1(a, i))
  <2>1. x \in 1 .. Len(a) - i /\ i + x \in 1 .. Len(a) /\ i + x > i
    BY <1>3, <1>4, <1>8
  <2>2. Tail1(a, i)[x] = a[i + x] /\ EndPos(e, a[i + x]) > A
    BY <1>4, <1>8, <2>1
  <2>3. SegOK(e, C, w, k, a[i + x])
    BY <1>2, <2>1 DEF Queue
  <2>4. EndPos(e, a[i + x]) \in Nat
    BY <2>3, SegFacts
  <2> QED BY <1>1, <2>2, <2>4
<1>11. \A x \in 1 .. Len(Tail1(u, j)) : A < EndPos(e, Tail1(u, j)[x])
  <2> TAKE x \in 1 .. Len(Tail1(u, j))
  <2>1. x \in 1 .. Len(u) - j /\ j + x \in 1 .. Len(u) /\ j + x > j
    BY <1>3, <1>5, <1>9
  <2>2. Tail1(u, j)[x] = u[j + x] /\ EndPos(e, u[j + x]) > A
    BY <1>5, <1>9, <2>1
  <2>3. SegOK(e, C, w, k, u[j + x])
    BY <1>2, <2>1 DEF Queue
  <2>4. EndPos(e, u[j + x]) \in Nat
    BY <2>3, SegFacts
  <2> QED BY <1>1, <2>2, <2>4
<1>12. CASE j = 0
  <2>1. SubSeq(u, 1, j) = <<>>
    BY <1>9, <1>12, NoLength
  <2>2. m2 = mid
    BY <1>7, <2>1, QueueEmpty
  <2>3. \A x \in 1 .. Len(SubSeq(a, 1, i)) : EndPos(e, SubSeq(a, 1, i)[x]) <= A
    BY <1>4, <1>8
  <2>4. m1 <= A
    <3>1. lo <= A
      BY <1>1, <1>2
    <3> QED BY <1>1, <1>6, <2>3, <3>1, FrontBelow
  <2>5. Sending(e, C, w, k, Tail1(a, i), Tail1(u, j), A, lb)
    BY <1>6, <1>7, <1>10, <1>11, <2>2, <2>4 DEF Sending
  <2> QED BY <1>0, <1>3, <1>4, <1>5, <2>5
<1>13. CASE j # 0
  <2>1. 1 \in 1 .. j /\ 1 \in 1 .. Len(u)
    BY <1>3, <1>5, <1>13
  <2>2. SegOK(e, C, w, k, u[1]) /\ mid <= Pos(e, u[1].seq) /\ EndPos(e, u[1]) <= A
    BY <1>2, <1>5, <2>1 DEF Queue
  <2>3. Pos(e, u[1].seq) \in Nat /\ EndPos(e, u[1]) \in Nat /\ EndPos(e, u[1]) > Pos(e, u[1].seq)
    BY <2>2, SegFacts
  <2>4. mid < A
    BY <1>1, <1>2, <2>2, <2>3
  <2>5. i = Len(a)
    <3> SUFFICES ASSUME i # Len(a) PROVE FALSE
      OBVIOUS
    <3>1. i + 1 \in 1 .. Len(a) /\ i + 1 > i
      BY <1>3, <1>4
    <3>2. EndPos(e, a[i + 1]) > A /\ EndPos(e, a[i + 1]) <= mid /\ SegOK(e, C, w, k, a[i + 1])
      BY <1>2, <1>4, <3>1 DEF Queue
    <3>3. EndPos(e, a[i + 1]) \in Nat
      BY <3>2, SegFacts
    <3> QED BY <1>1, <1>2, <2>4, <3>2, <3>3
  <2>6. Tail1(a, i) = <<>>
    <3>0. Len(a) - i = 0
      BY <1>3, <2>5
    <3>1. Len(Tail1(a, i)) = 0
      BY <1>8, <3>0
    <3> QED BY <1>8, <3>1, NoLength
  <2>7. \A x \in 1 .. Len(SubSeq(u, 1, j)) : EndPos(e, SubSeq(u, 1, j)[x]) <= A
    BY <1>5, <1>9
  <2>8. m2 <= A
    <3>1. mid <= A
      BY <1>1, <1>2, <2>4
    <3> QED BY <1>1, <1>7, <2>7, <3>1, FrontBelow
  <2>9. Queue(e, C, w, k, Tail1(a, i), m2, m2)
    BY <1>7, <2>6, QueueNone
  <2>10. Sending(e, C, w, k, Tail1(a, i), Tail1(u, j), A, lb)
    BY <1>7, <1>10, <1>11, <2>8, <2>9 DEF Sending
  <2> QED BY <1>0, <1>3, <1>4, <1>5, <2>10
<1> QED BY <1>12, <1>13

LEMMA NewAckOk ==
  ASSUME NEW g, NEW c, Env(g), Ok(g, c), c.state \in Synced, NEW n \in Seqs, Pos(g.e, n) <= g.lp,
         SeqLt(c.lastack, n), SeqLeq(n, c.snd_max), NEW d, d = NewAck(c, n)
  PROVE  Kept(g, c, d) /\ SameRcv(c, d) /\ d.state = c.state
<1> USE EnvFacts
<1>1. c.state \in Active /\ c.state # "SYN_SENT" /\ c.state # "CLOSED"
  BY StateSets
<1>2. Snd(g, c) /\ Pcb(c)
  BY <1>1 DEF Ok
<1>3. PICK la, lb, mx, A : la = Pos(g.e, c.lastack) /\ lb = Pos(g.e, c.snd_lbb) /\ mx = Pos(g.e, c.snd_max)
                           /\ A = Pos(g.e, n)
  OBVIOUS
<1>4. /\ c.unsent \in Seq(Segs) /\ c.unacked \in Seq(Segs) /\ la \in Nat /\ lb \in Nat /\ mx \in Nat
      /\ lb <= c.written + 2 /\ la <= mx /\ mx <= lb
      /\ c.lastack \in Seqs /\ c.snd_max \in Seqs /\ c.snd_lbb \in Seqs
  BY <1>1, <1>3, SndFacts
<1>5. Writes(g.e, g.C, c.written, c.closing) /\ c.written \in Nat /\ c.written + 2 < SeqSpace \div 2
  BY OkFacts
<1>6. A \in Nat /\ A <= c.written + 2
  <2>1. g.lp <= c.written + 2
    BY DEF Ok, Life
  <2>2. A \in Nat /\ A <= g.lp /\ g.lp \in Nat
    BY <1>3, PosType
  <2> QED BY <1>5, <2>1, <2>2
<1>7. la < A /\ A <= mx
  <2>1. la < SeqSpace \div 2 /\ mx < SeqSpace \div 2 /\ A < SeqSpace \div 2
    BY <1>4, <1>5, <1>6, TcpConsts
  <2>2. SeqLt(c.lastack, n) <=> la < A
    BY <1>3, <1>4, <2>1, PosLt
  <2>3. SeqLeq(n, c.snd_max) <=> A <= mx
    BY <1>3, <1>4, <2>1, PosLt
  <2> QED BY <2>2, <2>3
<1>8. PICK u, a : /\ u = Lead(c.unsent, {x \in DOMAIN c.unsent : SeqLeq(SegEnd(c.unsent[x]), n)})
                  /\ a = Lead(c.unacked, {x \in DOMAIN c.unacked : SeqLeq(SegEnd(c.unacked[x]), n)})
  OBVIOUS
<1>9. PICK buf, ql, nx, us, ua :
        /\ buf = (c.snd_buf + Diff(n, c.lastack)) % BufMod
        /\ ql = c.qlen - QueueLen(SubSeq(c.unsent, 1, u)) - QueueLen(SubSeq(c.unacked, 1, a))
        /\ nx = (IF u > 0 /\ u < Len(c.unsent) THEN c.unsent[u + 1].seq ELSE c.snd_nxt)
        /\ us = Tail1(c.unsent, u) /\ ua = Tail1(c.unacked, a)
  OBVIOUS
<1>10. d = [c EXCEPT !.infr = FALSE, !.nrtx = 0, !.dupacks = 0, !.lastack = n, !.snd_buf = buf,
                     !.cwnd = TcpWnd, !.unsent = us, !.unacked = ua, !.qlen = ql, !.snd_nxt = nx]
  BY <1>2, <1>8, <1>9 DEF NewAck, Pcb, Fields
<1>11. /\ Pcb(d) /\ d.lastack = n /\ d.snd_buf = buf /\ d.unsent = us /\ d.unacked = ua /\ d.qlen = ql
       /\ d.snd_nxt = nx /\ d.snd_max = c.snd_max /\ d.snd_lbb = c.snd_lbb /\ d.written = c.written
       /\ d.closing = c.closing /\ d.state = c.state /\ d.delay = c.delay /\ d.out = c.out
  <2>0. Pcb(c)
    BY <1>2
  <2>1. /\ Pcb(d) /\ d.lastack = n /\ d.snd_buf = buf /\ d.unsent = us /\ d.unacked = ua /\ d.qlen = ql
        /\ d.snd_nxt = nx
    BY ONLY <2>0, <1>10 DEF Pcb, Fields
  <2>2. /\ d.snd_max = c.snd_max /\ d.snd_lbb = c.snd_lbb /\ d.written = c.written
        /\ d.closing = c.closing /\ d.state = c.state /\ d.delay = c.delay /\ d.out = c.out
    BY ONLY <2>0, <1>10 DEF Pcb, Fields
  <2> QED BY <2>1, <2>2
<1>12. SameRcv(c, d) /\ SameApp(c, d)
  BY <1>2, <1>10 DEF Pcb, Fields, SameRcv, SameApp
<1>13. Sending(g.e, g.C, c.written, c.closing, c.unacked, c.unsent, la, lb)
  BY <1>2, <1>3 DEF Snd
<1>14. /\ a \in 0 .. Len(c.unacked) /\ u \in 0 .. Len(c.unsent)
       /\ Sending(g.e, g.C, c.written, c.closing, ua, us, A, lb)
  <2>1. PICK qa, qu, ce, cw, ck : /\ qa = c.unacked /\ qu = c.unsent /\ ce = g.e /\ cw = c.written
                                  /\ ck = c.closing
    OBVIOUS
  <2>2. PICK cc : cc = g.C
    OBVIOUS
  <2>3. Writes(ce, cc, cw, ck) /\ Sending(ce, cc, cw, ck, qa, qu, la, lb)
    BY <1>5, <1>13, <2>1, <2>2
  <2>4. /\ a = Lead(qa, AckedOf(qa, n))
        /\ u = Lead(qu, AckedOf(qu, n))
    BY <1>8, <2>1 DEF AckedOf
  <2>5. n \in Seqs /\ Pos(ce, n) <= cw + 2 /\ la < Pos(ce, n) /\ la \in Nat /\ lb \in Nat
    BY <1>3, <1>4, <1>6, <1>7, <2>1
  <2>6. /\ a \in 0 .. Len(qa) /\ u \in 0 .. Len(qu)
        /\ Sending(ce, cc, cw, ck, Tail1(qa, a), Tail1(qu, u), Pos(ce, n), lb)
    BY ONLY <2>3, <2>4, <2>5, AckedQueues
  <2> QED BY <1>3, <1>9, <2>1, <2>2, <2>6
<1>15. ql = QueueLen(us) + QueueLen(ua)
  <2>1. c.qlen = QueueLen(c.unsent) + QueueLen(c.unacked)
    BY <1>2 DEF Snd
  <2>2. /\ QueueLen(c.unsent) = QueueLen(SubSeq(c.unsent, 1, u)) + QueueLen(us)
        /\ Counted(SubSeq(c.unsent, 1, u)) /\ Counted(us)
    BY <1>4, <1>9, <1>14, QueueLenSplit DEF Counted
  <2>3. /\ QueueLen(c.unacked) = QueueLen(SubSeq(c.unacked, 1, a)) + QueueLen(ua)
        /\ Counted(SubSeq(c.unacked, 1, a)) /\ Counted(ua)
    BY <1>4, <1>9, <1>14, QueueLenSplit DEF Counted
  <2>4. /\ QueueLen(SubSeq(c.unsent, 1, u)) \in Nat /\ QueueLen(us) \in Nat
        /\ QueueLen(SubSeq(c.unacked, 1, a)) \in Nat /\ QueueLen(ua) \in Nat
    BY <2>2, <2>3, QueueLenNat
  <2> QED BY <1>9, <2>1, <2>2, <2>3, <2>4
<1>16. (buf + (lb - A)) % BufMod = TcpSndBuf - Used(g, c) /\ buf \in Int
  <2>1. Diff(n, c.lastack) = A - la
    <3>1. A >= la
      BY <1>4, <1>6, <1>7
    <3> QED BY <1>3, <1>4, <3>1, PosDiff
  <2>2. c.snd_buf \in Int /\ (c.snd_buf + (lb - la)) % BufMod = TcpSndBuf - Used(g, c)
    BY <1>2, <1>3 DEF Snd
  <2>3. BufMod \in Nat /\ BufMod > 0
    BY TcpConsts
  <2>4. PICK x, y : x = c.snd_buf + (A - la) /\ y = lb - A
    OBVIOUS
  <2>5. x \in Int /\ y \in Int /\ x + y = c.snd_buf + (lb - la)
    BY <1>4, <1>6, <2>2, <2>4
  <2>6. ((x % BufMod) + y) % BufMod = (x + y) % BufMod
    BY <2>3, <2>5, ModPlus
  <2>7. buf = x % BufMod
    BY <1>9, <2>1, <2>4
  <2>8. x % BufMod \in Int
    BY <2>3, <2>5
  <2> QED BY <2>2, <2>4, <2>5, <2>6, <2>7, <2>8
<1>17. Snd(g, d)
  <2>1. Used(g, d) = Used(g, c)
    BY <1>11 DEF Used
  <2>2. Pos(g.e, d.lastack) = A /\ Pos(g.e, d.snd_lbb) = lb /\ Pos(g.e, d.snd_max) = mx
    BY <1>3, <1>11
  <2>3. A <= g.lp
    BY <1>3
  <2>4. lb = c.written + (IF c.state \in Open THEN 1 ELSE 2) /\ \A x \in g.C : x < lb
    BY <1>2, <1>3 DEF Snd
  <2>5. d.lastack \in Seqs /\ d.snd_max \in Seqs /\ d.snd_lbb \in Seqs /\ d.snd_buf \in Int
        /\ A <= mx /\ mx <= lb
    BY <1>4, <1>7, <1>11, <1>16
  <2> QED BY <1>11, <1>14, <1>15, <1>16, <2>1, <2>2, <2>3, <2>4, <2>5 DEF Snd
<1>18. nx \in Seqs /\ Pos(g.e, nx) <= c.written + 2
  <2>1. CASE u > 0 /\ u < Len(c.unsent)
    <3>1. u + 1 \in 1 .. Len(c.unsent)
      BY <1>4, <1>14, <2>1
    <3>2. SegOK(g.e, g.C, c.written, c.closing, c.unsent[u + 1])
      BY <1>1, <3>1, SndFacts
    <3>3. c.unsent[u + 1].seq \in Seqs /\ Pos(g.e, c.unsent[u + 1].seq) <= c.written + 1 /\ Pos(g.e, c.unsent[u + 1].seq) \in Nat
      BY <1>5, <3>2, SegFacts
    <3> QED BY <1>5, <1>9, <2>1, <3>3
  <2>2. CASE ~(u > 0 /\ u < Len(c.unsent))
    <3>1. nx = c.snd_nxt
      BY <1>9, <2>2
    <3> QED BY <1>1, <3>1 DEF Ok, Life
  <2> QED BY <2>1, <2>2
<1>19. Lim(g, d) = Lim(g, c) /\ Lim(g, c) \in Nat
  BY <1>11, <1>12, OkFacts DEF Lim, SameRcv
<1>20. Life(g, d)
  <2>1. c.state = "SYN_RCVD" => Accepting(g, d)
    BY <1>12 DEF Ok, Life, Accepting, SameRcv
  <2> QED BY <1>1, <1>11, <1>12, <1>18, <2>1 DEF Ok, Life, SameRcv, SameApp
<1>21. \A s \in d.out : Sends(g, d, s)
  BY <1>11, <1>19 DEF Ok, Sends
<1>22. Heard(g, d) /\ Rcv(g, d)
  BY <1>12, HeardSame, RcvSame DEF Ok
<1> QED BY <1>11, <1>12, <1>17, <1>19, <1>20, <1>21, <1>22 DEF Kept, Ok

LEMMA ReceiveAckOk ==
  ASSUME NEW g, NEW c, Env(g), Ok(g, c), c.state \in Synced, NEW s, s.ackno \in Seqs, s.ack \in BOOLEAN,
         s.ack => Pos(g.e, s.ackno) <= g.lp, NEW d, d = ReceiveAck(c, s)
  PROVE  Kept(g, c, d) /\ SameRcv(c, d) /\ d.state = c.state
<1>1. CASE ~s.ack
  <2>1. d = c
    BY <1>1 DEF ReceiveAck
  <2> QED BY <2>1, KeptRefl DEF SameRcv
<1>2. CASE s.ack
  <2>1. PICK w : w = UpdateWnd(c, s)
    OBVIOUS
  <2>2. Kept(g, c, w) /\ Same(c, w)
    BY <2>1, UpdateWndOk
  <2>3. Ok(g, w) /\ w.state \in Synced /\ w.state = c.state /\ SameRcv(c, w)
    BY <2>2 DEF Kept, Same
  <2>4. CASE w.lastack = s.ackno
    <3>1. d = DupAck(w)
      <4>1. PICK na : na = NewAck(w, s.ackno)
        OBVIOUS
      <4>2. d = CASE ~s.ack -> c
                  [] s.ack /\ w.lastack = s.ackno -> DupAck(w)
                  [] s.ack /\ SeqLt(w.lastack, s.ackno) /\ SeqLeq(s.ackno, w.snd_max) -> na
                  [] OTHER -> w
        BY <2>1, <4>1 DEF ReceiveAck
      <4>3. ~SeqLt(w.lastack, s.ackno)
        <5>1. Diff(s.ackno, s.ackno) = 0
          BY DiffIs DEF Seqs
        <5>2. SeqSpace \div 2 \in Nat /\ SeqSpace \div 2 > 0
          BY EnvFacts
        <5> QED BY <2>4, <5>1, <5>2 DEF SeqLt
      <4> QED BY <1>2, <2>4, <4>2, <4>3
    <3>2. Kept(g, w, d) /\ Same(w, d)
      BY <2>3, <3>1, DupAckOk
    <3>3. SameRcv(c, d) /\ d.state = c.state
      BY <2>3, <3>2 DEF Same, SameRcv
    <3> QED BY <2>2, <3>2, <3>3, KeptTrans
  <2>5. CASE w.lastack # s.ackno /\ SeqLt(w.lastack, s.ackno) /\ SeqLeq(s.ackno, w.snd_max)
    <3>1. d = NewAck(w, s.ackno)
      BY <1>2, <2>1, <2>5 DEF ReceiveAck
    <3>2. Kept(g, w, d) /\ SameRcv(w, d) /\ d.state = w.state
      BY <1>2, <2>3, <2>5, <3>1, NewAckOk
    <3>3. SameRcv(c, d) /\ d.state = c.state
      BY <2>3, <3>2 DEF SameRcv
    <3> QED BY <2>2, <3>2, <3>3, KeptTrans
  <2>6. CASE w.lastack # s.ackno /\ ~(SeqLt(w.lastack, s.ackno) /\ SeqLeq(s.ackno, w.snd_max))
    <3>1. d = w
      BY <1>2, <2>1, <2>6 DEF ReceiveAck
    <3> QED BY <2>2, <2>3, <3>1
  <2> QED BY <2>4, <2>5, <2>6
<1> QED BY <1>1, <1>2

-----------------------------------------------------------------------------
-----------------------------------------------------------------------------
(* Data that follows data *)
FlatDef(f, q) == f = [i \in 1 .. Len(q) |-> IF i = 1 THEN q[i] ELSE f[i - 1] \o q[i]]

(* The numbers after a, up to b *)
RunOf(a, b) == [j \in 1 .. b - a |-> a + j]
(* q is cut from the run of all numbers, at the places h. *)
Cut(q, h) ==
  /\ q \in Seq(Seq(Nat)) /\ Len(q) >= 1
  /\ h \in [0 .. Len(q) -> Nat]
  /\ \A i \in 1 .. Len(q) : h[i] = h[i - 1] + Len(q[i])
  /\ \A i \in 1 .. Len(q) : \A j \in 1 .. Len(q[i]) : q[i][j] = h[i - 1] + j

LEMMA RunType ==
  ASSUME NEW a \in Nat, NEW b \in Nat, a <= b
  PROVE  /\ RunOf(a, b) \in Seq(Nat) /\ Len(RunOf(a, b)) = b - a
         /\ \A j \in 1 .. b - a : RunOf(a, b)[j] = a + j
<1>1. b - a \in Nat
  OBVIOUS
<1>2. RunOf(a, b) \in [1 .. b - a -> Nat]
  BY DEF RunOf
<1> QED BY <1>1, <1>2 DEF RunOf

Continues(a, b, c, x) ==
  /\ a \in Nat /\ b \in Nat /\ c \in Nat /\ a <= b /\ b <= c /\ x \in Seq(Nat) /\ Len(x) = c - b
  /\ \A j \in 1 .. Len(x) : x[j] = b + j

LEMMA RunJoin ==
  ASSUME NEW a, NEW b, NEW c, NEW x, Continues(a, b, c, x)
  PROVE  RunOf(a, b) \o x = RunOf(a, c)
<1> SUFFICES ASSUME a \in Nat, b \in Nat, c \in Nat, a <= b, b <= c, x \in Seq(Nat), Len(x) = c - b,
                    \A j \in 1 .. Len(x) : x[j] = b + j
             PROVE  RunOf(a, b) \o x = RunOf(a, c)
  BY DEF Continues
<1>1. PICK r, z : r = RunOf(a, b) /\ z = RunOf(a, c)
  OBVIOUS
<1>2. r \in Seq(Nat) /\ Len(r) = b - a /\ \A j \in 1 .. b - a : r[j] = a + j
  BY <1>1, RunType
<1>3. z \in Seq(Nat) /\ Len(z) = c - a /\ \A j \in 1 .. c - a : z[j] = a + j
  <2>1. a <= c
    OBVIOUS
  <2> QED BY <1>1, <2>1, RunType
<1>4. r \o x \in Seq(Nat) /\ Len(r \o x) = c - a
  <2>1. r \o x \in Seq(Nat) /\ Len(r \o x) = Len(r) + Len(x)
    <3>1. r \in Seq(Nat)
      BY <1>2
    <3> QED BY ONLY <3>1, x \in Seq(Nat), ConcatProperties
  <2>2. (b - a) + (c - b) = c - a
    BY ONLY a \in Nat, b \in Nat, c \in Nat
  <2> QED BY ONLY <1>2, <2>1, <2>2, Len(x) = c - b
<1>5. ASSUME NEW j \in 1 .. c - a PROVE (r \o x)[j] = z[j]
  <2>1. z[j] = a + j
    BY <1>3
  <2>2. CASE j <= b - a
    <3>1. j \in 1 .. Len(r) /\ j \in 1 .. b - a
      BY ONLY <1>2, <2>2, j \in 1 .. c - a, a \in Nat, b \in Nat, c \in Nat
    <3>2. (r \o x)[j] = r[j]
      BY ONLY <1>2, <3>1, x \in Seq(Nat)
    <3> QED BY <1>2, <2>1, <3>1, <3>2
  <2>3. CASE j > b - a
    <3>1. (r \o x)[j] = x[j - (b - a)]
      <4>1. j \in Len(r) + 1 .. Len(r) + Len(x)
        BY ONLY <1>2, <2>3, j \in 1 .. c - a, a \in Nat, b \in Nat, c \in Nat, a <= b, b <= c, Len(x) = c - b
      <4>2. (r \o x)[j] = x[j - Len(r)]
        BY ONLY <1>2, <4>1, x \in Seq(Nat)
      <4> QED BY ONLY <1>2, <4>2
    <3>2. j - (b - a) \in 1 .. Len(x)
      BY <2>3
    <3>3. x[j - (b - a)] = b + (j - (b - a))
      BY <3>2
    <3> QED BY <2>1, <3>1, <3>3
  <2>4. j <= b - a \/ j > b - a
    OBVIOUS
  <2> QED BY <2>2, <2>3, <2>4
<1>6. r \o x = z
  <2>1. PICK y : y = r \o x
    OBVIOUS
  <2>2. y \in Seq(Nat) /\ Len(y) = c - a /\ \A j \in 1 .. c - a : y[j] = z[j]
    BY <1>4, <1>5, <2>1
  <2>3. y = z
    BY ONLY <1>3, <2>2, SeqEqual
  <2> QED BY <2>1, <2>3
<1> QED BY <1>1, <1>6

LEMMA CutUp ==
  ASSUME NEW q, NEW h, Cut(q, h)
  PROVE  \A i \in 0 .. Len(q) : h[i] \in Nat /\ h[0] \in Nat /\ h[0] <= h[i]
<1> DEFINE G == {i \in Nat : i <= Len(q) => h[0] <= h[i]}
<1>1. Len(q) \in Nat /\ \A i \in 0 .. Len(q) : h[i] \in Nat
  <2>1. Len(q) \in Nat
    BY DEF Cut
  <2>2. h \in [0 .. Len(q) -> Nat]
    BY DEF Cut
  <2> QED BY <2>1, <2>2
<1>2. 0 \in 0 .. Len(q) /\ h[0] \in Nat
  BY <1>1
<1>3. 0 \in G
  BY <1>2
<1>4. ASSUME NEW i \in 1 .. Len(q), i - 1 \in G PROVE i \in G
  <2>1. i - 1 \in 0 .. Len(q) /\ i \in 0 .. Len(q) /\ i - 1 <= Len(q)
    BY <1>1
  <2>2. h[i - 1] \in Nat /\ h[i] \in Nat /\ h[0] <= h[i - 1]
    BY <1>1, <1>4, <2>1
  <2>3. q[i] \in Seq(Nat) /\ Len(q[i]) \in Nat /\ h[i] = h[i - 1] + Len(q[i])
    BY DEF Cut
  <2> QED BY <1>2, <2>2, <2>3
<1>5. \A i \in 0 .. Len(q) : i \in G
  <2> HIDE DEF G
  <2> QED BY <1>1, <1>3, <1>4, StepsUp
<1> QED BY <1>1, <1>2, <1>5

LEMMA FlattenIs ==
  ASSUME NEW q, NEW h, Cut(q, h)
  PROVE  FlattenSeq(q) = RunOf(h[0], h[Len(q)])
<1>0. Len(q) \in Nat /\ Len(q) >= 1 /\ \A i \in 1 .. Len(q) : q[i] \in Seq(Nat) /\ Len(q[i]) \in Nat
  BY DEF Cut
<1>1. PICK f : f = [i \in 1 .. Len(q) |-> RunOf(h[0], h[i])]
  OBVIOUS
<1>2. ASSUME NEW i \in 1 .. Len(q) PROVE RunOf(h[0], h[i - 1]) \o q[i] = RunOf(h[0], h[i])
  <2>1. i - 1 \in 0 .. Len(q) /\ i \in 0 .. Len(q)
    BY <1>0
  <2>2. h[0] \in Nat /\ h[i - 1] \in Nat /\ h[i] \in Nat /\ h[0] <= h[i - 1]
    BY <2>1, CutUp
  <2>3. h[i] = h[i - 1] + Len(q[i]) /\ \A j \in 1 .. Len(q[i]) : q[i][j] = h[i - 1] + j
    BY DEF Cut
  <2>4. PICK a, b, c, x : a = h[0] /\ b = h[i - 1] /\ c = h[i] /\ x = q[i]
    OBVIOUS
  <2>5. /\ a \in Nat /\ b \in Nat /\ c \in Nat /\ a <= b /\ x \in Seq(Nat) /\ Len(x) \in Nat /\ c = b + Len(x)
        /\ \A j \in 1 .. Len(x) : x[j] = b + j
    BY <1>0, <2>2, <2>3, <2>4
  <2>6. b <= c /\ Len(x) = c - b
    BY ONLY <2>5
  <2>7. RunOf(a, b) \o x = RunOf(a, c)
    <3>1. Continues(a, b, c, x)
      BY ONLY <2>5, <2>6 DEF Continues
    <3> QED BY ONLY <3>1, RunJoin
  <2> QED BY <2>4, <2>7
<1>3. RunOf(h[0], h[1]) = q[1]
  <2>1. 1 \in 1 .. Len(q)
    BY <1>0
  <2>2. 1 - 1 = 0
    OBVIOUS
  <2>3. RunOf(h[0], h[0]) \o q[1] = RunOf(h[0], h[1])
    BY <1>2, <2>1, <2>2
  <2>4. h[0] \in Nat
    BY <1>0, CutUp
  <2>5. RunOf(h[0], h[0]) \in Seq(Nat) /\ Len(RunOf(h[0], h[0])) = 0
    <3>1. h[0] - h[0] = 0 /\ h[0] <= h[0]
      BY <2>4
    <3> QED BY <2>4, <3>1, RunType
  <2>6. RunOf(h[0], h[0]) = <<>>
    BY <2>5, NoLength
  <2>7. <<>> \o q[1] = q[1]
    BY <1>0, <2>1
  <2> QED BY <2>3, <2>6, <2>7
<1>4. FlatDef(f, q)
  <2>1. ASSUME NEW i \in 1 .. Len(q) PROVE f[i] = IF i = 1 THEN q[i] ELSE f[i - 1] \o q[i]
    <3>1. CASE i = 1
      BY <1>0, <1>1, <1>3, <3>1
    <3>2. CASE i # 1
      <4>1. i - 1 \in 1 .. Len(q)
        BY <1>0, <3>2
      <4>2. f[i - 1] = RunOf(h[0], h[i - 1]) /\ f[i] = RunOf(h[0], h[i])
        BY <1>1, <4>1
      <4> QED BY <1>2, <3>2, <4>2
    <3> QED BY <3>1, <3>2
  <2>2. f = [i \in 1 .. Len(q) |-> f[i]]
    BY <1>1
  <2> QED BY <2>1, <2>2 DEF FlatDef
<1>5. PICK g : g = CHOOSE x : FlatDef(x, q)
  OBVIOUS
<1>6. FlatDef(g, q)
  BY <1>4, <1>5
<1>7. FlattenSeq(q) = g[Len(q)]
  BY <1>0, <1>5 DEF FlattenSeq, FlatDef
<1>8. \A i \in 1 .. Len(q) : g[i] = IF i = 1 THEN q[i] ELSE g[i - 1] \o q[i]
  BY <1>6 DEF FlatDef
<1>9. \A i \in 1 .. Len(q) : f[i] = IF i = 1 THEN q[i] ELSE f[i - 1] \o q[i]
  BY <1>4 DEF FlatDef
<1> DEFINE G == {i \in Nat : i \in 1 .. Len(q) => g[i] = f[i]}
<1>10. 0 \in G
  OBVIOUS
<1>11. ASSUME NEW i \in 1 .. Len(q), i - 1 \in G PROVE i \in G
  <2>1. CASE i = 1
    BY <1>8, <1>9, <2>1
  <2>2. CASE i # 1
    <3>1. i - 1 \in 1 .. Len(q)
      BY <1>0, <2>2
    <3>2. g[i - 1] = f[i - 1]
      BY <1>11, <3>1
    <3> QED BY <1>8, <1>9, <2>2, <3>2
  <2> QED BY <2>1, <2>2
<1>12. \A i \in 0 .. Len(q) : i \in G
  <2> HIDE DEF G
  <2> QED BY <1>0, <1>10, <1>11, StepsUp
<1>13. g[Len(q)] = f[Len(q)]
  BY <1>0, <1>12
<1> QED BY <1>0, <1>1, <1>7, <1>13

-----------------------------------------------------------------------------
(* tcp_receive: the data.  What is left of a segment that begins before     *)
(* rcv_nxt need not begin where a segment was begun.                        *)
Piece(g, x) ==
  /\ x.seq \in Seqs /\ x.data \in Seq(Nat) /\ x.syn \in BOOLEAN /\ x.fin \in BOOLEAN /\ ~x.syn
  /\ Pos(g.p, x.seq) >= 1
  /\ x.fin => x.data = <<>> /\ Pos(g.p, x.seq) = g.w + 1 /\ g.k
  /\ \A i \in 1 .. Len(x.data) : x.data[i] = Pos(g.p, x.seq) - 1 + i
  /\ Pos(g.p, x.seq) + Len(x.data) <= g.w + 1
  /\ \A a \in g.Cp : a <= Pos(g.p, x.seq) \/ a >= EndPos(g.p, x)

LEMMA SegPiece ==
  ASSUME NEW g, NEW x, SegOK(g.p, g.Cp, g.w, g.k, x), ~x.syn
  PROVE  Piece(g, x)
BY DEF SegOK, Piece

LEMMA PieceFacts ==
  ASSUME NEW g, NEW x, Env(g), Piece(g, x)
  PROVE  /\ Pos(g.p, x.seq) \in Nat /\ Len(x.data) \in Nat /\ EndPos(g.p, x) \in Nat
         /\ Pos(g.p, x.seq) <= EndPos(g.p, x) /\ EndPos(g.p, x) <= g.w + 2 /\ Pos(g.p, x.seq) <= g.w + 1
         /\ (x.fin => EndPos(g.p, x) = g.w + 2 /\ g.k)
         /\ (~x.fin => EndPos(g.p, x) = Pos(g.p, x.seq) + Len(x.data) /\ EndPos(g.p, x) <= g.w + 1)
         /\ SegEnd(x) \in Seqs /\ Pos(g.p, SegEnd(x)) = EndPos(g.p, x)
         /\ Plus(x.seq, Len(x.data)) \in Seqs
         /\ Pos(g.p, Plus(x.seq, Len(x.data))) = Pos(g.p, x.seq) + Len(x.data)
         /\ Pos(g.p, x.seq) + Len(x.data) <= EndPos(g.p, x)
<1>1. g.p \in Ends /\ g.w \in Nat /\ g.w + 2 < SeqSpace /\ SeqSpace \in Nat
  BY EnvFacts
<1>2. x.seq \in Seqs /\ x.data \in Seq(Nat) /\ x.syn \in BOOLEAN /\ x.fin \in BOOLEAN /\ ~x.syn
  BY DEF Piece
<1>3. PICK P, L, T : P = Pos(g.p, x.seq) /\ L = Len(x.data) /\ T = TcpLen(x)
  OBVIOUS
<1>4. P \in Nat /\ L \in Nat /\ T \in Nat /\ (x.fin => T = L + 1) /\ (~x.fin => T = L)
  BY <1>1, <1>2, <1>3, PosType, TcpLenIs
<1>5. P + L <= g.w + 1 /\ (x.fin => P = g.w + 1 /\ L = 0 /\ g.k)
  BY <1>3 DEF Piece
<1>6. EndPos(g.p, x) = P + T
  BY <1>3 DEF EndPos
<1>7. P + T <= g.w + 2 /\ P + T < SeqSpace /\ P + L < SeqSpace /\ P <= g.w + 1
  BY <1>1, <1>4, <1>5
<1>8. SegEnd(x) \in Seqs /\ Pos(g.p, SegEnd(x)) = P + T
  BY <1>1, <1>2, <1>3, <1>4, <1>7, PosPlus DEF SegEnd
<1>9. Plus(x.seq, L) \in Seqs /\ Pos(g.p, Plus(x.seq, L)) = P + L
  BY <1>1, <1>2, <1>3, <1>4, <1>7, PosPlus
<1>10. P + T \in Nat /\ P <= P + T /\ P + L <= P + T
  BY <1>4, <1>5
<1>11. x.fin => P + T = g.w + 2 /\ g.k
  BY <1>1, <1>4, <1>5
<1>12. ~x.fin => P + T = P + L /\ P + T <= g.w + 1
  BY <1>1, <1>4, <1>5
<1> QED BY ONLY <1>3, <1>4, <1>6, <1>7, <1>8, <1>9, <1>10, <1>11, <1>12

(* Pieces that follow each other hold the bytes between their ends. *)
LEMMA PiecesRun ==
  ASSUME NEW g, Env(g), NEW n \in Nat, n >= 1, NEW q,
         \A i \in 1 .. n : Piece(g, q[i]),
         \A i \in 1 .. n : i # 1 => Pos(g.p, q[i].seq) = EndPos(g.p, q[i - 1])
  PROVE  FlattenSeq([i \in 1 .. n |-> q[i].data]) =
           RunOf(Pos(g.p, q[1].seq) - 1, Upto(g, EndPos(g.p, q[n])))
<1>1. PICK f : f = [i \in 1 .. n |-> q[i].data]
  OBVIOUS
<1>2. \A i \in 1 .. n : f[i] = q[i].data /\ q[i].data \in Seq(Nat)
  BY <1>1 DEF Piece
<1>3. f \in Seq(Seq(Nat)) /\ Len(f) = n
  <2>1. f \in [1 .. n -> Seq(Nat)]
    BY <1>1, <1>2
  <2> QED BY <2>1
<1>4. PICK h : h = [i \in 0 .. n |-> IF i = 0 THEN Pos(g.p, q[1].seq) - 1 ELSE Upto(g, EndPos(g.p, q[i]))]
  OBVIOUS
<1>5. h[0] = Pos(g.p, q[1].seq) - 1 /\ \A i \in 1 .. n : h[i] = Upto(g, EndPos(g.p, q[i]))
  BY <1>4
<1>6. ASSUME NEW i \in 1 .. n
      PROVE  /\ h[i - 1] = Pos(g.p, q[i].seq) - 1 /\ h[i] = h[i - 1] + Len(q[i].data)
             /\ h[i] \in Nat /\ h[i - 1] \in Nat
  <2>0. Piece(g, q[i])
    OBVIOUS
  <2>1. /\ Pos(g.p, q[i].seq) \in Nat /\ Len(q[i].data) \in Nat /\ EndPos(g.p, q[i]) \in Nat
        /\ Pos(g.p, q[i].seq) <= g.w + 1
        /\ (q[i].fin => EndPos(g.p, q[i]) = g.w + 2)
        /\ (~q[i].fin => EndPos(g.p, q[i]) = Pos(g.p, q[i].seq) + Len(q[i].data) /\ EndPos(g.p, q[i]) <= g.w + 1)
    BY <2>0, PieceFacts
  <2>2. Pos(g.p, q[i].seq) >= 1 /\ q[i].fin \in BOOLEAN
        /\ (q[i].fin => Len(q[i].data) = 0 /\ Pos(g.p, q[i].seq) = g.w + 1)
    BY <2>0 DEF Piece
  <2>3. g.w \in Nat
    BY EnvFacts
  <2>4. h[i - 1] = Pos(g.p, q[i].seq) - 1
    <3>1. CASE i = 1
      BY <1>5, <3>1
    <3>2. CASE i # 1
      <4>1. i - 1 \in 1 .. n
        BY <3>2
      <4>2. h[i - 1] = Upto(g, EndPos(g.p, q[i - 1])) /\ Pos(g.p, q[i].seq) = EndPos(g.p, q[i - 1])
        BY <1>5, <3>2, <4>1
      <4> QED BY <2>1, <2>3, <4>2 DEF Upto
    <3> QED BY <3>1, <3>2
  <2>5. h[i] = Upto(g, EndPos(g.p, q[i]))
    BY <1>5
  <2>6. CASE q[i].fin
    <3>1. h[i] = g.w
      BY <2>1, <2>5, <2>6 DEF Upto
    <3> QED BY <2>1, <2>2, <2>3, <2>4, <2>6, <3>1
  <2>7. CASE ~q[i].fin
    <3>1. h[i] = EndPos(g.p, q[i]) - 1
      BY <2>1, <2>3, <2>5, <2>7 DEF Upto
    <3>2. PICK x, y, P, L, E : /\ x = h[i - 1] /\ y = h[i] /\ P = Pos(g.p, q[i].seq) /\ L = Len(q[i].data)
                               /\ E = EndPos(g.p, q[i])
      OBVIOUS
    <3>3. /\ P \in Nat /\ L \in Nat /\ E \in Nat /\ P >= 1 /\ E = P + L /\ x = P - 1 /\ y = E - 1
      BY <2>1, <2>2, <2>4, <2>7, <3>1, <3>2
    <3>4. x = P - 1 /\ y = x + L /\ y \in Nat /\ x \in Nat
      BY ONLY <3>3
    <3> QED BY <3>2, <3>4
  <2> QED BY <2>6, <2>7
<1>7. h \in [0 .. n -> Nat]
  <2>1. ASSUME NEW i \in 0 .. n PROVE h[i] \in Nat
    <3>1. CASE i = 0
      <4>1. 1 \in 1 .. n /\ 1 - 1 = 0
        OBVIOUS
      <4> QED BY <1>6, <3>1, <4>1
    <3>2. CASE i # 0
      <4>1. i \in 1 .. n
        BY <3>2
      <4> QED BY <1>6, <4>1
    <3> QED BY <3>1, <3>2
  <2>2. h = [i \in 0 .. n |-> h[i]]
    BY <1>4
  <2> QED BY <2>1, <2>2
<1>8. \A i \in 1 .. n : h[i] = h[i - 1] + Len(f[i])
  BY <1>2, <1>6
<1>9. \A i \in 1 .. n : \A j \in 1 .. Len(f[i]) : f[i][j] = h[i - 1] + j
  <2> TAKE i \in 1 .. n
  <2>1. f[i] = q[i].data /\ h[i - 1] = Pos(g.p, q[i].seq) - 1 /\ Piece(g, q[i])
    BY <1>2, <1>6
  <2>2. \A j \in 1 .. Len(q[i].data) : q[i].data[j] = Pos(g.p, q[i].seq) - 1 + j
    BY <2>1 DEF Piece
  <2> QED BY <2>1, <2>2
<1>10. Cut(f, h)
  BY <1>3, <1>7, <1>8, <1>9 DEF Cut
<1>11. FlattenSeq(f) = RunOf(h[0], h[n])
  BY <1>3, <1>10, FlattenIs
<1>12. n \in 1 .. n
  OBVIOUS
<1> QED BY <1>1, <1>5, <1>11, <1>12

(* The segments of the queue o that follow t without a gap *)
ChainOf(o, t) ==
  {j \in 0 .. Len(o) : \A i \in 1 .. j : o[i].seq = IF i = 1 THEN SegEnd(t) ELSE SegEnd(o[i - 1])}

Chain(o, t, r) ==
  /\ r \in 0 .. Len(o)
  /\ \A i \in 1 .. r : o[i].seq = IF i = 1 THEN SegEnd(t) ELSE SegEnd(o[i - 1])
  /\ r < Len(o) => o[r + 1].seq # IF r = 0 THEN SegEnd(t) ELSE SegEnd(o[r])

LEMMA ChainIs ==
  ASSUME NEW S, NEW o \in Seq(S), NEW t, NEW r, r = Following(o, t)
  PROVE  Chain(o, t, r)
<1>1. Len(o) \in Nat /\ ChainOf(o, t) \subseteq 0 .. Len(o) /\ 0 \in ChainOf(o, t)
  BY DEF ChainOf
<1>2. r \in ChainOf(o, t) /\ \A j \in ChainOf(o, t) : j <= r
  <2>1. r = Max(ChainOf(o, t))
    BY DEF Following, ChainOf
  <2> QED BY <1>1, <2>1, GreatestOf
<1>3. /\ r \in 0 .. Len(o)
      /\ \A i \in 1 .. r : o[i].seq = IF i = 1 THEN SegEnd(t) ELSE SegEnd(o[i - 1])
  BY <1>2 DEF ChainOf
<1>4. ASSUME r < Len(o), o[r + 1].seq = IF r = 0 THEN SegEnd(t) ELSE SegEnd(o[r]) PROVE FALSE
  <2>1. r + 1 \in 0 .. Len(o) /\ ~(r + 1 <= r)
    BY <1>1, <1>3, <1>4
  <2>2. ASSUME NEW i \in 1 .. r + 1 PROVE o[i].seq = IF i = 1 THEN SegEnd(t) ELSE SegEnd(o[i - 1])
    <3>1. CASE i \in 1 .. r
      BY <1>3, <3>1
    <3>2. CASE i \notin 1 .. r
      <4>1. i = r + 1 /\ i - 1 = r /\ (i = 1 <=> r = 0)
        BY <1>3, <3>2
      <4> QED BY <1>4, <4>1
    <3> QED BY <3>1, <3>2
  <2>3. r + 1 \in ChainOf(o, t)
    BY <2>1, <2>2 DEF ChainOf
  <2> QED BY <1>2, <2>1, <2>3
<1> QED BY <1>3, <1>4 DEF Chain

LEMMA TrimBackSame ==
  ASSUME NEW g, Env(g), NEW x, x.seq \in Seqs, NEW L \in Nat, L = Len(x.data), NEW n \in Seqs,
         Pos(g.p, x.seq) + L <= Pos(g.p, n), Pos(g.p, n) <= g.w + 2
  PROVE  TrimBack(x, n) = x
<1>1. PICK y : y = Plus(x.seq, L)
  OBVIOUS
<1>2. g.p \in Ends /\ g.w \in Nat /\ g.w + 2 < SeqSpace \div 2 /\ SeqSpace \div 2 \in Nat /\ SeqSpace \in Nat
      /\ g.w + 2 < SeqSpace
  BY EnvFacts, TcpConsts
<1>3. Pos(g.p, x.seq) \in Nat /\ Pos(g.p, n) \in Nat
  BY <1>2, PosType
<1>4. Pos(g.p, x.seq) + L < SeqSpace
  BY <1>2, <1>3
<1>5. y \in Seqs /\ Pos(g.p, y) = Pos(g.p, x.seq) + L
  BY <1>1, <1>2, <1>4, PosPlus
<1>6. Pos(g.p, n) < SeqSpace \div 2 /\ Pos(g.p, y) < SeqSpace \div 2 /\ ~(Pos(g.p, n) < Pos(g.p, y))
  BY <1>2, <1>3, <1>5
<1>7. ~SeqLt(n, y)
  BY <1>2, <1>5, <1>6, PosLt
<1> QED BY <1>1, <1>7 DEF TrimBack

-----------------------------------------------------------------------------
(* What tcp_receive makes of the segment that was expected *)
Accepted(c, b, r, segs) ==
  \E rw, fl :
    /\ fl = FlattenSeq([i \in 1 .. r + 1 |-> segs[i].data])
    /\ b = [c EXCEPT !.rcv_nxt = SegEnd(segs[r + 1]), !.rcv_wnd = rw, !.pend = fl,
                     !.gotfin = c.gotfin \/ segs[1].fin, !.ooseq = Tail1(c.ooseq, r)]

InOrder(c, t, d, r, segs) ==
  /\ Pcb(c) /\ (c.ooseq # <<>> => TrimBack(t, c.ooseq[1].seq) = t) /\ d = InSequence(c, t)
  /\ r = Following(c.ooseq, t) /\ segs = <<t>> \o SubSeq(c.ooseq, 1, r) /\ segs[1] = t

LEMMA InSequenceIs ==
  ASSUME NEW c, NEW t, NEW d, NEW r, NEW segs, InOrder(c, t, d, r, segs)
  PROVE  \E b : Accepted(c, b, r, segs) /\ d = Ack(b)
<1>0. /\ Pcb(c) /\ (c.ooseq # <<>> => TrimBack(t, c.ooseq[1].seq) = t) /\ d = InSequence(c, t)
      /\ r = Following(c.ooseq, t) /\ segs = <<t>> \o SubSeq(c.ooseq, 1, r) /\ segs[1] = t
  BY DEF InOrder
<1>1. PICK u : u = IF c.ooseq = <<>> THEN t ELSE TrimBack(t, c.ooseq[1].seq)
  OBVIOUS
<1>2. u = t
  BY <1>0, <1>1
<1>3. PICK rw : rw = Max({0, c.rcv_wnd - TotalLen(segs)})
  OBVIOUS
<1>4. PICK fl : fl = FlattenSeq([i \in 1 .. r + 1 |-> segs[i].data])
  OBVIOUS
<1>5. PICK b : b = [c EXCEPT !.rcv_nxt = SegEnd(segs[r + 1]), !.rcv_wnd = rw, !.pend = fl,
                     !.gotfin = c.gotfin \/ t.fin, !.ooseq = Tail1(c.ooseq, r)]
  OBVIOUS
<1>8. PICK sg : sg = <<u>> \o SubSeq(c.ooseq, 1, Following(c.ooseq, u))
  OBVIOUS
<1>9. PICK v : v = [c EXCEPT !.rcv_nxt = SegEnd(sg[Following(c.ooseq, u) + 1]),
                   !.rcv_wnd = Max({0, @ - TotalLen(sg)}),
                   !.pend = FlattenSeq([i \in 1 .. Following(c.ooseq, u) + 1 |-> sg[i].data]),
                   !.gotfin = @ \/ t.fin,
                   !.ooseq = Tail1(@, Following(c.ooseq, u))]
  OBVIOUS
<1>10. d = Ack(v)
  BY <1>0, <1>1, <1>8, <1>9 DEF InSequence
<1>11. sg = segs /\ Following(c.ooseq, u) = r
  BY <1>0, <1>2, <1>8
<1>12. v = [c EXCEPT !.rcv_nxt = SegEnd(segs[r + 1]), !.rcv_wnd = Max({0, @ - TotalLen(segs)}),
                   !.pend = fl, !.gotfin = @ \/ t.fin, !.ooseq = Tail1(@, r)]
  BY <1>4, <1>9, <1>11
<1>13. PICK nx, gf, os : nx = SegEnd(segs[r + 1]) /\ gf = (c.gotfin \/ t.fin) /\ os = Tail1(c.ooseq, r)
  OBVIOUS
<1>14. v = [c EXCEPT !.rcv_nxt = nx, !.rcv_wnd = rw, !.pend = fl, !.gotfin = gf, !.ooseq = os]
  BY ONLY <1>0, <1>3, <1>12, <1>13 DEF Pcb, Fields
<1>15. b = [c EXCEPT !.rcv_nxt = nx, !.rcv_wnd = rw, !.pend = fl, !.gotfin = gf, !.ooseq = os]
  BY <1>5, <1>13
<1>6. d = Ack(b)
  BY <1>10, <1>14, <1>15
<1>7. Accepted(c, b, r, segs)
  BY <1>0, <1>4, <1>5 DEF Accepted
<1> QED BY <1>6, <1>7

(* The queued segments that follow, and where they end *)
Taken(g, c, t, r, segs) ==
  /\ r \in 0 .. Len(c.ooseq) /\ segs[1] = t
  /\ \A i \in 1 .. r + 1 : Piece(g, segs[i])
  /\ \A i \in 1 .. r + 1 : i # 1 => Pos(g.p, segs[i].seq) = EndPos(g.p, segs[i - 1])
  /\ t.fin => r = 0
  /\ Pos(g.p, t.seq) <= EndPos(g.p, segs[r + 1])
  /\ r < Len(c.ooseq) => Pos(g.p, c.ooseq[r + 1].seq) > EndPos(g.p, segs[r + 1])

LEMMA EarlyPiece ==
  ASSUME NEW g, NEW c, Env(g), NEW R \in Nat, Early(g, c, R), NEW i \in 1 .. Len(c.ooseq)
  PROVE  /\ Piece(g, c.ooseq[i]) /\ Pos(g.p, c.ooseq[i].seq) > R /\ Pos(g.p, c.ooseq[i].seq) \in Nat
         /\ Pos(g.p, c.ooseq[i].seq) \in g.Cp /\ c.ooseq[i].seq \in Seqs /\ Pos(g.p, c.ooseq[i].seq) <= g.w + 1
         /\ EndPos(g.p, c.ooseq[i]) > Pos(g.p, c.ooseq[i].seq) /\ EndPos(g.p, c.ooseq[i]) \in Nat
<1>1. SegOK(g.p, g.Cp, g.w, g.k, c.ooseq[i]) /\ Pos(g.p, c.ooseq[i].seq) > R
  BY DEF Early
<1>2. /\ Pos(g.p, c.ooseq[i].seq) \in Nat /\ c.ooseq[i].seq \in Seqs /\ Pos(g.p, c.ooseq[i].seq) <= g.w + 1
      /\ (c.ooseq[i].syn => Pos(g.p, c.ooseq[i].seq) = 0)
      /\ EndPos(g.p, c.ooseq[i]) > Pos(g.p, c.ooseq[i].seq) /\ EndPos(g.p, c.ooseq[i]) \in Nat
  BY <1>1, EnvFacts, SegFacts
<1>3. ~c.ooseq[i].syn
  BY <1>1, <1>2
<1>4. Piece(g, c.ooseq[i])
  BY <1>1, <1>3, SegPiece
<1>5. Pos(g.p, c.ooseq[i].seq) \in g.Cp
  BY <1>1 DEF SegOK
<1> QED BY <1>1, <1>2, <1>4, <1>5

LEMMA TakenIs ==
  ASSUME NEW g, NEW c, Env(g), NEW t, Piece(g, t), Early(g, c, Pos(g.p, t.seq)),
         NEW r, r = Following(c.ooseq, t), NEW segs, segs = <<t>> \o SubSeq(c.ooseq, 1, r)
  PROVE  Taken(g, c, t, r, segs)
<1>1. PICK o, p, R : o = c.ooseq /\ p = g.p /\ R = Pos(g.p, t.seq)
  OBVIOUS
<1>2. o \in Seq(OoSegs) /\ Len(o) \in Nat
  BY <1>1 DEF Early
<1>3. /\ r \in 0 .. Len(o)
      /\ \A i \in 1 .. r : o[i].seq = IF i = 1 THEN SegEnd(t) ELSE SegEnd(o[i - 1])
      /\ r < Len(o) => o[r + 1].seq # IF r = 0 THEN SegEnd(t) ELSE SegEnd(o[r])
  <2>1. r = Following(o, t)
    BY ONLY <1>1, r = Following(c.ooseq, t)
  <2>2. Chain(o, t, r)
    BY ONLY <1>2, <2>1, ChainIs
  <2> QED BY ONLY <2>2 DEF Chain
<1>4. /\ p \in Ends /\ R \in Nat /\ R <= EndPos(p, t) /\ EndPos(p, t) \in Nat /\ R <= g.w + 1 /\ g.w \in Nat
      /\ SegEnd(t) \in Seqs /\ Pos(p, SegEnd(t)) = EndPos(p, t) /\ (t.fin => EndPos(p, t) = g.w + 2)
  BY <1>1, EnvFacts, PieceFacts
<1>5. \A i \in 1 .. Len(o) : /\ Piece(g, o[i]) /\ Pos(p, o[i].seq) > R /\ Pos(p, o[i].seq) \in Nat
         /\ Pos(p, o[i].seq) \in g.Cp /\ o[i].seq \in Seqs /\ Pos(p, o[i].seq) <= g.w + 1
         /\ EndPos(p, o[i]) > Pos(p, o[i].seq) /\ EndPos(p, o[i]) \in Nat
  BY <1>1, <1>4, EarlyPiece
<1>6. \A i \in 1 .. Len(o) : SegEnd(o[i]) \in Seqs /\ Pos(p, SegEnd(o[i])) = EndPos(p, o[i])
  BY <1>1, <1>5, PieceFacts
<1>7. segs[1] = t /\ \A i \in 1 .. r : segs[i + 1] = o[i]
  <2>1. PICK z : z = SubSeq(o, 1, r)
    OBVIOUS
  <2>2. z \in Seq(OoSegs) /\ Len(z) = r /\ \A i \in 1 .. r : z[i] = o[i]
    BY <1>2, <1>3, <2>1, SplitIs
  <2>3. segs = <<t>> \o z
    BY <1>1, <2>1
  <2>4. segs[1] = t /\ \A i \in 1 .. r : segs[i + 1] = z[i]
    BY <2>2, <2>3
  <2> QED BY <2>2, <2>4
<1>8. ASSUME NEW i \in 1 .. r + 1 PROVE Piece(g, segs[i])
  <2>1. CASE i = 1
    BY <1>7, <2>1
  <2>2. CASE i # 1
    <3>1. i - 1 \in 1 .. r /\ i - 1 \in 1 .. Len(o) /\ (i - 1) + 1 = i
      BY <1>2, <1>3, <2>2
    <3>2. segs[i] = o[i - 1]
      BY <1>7, <3>1
    <3> QED BY <1>5, <3>1, <3>2
  <2> QED BY <2>1, <2>2
<1>9. ASSUME NEW i \in 1 .. r + 1, i # 1 PROVE Pos(p, segs[i].seq) = EndPos(p, segs[i - 1])
  <2>1. i - 1 \in 1 .. r /\ i - 1 \in 1 .. Len(o) /\ (i - 1) + 1 = i
    BY <1>2, <1>3, <1>9
  <2>2. segs[i] = o[i - 1]
    BY <1>7, <2>1
  <2>3. CASE i = 2
    <3>1. o[1].seq = SegEnd(t) /\ segs[i] = o[1] /\ segs[i - 1] = t
      BY <1>3, <1>7, <2>1, <2>2, <2>3
    <3> QED BY <1>4, <3>1
  <2>4. CASE i # 2
    <3>1. (i - 1) - 1 \in 1 .. r /\ (i - 1) - 1 \in 1 .. Len(o) /\ i - 1 # 1 /\ ((i - 1) - 1) + 1 = i - 1
      BY <1>2, <1>3, <2>1, <2>4
    <3>2. o[i - 1].seq = SegEnd(o[(i - 1) - 1]) /\ segs[i - 1] = o[(i - 1) - 1]
      BY <1>3, <1>7, <2>1, <3>1
    <3> QED BY <1>6, <2>2, <3>1, <3>2
  <2> QED BY <2>3, <2>4
<1>10. t.fin => r = 0
  <2> SUFFICES ASSUME t.fin, r # 0 PROVE FALSE
    OBVIOUS
  <2>1. 1 \in 1 .. r /\ 1 \in 1 .. Len(o)
    BY <1>2, <1>3
  <2>2. o[1].seq = SegEnd(t) /\ Pos(p, o[1].seq) <= g.w + 1
    BY <1>3, <1>5, <2>1
  <2> QED BY <1>4, <2>2
<1>11. R <= EndPos(p, segs[r + 1])
  <2>1. CASE r = 0
    BY <1>4, <1>7, <2>1
  <2>2. CASE r # 0
    <3>1. r \in 1 .. r /\ r \in 1 .. Len(o)
      BY <1>2, <1>3, <2>2
    <3>2. segs[r + 1] = o[r] /\ Pos(p, o[r].seq) > R /\ Pos(p, o[r].seq) \in Nat /\ EndPos(p, o[r]) \in Nat
          /\ EndPos(p, o[r]) > Pos(p, o[r].seq)
      BY <1>5, <1>7, <3>1
    <3>3. PICK x, y : x = Pos(p, o[r].seq) /\ y = EndPos(p, o[r])
      OBVIOUS
    <3>4. x > R /\ x \in Nat /\ y \in Nat /\ y > x /\ R \in Nat
      BY <1>4, <3>2, <3>3
    <3>5. R <= y
      BY ONLY <3>4
    <3> QED BY <3>2, <3>3, <3>5
  <2> QED BY <2>1, <2>2
<1>12. ASSUME r < Len(o) PROVE Pos(p, o[r + 1].seq) > EndPos(p, segs[r + 1])
  <2>1. r + 1 \in 1 .. Len(o)
    BY <1>2, <1>3, <1>12
  <2>2. /\ Pos(p, o[r + 1].seq) > R /\ Pos(p, o[r + 1].seq) \in Nat
        /\ Pos(p, o[r + 1].seq) \in g.Cp /\ o[r + 1].seq \in Seqs
    BY <1>5, <2>1
  <2>3. CASE r = 0
    <3>1. segs[r + 1] = t /\ o[r + 1].seq # SegEnd(t)
      BY <1>3, <1>7, <1>12, <2>3
    <3>2. Pos(p, o[r + 1].seq) # EndPos(p, t)
      BY <1>4, <2>2, <3>1, PosDiff
    <3>3. Pos(p, o[r + 1].seq) <= R \/ Pos(p, o[r + 1].seq) >= EndPos(p, t)
      BY <1>1, <2>2 DEF Piece
    <3>4. PICK x, y : x = Pos(p, o[r + 1].seq) /\ y = EndPos(p, t)
      OBVIOUS
    <3>5. x > R /\ x \in Nat /\ y \in Nat /\ R \in Nat /\ x # y /\ (x <= R \/ x >= y)
      BY <1>4, <2>2, <3>2, <3>3, <3>4
    <3>6. x > y
      BY ONLY <3>5
    <3> QED BY <3>1, <3>4, <3>6
  <2>4. CASE r # 0
    <3>1. r \in 1 .. r /\ r \in 1 .. Len(o) /\ r < r + 1
      BY <1>2, <1>3, <2>4
    <3>2. segs[r + 1] = o[r] /\ o[r + 1].seq # SegEnd(o[r])
      BY <1>3, <1>7, <1>12, <2>4, <3>1
    <3>3. Pos(p, o[r + 1].seq) # EndPos(p, o[r])
      BY <1>4, <1>6, <2>2, <3>1, <3>2, PosDiff
    <3>4. Pos(p, o[r].seq) < Pos(p, o[r + 1].seq)
      BY <1>1, <2>1, <3>1 DEF Early
    <3>5. Pos(p, o[r + 1].seq) <= Pos(p, o[r].seq) \/ Pos(p, o[r + 1].seq) >= EndPos(p, o[r])
      BY <1>1, <1>5, <2>2, <3>1 DEF Piece
    <3>6. Pos(p, o[r].seq) \in Nat /\ EndPos(p, o[r]) \in Nat
      BY <1>5, <3>1
    <3>7. PICK x, y, z : x = Pos(p, o[r + 1].seq) /\ y = EndPos(p, o[r]) /\ z = Pos(p, o[r].seq)
      OBVIOUS
    <3>8. z < x /\ x \in Nat /\ y \in Nat /\ z \in Nat /\ x # y /\ (x <= z \/ x >= y)
      BY <2>2, <3>3, <3>4, <3>5, <3>6, <3>7
    <3>9. x > y
      BY ONLY <3>8
    <3> QED BY <3>2, <3>7, <3>9
  <2> QED BY <2>3, <2>4
<1> QED BY <1>1, <1>3, <1>7, <1>8, <1>9, <1>10, <1>11, <1>12 DEF Taken

LEMMA EarlyTail ==
  ASSUME NEW g, NEW c, NEW R, Early(g, c, R), NEW r \in 0 .. Len(c.ooseq), NEW d, d.ooseq = Tail1(c.ooseq, r),
         NEW E \in Nat, r < Len(c.ooseq) => Pos(g.p, c.ooseq[r + 1].seq) > E, Env(g)
  PROVE  Early(g, d, E)
<1>1. PICK o, p, q : o = c.ooseq /\ p = g.p /\ q = d.ooseq
  OBVIOUS
<1>2. o \in Seq(OoSegs) /\ Len(o) \in Nat
  BY <1>1 DEF Early
<1>3. q \in Seq(OoSegs) /\ Len(q) = Len(o) - r /\ \A i \in 1 .. Len(o) - r : q[i] = o[r + i]
  <2>1. q = Tail1(o, r) /\ r \in 0 .. Len(o)
    BY <1>1
  <2> QED BY ONLY <1>2, <2>1, SplitIs
<1>4. /\ \A i \in 1 .. Len(o) : SegOK(p, g.Cp, g.w, g.k, o[i])
      /\ \A i, j \in 1 .. Len(o) : i < j => Pos(p, o[i].seq) < Pos(p, o[j].seq)
  BY <1>1 DEF Early
<1>5. ASSUME NEW i \in 1 .. Len(q) PROVE SegOK(p, g.Cp, g.w, g.k, q[i]) /\ Pos(p, q[i].seq) > E
  <2>1. i \in 1 .. Len(o) - r /\ r + i \in 1 .. Len(o) /\ r + 1 \in 1 .. Len(o) /\ r < Len(o)
    BY <1>1, <1>2, <1>3
  <2>2. q[i] = o[r + i] /\ Pos(p, o[r + 1].seq) > E
    BY <1>1, <1>3, <2>1
  <2>3. SegOK(p, g.Cp, g.w, g.k, o[r + i]) /\ SegOK(p, g.Cp, g.w, g.k, o[r + 1])
    BY <1>4, <2>1
  <2>4. Pos(p, o[r + i].seq) \in Nat /\ Pos(p, o[r + 1].seq) \in Nat
    BY <1>1, <2>3, EnvFacts, SegFacts
  <2>5. CASE i = 1
    BY <2>2, <2>3, <2>5
  <2>6. CASE i # 1
    <3>1. r + 1 < r + i
      BY <1>1, <1>2, <2>1, <2>6
    <3>2. Pos(p, o[r + 1].seq) < Pos(p, o[r + i].seq)
      BY <1>4, <2>1, <3>1
    <3> QED BY <2>2, <2>3, <2>4, <3>2
  <2> QED BY <2>5, <2>6
<1>6. ASSUME NEW i \in 1 .. Len(q), NEW j \in 1 .. Len(q), i < j PROVE Pos(p, q[i].seq) < Pos(p, q[j].seq)
  <2>1. /\ i \in 1 .. Len(o) - r /\ r + i \in 1 .. Len(o) /\ j \in 1 .. Len(o) - r /\ r + j \in 1 .. Len(o)
        /\ r + i < r + j
    BY <1>1, <1>2, <1>3, <1>6
  <2> QED BY <1>3, <1>4, <2>1
<1> QED BY <1>1, <1>3, <1>5, <1>6 DEF Early

-----------------------------------------------------------------------------
(* The states in which data is received *)
Receiving == Synced \ {"SYN_RCVD"}

LEMMA InSequenceOk ==
  ASSUME NEW g, NEW c, Env(g), Ok(g, c), c.state \in Receiving, c.pend = <<>>, NEW t, Piece(g, t),
         t.seq = c.rcv_nxt, NEW d, d = InSequence(c, t)
  PROVE  Kept(g, c, d) /\ d.state = c.state
<1>1. /\ Pcb(c) /\ Life(g, c) /\ Heard(g, c) /\ Snd(g, c) /\ Rcv(g, c)
      /\ c.state \in Synced /\ c.state # "SYN_RCVD" /\ c.state \notin {"CLOSED", "SYN_SENT"}
  BY StateSets DEF Ok, Receiving
<1>2. PICK R : R = Pos(g.p, t.seq)
  OBVIOUS
<1>3. /\ R \in Nat /\ R >= 1 /\ R <= g.w + 1 /\ g.w \in Nat /\ R = Pos(g.p, c.rcv_nxt) /\ t.fin \in BOOLEAN
      /\ t.seq \in Seqs /\ Len(t.data) \in Nat /\ R + Len(t.data) <= EndPos(g.p, t)
      /\ EndPos(g.p, t) \in Nat /\ (t.fin => EndPos(g.p, t) = g.w + 2)
  BY <1>2, EnvFacts, PieceFacts DEF Piece
<1>4. Early(g, c, R)
  BY <1>1, <1>3 DEF Rcv
<1>5. c.ooseq # <<>> => TrimBack(t, c.ooseq[1].seq) = t
  <2> SUFFICES ASSUME c.ooseq # <<>> PROVE TrimBack(t, c.ooseq[1].seq) = t
    OBVIOUS
  <2>1. 1 \in 1 .. Len(c.ooseq)
    <3>1. c.ooseq \in Seq(OoSegs)
      BY <1>4 DEF Early
    <3> QED BY <3>1
  <2>2. PICK n : n = c.ooseq[1].seq
    OBVIOUS
  <2>3. Pos(g.p, n) > R /\ Pos(g.p, n) \in Nat /\ Pos(g.p, n) \in g.Cp /\ n \in Seqs /\ Pos(g.p, n) <= g.w + 1
    BY <1>3, <1>4, <2>1, <2>2, EarlyPiece
  <2>4. Pos(g.p, n) <= R \/ Pos(g.p, n) >= EndPos(g.p, t)
    BY <1>2, <2>3 DEF Piece
  <2>5. R + Len(t.data) <= Pos(g.p, n) /\ Pos(g.p, n) <= g.w + 2
    BY <1>3, <2>3, <2>4
  <2>6. Pos(g.p, t.seq) + Len(t.data) <= Pos(g.p, n)
    BY <1>2, <2>5
  <2> QED BY <1>3, <2>2, <2>3, <2>5, <2>6, TrimBackSame
<1>6. PICK r : r = Following(c.ooseq, t)
  OBVIOUS
<1>7. PICK segs : segs = <<t>> \o SubSeq(c.ooseq, 1, r)
  OBVIOUS
<1>8. Taken(g, c, t, r, segs)
  BY <1>2, <1>4, <1>6, <1>7, TakenIs
<1>9. PICK b : Accepted(c, b, r, segs) /\ d = Ack(b)
  <2>1. segs[1] = t
    BY <1>8 DEF Taken
  <2>2. InOrder(c, t, d, r, segs)
    BY <1>1, <1>5, <1>6, <1>7, <2>1 DEF InOrder
  <2> QED BY <2>2, InSequenceIs
<1>30. PICK rw, fl :
         /\ fl = FlattenSeq([i \in 1 .. r + 1 |-> segs[i].data])
         /\ b = [c EXCEPT !.rcv_nxt = SegEnd(segs[r + 1]), !.rcv_wnd = rw, !.pend = fl,
                          !.gotfin = c.gotfin \/ segs[1].fin, !.ooseq = Tail1(c.ooseq, r)]
  BY <1>9 DEF Accepted
<1>31. PICK nx, gf, os :
         nx = SegEnd(segs[r + 1]) /\ gf = (c.gotfin \/ segs[1].fin) /\ os = Tail1(c.ooseq, r)
  OBVIOUS
<1>32. b = [c EXCEPT !.rcv_nxt = nx, !.rcv_wnd = rw, !.pend = fl, !.gotfin = gf, !.ooseq = os]
  BY ONLY <1>30, <1>31
<1>10. /\ fl = FlattenSeq([i \in 1 .. r + 1 |-> segs[i].data])
       /\ nx = SegEnd(segs[r + 1]) /\ gf = (c.gotfin \/ segs[1].fin) /\ os = Tail1(c.ooseq, r)
       /\ b = [c EXCEPT !.rcv_nxt = nx, !.rcv_wnd = rw, !.pend = fl, !.gotfin = gf, !.ooseq = os]
  BY <1>30, <1>31, <1>32
<1>11. /\ Pcb(b) /\ b.rcv_nxt = nx /\ b.pend = fl /\ b.gotfin = gf /\ b.ooseq = os
       /\ SameSnd(c, b) /\ SameApp(c, b) /\ b.state = c.state /\ b.snd_nxt = c.snd_nxt
       /\ b.attached = c.attached /\ b.delay = c.delay /\ b.out = c.out /\ b.held = c.held
  <2>0. Pcb(c) /\ b = [c EXCEPT !.rcv_nxt = nx, !.rcv_wnd = rw, !.pend = fl, !.gotfin = gf, !.ooseq = os]
    BY <1>1, <1>10
  <2>1. Pcb(b) /\ b.rcv_nxt = nx /\ b.pend = fl /\ b.gotfin = gf /\ b.ooseq = os
    BY ONLY <2>0 DEF Pcb, Fields
  <2>2. /\ SameSnd(c, b) /\ SameApp(c, b) /\ b.state = c.state /\ b.snd_nxt = c.snd_nxt
        /\ b.attached = c.attached /\ b.delay = c.delay /\ b.out = c.out /\ b.held = c.held
    BY ONLY <2>0 DEF Pcb, Fields, SameSnd, SameApp
  <2> QED BY <2>1, <2>2
<1>12. PICK E : E = EndPos(g.p, segs[r + 1])
  OBVIOUS
<1>13. /\ r \in 0 .. Len(c.ooseq) /\ r \in Nat /\ Piece(g, segs[r + 1]) /\ segs[1] = t
       /\ (t.fin => r = 0) /\ R <= E /\ (r < Len(c.ooseq) => Pos(g.p, c.ooseq[r + 1].seq) > E)
  <2>1. r \in 0 .. Len(c.ooseq) /\ r \in Nat
    BY <1>8 DEF Taken
  <2>2. r + 1 \in 1 .. r + 1
    BY <2>1
  <2> QED BY <1>2, <1>8, <1>12, <2>1, <2>2 DEF Taken
<1>14. /\ E \in Nat /\ E <= g.w + 2 /\ nx \in Seqs /\ Pos(g.p, nx) = E /\ (E = g.w + 2 => g.k)
  <2>1. segs[r + 1].fin \in BOOLEAN
    BY <1>13 DEF Piece
  <2> QED BY <1>3, <1>10, <1>12, <1>13, <2>1, PieceFacts
<1>15. fl = RunOf(R - 1, Upto(g, E))
  <2>1. r + 1 \in Nat /\ r + 1 >= 1
    BY <1>13
  <2>2. /\ \A i \in 1 .. r + 1 : Piece(g, segs[i])
        /\ \A i \in 1 .. r + 1 : i # 1 => Pos(g.p, segs[i].seq) = EndPos(g.p, segs[i - 1])
    BY <1>8 DEF Taken
  <2>3. FlattenSeq([i \in 1 .. r + 1 |-> segs[i].data]) =
           RunOf(Pos(g.p, segs[1].seq) - 1, Upto(g, EndPos(g.p, segs[r + 1])))
    BY <2>1, <2>2, PiecesRun
  <2> QED BY <1>2, <1>10, <1>12, <1>13, <2>3
<1>16. R - 1 \in Nat /\ Upto(g, E) \in Nat /\ R - 1 <= Upto(g, E)
  <2>1. CASE E = g.w + 2
    BY <1>3, <2>1 DEF Upto
  <2>2. CASE E # g.w + 2
    BY <1>3, <1>13, <1>14, <2>2 DEF Upto
  <2> QED BY <2>1, <2>2
<1>17. /\ fl \in Seq(Nat) /\ Len(fl) = Upto(g, E) - (R - 1)
       /\ \A j \in 1 .. Len(fl) : fl[j] = (R - 1) + j
  BY <1>15, <1>16, RunType
<1>18. Rcv(g, b)
  <2>1. Pos(g.p, b.rcv_nxt) = E /\ E >= 1
    BY <1>3, <1>11, <1>13, <1>14
  <2>2. b.attached => /\ Len(b.got) + Len(b.pend) = Upto(g, E)
                      /\ \A i \in 1 .. Len(b.pend) : b.pend[i] = Len(b.got) + i
    <3> SUFFICES ASSUME b.attached PROVE /\ Len(b.got) + Len(b.pend) = Upto(g, E)
                      /\ \A i \in 1 .. Len(b.pend) : b.pend[i] = Len(b.got) + i
      OBVIOUS
    <3>1. Len(c.got) + Len(c.pend) = Upto(g, R) /\ b.got = c.got /\ b.pend = fl
      BY <1>1, <1>3, <1>11 DEF Rcv, SameApp
    <3>2. Upto(g, R) = R - 1
      BY <1>3 DEF Upto
    <3>3. Len(c.got) \in Nat /\ Len(c.pend) = 0
      BY <1>1 DEF Heard
    <3>4. Len(c.got) = R - 1
      BY <3>1, <3>2, <3>3
    <3>5. Len(fl) \in Nat
      BY <1>17
    <3> QED BY <1>16, <1>17, <3>1, <3>4, <3>5
  <2>3. b.gotfin => E = g.w + 2
    <3>1. c.gotfin => R = g.w + 2
      BY <1>1, <1>3 DEF Rcv
    <3>2. ~c.gotfin
      BY <1>3, <3>1
    <3>3. b.gotfin => t.fin
      BY <1>10, <1>11, <1>13, <3>2
    <3>4. t.fin => segs[r + 1] = t
      BY <1>13
    <3> QED BY <1>3, <1>12, <3>3, <3>4
  <2>4. Early(g, b, E)
    <3>1. b.ooseq = Tail1(c.ooseq, r) /\ Env(g)
      BY <1>10, <1>11
    <3> QED BY ONLY <1>4, <1>13, <1>14, <3>1, EarlyTail
  <2> QED BY <1>11, <1>14, <1>17, <2>1, <2>2, <2>3, <2>4 DEF Rcv
<1>19. Lim(g, b) = E /\ Lim(g, c) = R
  BY <1>1, <1>3, <1>11, <1>14 DEF Lim
<1>20. Life(g, b)
  <2>1. gf \in BOOLEAN
    BY <1>10
  <2>2. b.written = c.written /\ b.closing = c.closing /\ (c.err => b.err)
    BY <1>11 DEF SameSnd, SameApp
  <2> QED BY <1>1, <1>11, <1>14, <2>1, <2>2 DEF Life
<1>21. Snd(g, b) /\ Heard(g, b)
  BY <1>1, <1>11, SndSame, HeardSame
<1>22. \A s \in b.out : Sends(g, b, s)
  <2>1. Lim(g, c) <= Lim(g, b) /\ Lim(g, b) \in Nat
    BY <1>13, <1>14, <1>19
  <2>2. b.written = c.written /\ b.closing = c.closing
    BY <1>11 DEF SameSnd
  <2> QED BY <1>11, <2>1, <2>2, OutSame
<1>23. Kept(g, c, b)
  BY <1>11, <1>13, <1>18, <1>19, <1>20, <1>21, <1>22 DEF Kept, Ok, SameSnd
<1>24. Ok(g, b) /\ b.state \notin {"CLOSED", "SYN_SENT"}
  BY <1>1, <1>11, <1>23 DEF Kept
<1>25. Kept(g, b, d) /\ Same(b, d)
  BY <1>9, <1>24, AckOk
<1>26. d.state = c.state
  BY <1>11, <1>25 DEF Same
<1> QED BY <1>23, <1>25, <1>26, KeptTrans

-----------------------------------------------------------------------------
(* A queue that is c's with one more segment x after the first r *)
Inserted(q, z, x, r) ==
  /\ z \in Seq(OoSegs) /\ Len(z) = Len(q) + 1
  /\ \A i \in 1 .. r : z[i] = q[i]
  /\ z[r + 1] = x
  /\ \A i \in r + 1 .. Len(q) : z[i + 1] = q[i]

(* A new segment, and where the ones around it are *)
Fresh(g, q, x, r, R) ==
  /\ x \in OoSegs /\ SegOK(g.p, g.Cp, g.w, g.k, x) /\ Pos(g.p, x.seq) > R /\ r \in 0 .. Len(q)
  /\ \A i \in 1 .. r : Pos(g.p, q[i].seq) < Pos(g.p, x.seq)
  /\ \A i \in r + 1 .. Len(q) : Pos(g.p, q[i].seq) > Pos(g.p, x.seq)

LEMMA EarlyPos ==
  ASSUME NEW g, NEW c, Env(g), NEW R, Early(g, c, R), NEW i \in 1 .. Len(c.ooseq)
  PROVE  Pos(g.p, c.ooseq[i].seq) \in Nat
<1>1. SegOK(g.p, g.Cp, g.w, g.k, c.ooseq[i])
  BY DEF Early
<1> QED BY <1>1, EnvFacts, SegFacts

LEMMA EarlyInsert ==
  ASSUME NEW g, NEW c, NEW d, NEW R, Env(g), Early(g, c, R), NEW x, NEW r, Fresh(g, c.ooseq, x, r, R),
         Inserted(c.ooseq, d.ooseq, x, r)
  PROVE  Early(g, d, R)
<1>1. PICK q, z, p : q = c.ooseq /\ z = d.ooseq /\ p = g.p
  OBVIOUS
<1>2. /\ q \in Seq(OoSegs) /\ Len(q) \in Nat
      /\ \A i \in 1 .. Len(q) : SegOK(p, g.Cp, g.w, g.k, q[i]) /\ Pos(p, q[i].seq) > R
      /\ \A i, j \in 1 .. Len(q) : i < j => Pos(p, q[i].seq) < Pos(p, q[j].seq)
  BY <1>1 DEF Early
<1>3. /\ SegOK(p, g.Cp, g.w, g.k, x) /\ Pos(p, x.seq) > R /\ r \in 0 .. Len(q)
      /\ \A i \in 1 .. r : Pos(p, q[i].seq) < Pos(p, x.seq)
      /\ \A i \in r + 1 .. Len(q) : Pos(p, q[i].seq) > Pos(p, x.seq)
  BY <1>1 DEF Fresh
<1>4. /\ z \in Seq(OoSegs) /\ Len(z) = Len(q) + 1 /\ z[r + 1] = x
      /\ \A i \in 1 .. r : z[i] = q[i]
      /\ \A i \in r + 1 .. Len(q) : z[i + 1] = q[i]
  BY <1>1 DEF Inserted
<1>5. ASSUME NEW i \in 1 .. Len(z)
      PROVE  \/ i \in 1 .. r /\ i \in 1 .. Len(q) /\ z[i] = q[i]
             \/ i = r + 1 /\ z[i] = x
             \/ i - 1 \in r + 1 .. Len(q) /\ i - 1 \in 1 .. Len(q) /\ i > r + 1 /\ z[i] = q[i - 1]
  <2>1. i \in 1 .. Len(q) + 1 /\ r \in Nat /\ r <= Len(q)
    BY <1>2, <1>3, <1>4
  <2>2. CASE i <= r
    BY <1>2, <1>4, <2>1, <2>2
  <2>3. CASE i = r + 1
    BY <1>4, <2>3
  <2>4. CASE i > r + 1
    <3>1. i - 1 \in r + 1 .. Len(q) /\ i - 1 \in 1 .. Len(q) /\ (i - 1) + 1 = i
      BY <1>2, <2>1, <2>4
    <3>2. z[(i - 1) + 1] = q[i - 1]
      BY <1>4, <3>1
    <3> QED BY <2>4, <3>1, <3>2
  <2> QED BY <2>1, <2>2, <2>3, <2>4
<1>6. ASSUME NEW i \in 1 .. Len(z) PROVE SegOK(p, g.Cp, g.w, g.k, z[i]) /\ Pos(p, z[i].seq) > R
  BY <1>2, <1>3, <1>5
<1>7. \A i \in 1 .. Len(q) : Pos(p, q[i].seq) \in Nat
  BY <1>1, EarlyPos
<1>8. Pos(p, x.seq) \in Nat
  BY <1>1, <1>3, EnvFacts, SegFacts
<1>9. ASSUME NEW i \in 1 .. Len(z), NEW j \in 1 .. Len(z), i < j PROVE Pos(p, z[i].seq) < Pos(p, z[j].seq)
  <2>0. r \in Nat /\ Len(q) \in Nat /\ i \in Nat /\ j \in Nat
    BY <1>2, <1>3, <1>4
  <2>1. CASE i \in 1 .. r /\ i \in 1 .. Len(q) /\ z[i] = q[i]
    <3>1. CASE j \in 1 .. r /\ j \in 1 .. Len(q) /\ z[j] = q[j]
      BY <1>2, <1>9, <2>1, <3>1
    <3>2. CASE j = r + 1 /\ z[j] = x
      BY <1>3, <2>1, <3>2
    <3>3. CASE j - 1 \in r + 1 .. Len(q) /\ j - 1 \in 1 .. Len(q) /\ j > r + 1 /\ z[j] = q[j - 1]
      <4>1. i < j - 1
        BY <2>0, <2>1, <3>3
      <4> QED BY <1>2, <2>1, <3>3, <4>1
    <3> QED BY <1>5, <3>1, <3>2, <3>3
  <2>2. CASE i = r + 1 /\ z[i] = x
    <3>1. j > r + 1
      BY <1>9, <2>2
    <3>2. j - 1 \in r + 1 .. Len(q) /\ z[j] = q[j - 1]
      BY <1>5, <2>0, <3>1
    <3>3. Pos(p, q[j - 1].seq) > Pos(p, x.seq)
      BY <1>3, <3>2
    <3>4. Pos(p, q[j - 1].seq) \in Nat
      BY <1>5, <1>7, <2>0, <3>1
    <3> QED BY <1>8, <2>2, <3>2, <3>3, <3>4
  <2>3. CASE i - 1 \in r + 1 .. Len(q) /\ i - 1 \in 1 .. Len(q) /\ i > r + 1 /\ z[i] = q[i - 1]
    <3>1. j > r + 1
      BY <1>9, <2>0, <2>3
    <3>2. j - 1 \in 1 .. Len(q) /\ z[j] = q[j - 1]
      BY <1>5, <2>0, <3>1
    <3>3. i - 1 < j - 1
      BY <1>9, <2>0
    <3> QED BY <1>2, <2>3, <3>2, <3>3
  <2> QED BY <1>5, <2>1, <2>2, <2>3
<1> QED BY <1>1, <1>4, <1>6, <1>9 DEF Early

LEMMA EarlyReplace ==
  ASSUME NEW g, NEW c, NEW d, NEW R, Env(g), Early(g, c, R), NEW x \in OoSegs, NEW r \in 1 .. Len(c.ooseq),
         SegOK(g.p, g.Cp, g.w, g.k, x), x.seq = c.ooseq[r].seq, d.ooseq = [c.ooseq EXCEPT ![r] = x]
  PROVE  Early(g, d, R)
<1>1. PICK q, z, p : q = c.ooseq /\ z = d.ooseq /\ p = g.p
  OBVIOUS
<1>2. /\ q \in Seq(OoSegs) /\ Len(q) \in Nat
      /\ \A i \in 1 .. Len(q) : SegOK(p, g.Cp, g.w, g.k, q[i]) /\ Pos(p, q[i].seq) > R
      /\ \A i, j \in 1 .. Len(q) : i < j => Pos(p, q[i].seq) < Pos(p, q[j].seq)
  BY <1>1 DEF Early
<1>3. z = [q EXCEPT ![r] = x] /\ r \in 1 .. Len(q) /\ x \in OoSegs
  BY <1>1
<1>4. z \in Seq(OoSegs) /\ Len(z) = Len(q) /\ \A i \in 1 .. Len(q) : z[i] = IF i = r THEN x ELSE q[i]
  BY ONLY <1>2, <1>3
<1>5. \A i \in 1 .. Len(q) : SegOK(p, g.Cp, g.w, g.k, z[i]) /\ z[i].seq = q[i].seq
  BY <1>1, <1>2, <1>4
<1> QED BY <1>1, <1>2, <1>4, <1>5 DEF Early

(* ooseq is all that tcp_receive changes for a segment that is early. *)
LEMMA EarlyOk ==
  ASSUME NEW g, NEW c, Env(g), Ok(g, c), c.state \in Synced, NEW z, NEW d, d = [c EXCEPT !.ooseq = z],
         Early(g, d, Pos(g.p, c.rcv_nxt))
  PROVE  Kept(g, c, d) /\ d.state = c.state
<1>1. Pcb(c) /\ Life(g, c) /\ Heard(g, c) /\ Snd(g, c) /\ Rcv(g, c) /\ c.state \notin {"CLOSED", "SYN_SENT"}
  BY StateSets DEF Ok
<1>2. /\ Pcb(d) /\ SameSnd(c, d) /\ SameApp(c, d) /\ d.state = c.state /\ d.snd_nxt = c.snd_nxt
      /\ d.rcv_nxt = c.rcv_nxt /\ d.pend = c.pend /\ d.attached = c.attached /\ d.gotfin = c.gotfin
      /\ d.delay = c.delay /\ d.out = c.out
  <2>1. Pcb(d) /\ SameSnd(c, d) /\ SameApp(c, d) /\ d.state = c.state
    BY <1>1 DEF Pcb, Fields, SameSnd, SameApp
  <2>2. /\ d.rcv_nxt = c.rcv_nxt /\ d.pend = c.pend /\ d.attached = c.attached /\ d.gotfin = c.gotfin
        /\ d.delay = c.delay /\ d.out = c.out /\ d.snd_nxt = c.snd_nxt
    BY <1>1 DEF Pcb, Fields
  <2> QED BY <2>1, <2>2
<1>3. Rcv(g, d)
  BY <1>1, <1>2 DEF Rcv, SameApp
<1>4. Snd(g, d) /\ Heard(g, d)
  BY <1>1, <1>2, SndSame, HeardSame
<1>5. Lim(g, d) = Lim(g, c) /\ Lim(g, c) \in Nat
  BY <1>2, OkFacts DEF Lim
<1>6. d.written = c.written /\ d.closing = c.closing
  BY <1>2 DEF SameSnd
<1>7. \A s \in d.out : Sends(g, d, s)
  <2>1. Lim(g, c) <= Lim(g, d) /\ Lim(g, d) \in Nat
    BY <1>5
  <2> QED BY <1>2, <1>6, <2>1, OutSame
<1>8. Life(g, d)
  <2>1. c.state = "SYN_RCVD" => Accepting(g, d)
    BY <1>1, <1>2 DEF Life, Accepting, SameApp
  <2> QED BY <1>1, <1>2, <1>6, <2>1 DEF Life, SameApp
<1> QED BY <1>2, <1>3, <1>4, <1>5, <1>6, <1>7, <1>8 DEF Kept, Ok

LEMMA QueueOoseqOk ==
  ASSUME NEW g, NEW c, Env(g), Ok(g, c), c.state \in Synced, NEW s, SegOK(g.p, g.Cp, g.w, g.k, s),
         Pos(g.p, s.seq) > Pos(g.p, c.rcv_nxt), NEW d, d = QueueOoseq(c, s)
  PROVE  Kept(g, c, d) /\ d.state = c.state
<1>1. PICK q, R, p : q = c.ooseq /\ R = Pos(g.p, c.rcv_nxt) /\ p = g.p
  OBVIOUS
<1>2. Pcb(c) /\ Rcv(g, c) /\ Early(g, c, R) /\ R \in Nat
  <2>1. c.state # "CLOSED"
    BY StateSets
  <2> QED BY <1>1, <2>1, OkFacts DEF Ok, Rcv
<1>3. q \in Seq(OoSegs) /\ Len(q) \in Nat
  BY <1>1, <1>2 DEF Early
<1>4. /\ p \in Ends /\ g.w \in Nat /\ g.w + 2 < SeqSpace \div 2 /\ SeqSpace \div 2 \in Nat
      /\ Writes(p, g.Cp, g.w, g.k)
  BY <1>1, EnvFacts, TcpConsts
<1>5. \A i \in 1 .. Len(q) : /\ Pos(p, q[i].seq) \in Nat /\ q[i].seq \in Seqs
         /\ Pos(p, q[i].seq) < SeqSpace \div 2 /\ Pos(p, q[i].seq) \in g.Cp
         /\ SegOK(p, g.Cp, g.w, g.k, q[i]) /\ Pos(p, q[i].seq) <= g.w + 1
  <2> TAKE i \in 1 .. Len(q)
  <2>1. SegOK(p, g.Cp, g.w, g.k, q[i])
    BY <1>1, <1>2 DEF Early
  <2>2. Pos(p, q[i].seq) \in Nat /\ q[i].seq \in Seqs /\ Pos(p, q[i].seq) <= g.w + 1
    BY <1>4, <2>1, SegFacts
  <2>3. Pos(p, q[i].seq) \in g.Cp
    BY <2>1 DEF SegOK
  <2> QED BY <1>4, <2>1, <2>2, <2>3
<1>6. /\ s.seq \in Seqs /\ Pos(p, s.seq) \in Nat /\ Pos(p, s.seq) <= g.w + 1 /\ Pos(p, s.seq) < SeqSpace \div 2
      /\ Pos(p, s.seq) \in g.Cp /\ Len(s.data) \in Nat /\ EndPos(p, s) \in Nat
      /\ Pos(p, s.seq) + Len(s.data) <= EndPos(p, s)
  <2>1. /\ s.seq \in Seqs /\ Pos(p, s.seq) \in Nat /\ Pos(p, s.seq) <= g.w + 1 /\ EndPos(p, s) \in Nat
    BY <1>1, <1>4, SegFacts
  <2>2. /\ Pos(p, s.seq) \in g.Cp /\ s.data \in Seq(Nat) /\ s.syn \in BOOLEAN /\ s.fin \in BOOLEAN
    BY <1>1 DEF SegOK
  <2>3. Len(s.data) \in Nat /\ TcpLen(s) \in Nat /\ Len(s.data) <= TcpLen(s)
    BY <2>2, TcpLenIs
  <2> QED BY <1>4, <2>1, <2>2, <2>3 DEF EndPos
<1>7. PICK x : x = [seq |-> s.seq, data |-> s.data, fin |-> s.fin, syn |-> s.syn]
  OBVIOUS
<1>8. /\ x \in OoSegs /\ x.seq = s.seq /\ x.data = s.data /\ x.fin = s.fin /\ x.syn = s.syn
      /\ SegOK(p, g.Cp, g.w, g.k, x)
  <2>1. x.seq = s.seq /\ x.data = s.data /\ x.fin = s.fin /\ x.syn = s.syn
    BY <1>7
  <2>2. SegOK(p, g.Cp, g.w, g.k, x)
    BY <1>1, <2>1, SegLike
  <2>3. s.seq \in Seqs /\ s.data \in Seq(Nat) /\ s.syn \in BOOLEAN /\ s.fin \in BOOLEAN
    BY DEF SegOK
  <2>4. x \in OoSegs
    BY <1>7, <2>3 DEF OoSegs
  <2> QED BY <2>1, <2>2, <2>4
<1>9. PICK at, r : at = {i \in DOMAIN q : SeqLt(q[i].seq, s.seq)} /\ r = Lead(q, at)
  OBVIOUS
<1>10. r \in 0 .. Len(q) /\ (\A i \in 1 .. r : i \in at) /\ (r < Len(q) => r + 1 \notin at)
  BY <1>3, <1>9, LeadIs
<1>11. ASSUME NEW i \in 1 .. Len(q) PROVE i \in at <=> Pos(p, q[i].seq) < Pos(p, s.seq)
  <2>1. i \in at <=> SeqLt(q[i].seq, s.seq)
    BY <1>3, <1>9
  <2>2. SeqLt(q[i].seq, s.seq) <=> Pos(p, q[i].seq) < Pos(p, s.seq)
    BY <1>4, <1>5, <1>6, PosLt
  <2> QED BY <2>1, <2>2
<1>12. \A i \in 1 .. r : Pos(p, q[i].seq) < Pos(p, s.seq)
  <2>1. \A i \in 1 .. r : i \in 1 .. Len(q)
    BY <1>3, <1>10
  <2> QED BY <1>10, <1>11, <2>1
<1>13. r < Len(q) => ~(Pos(p, q[r + 1].seq) < Pos(p, s.seq))
  <2>1. r < Len(q) => r + 1 \in 1 .. Len(q)
    BY <1>3, <1>10
  <2> QED BY <1>10, <1>11, <2>1
<1>14. CASE r < Len(q) /\ q[r + 1].seq = s.seq
  <2>0. r + 1 \in 1 .. Len(q)
    BY <1>3, <1>10, <1>14
  <2>1. d = [c EXCEPT !.ooseq = IF Len(s.data) > Len(q[r + 1].data) THEN [@ EXCEPT ![r + 1] = x] ELSE @]
    BY <1>1, <1>7, <1>9, <1>14 DEF QueueOoseq
  <2>2. PICK z : z = IF Len(s.data) > Len(q[r + 1].data) THEN [q EXCEPT ![r + 1] = x] ELSE q
    OBVIOUS
  <2>3. d = [c EXCEPT !.ooseq = z]
    BY <1>1, <1>2, <2>1, <2>2 DEF Pcb, Fields
  <2>4. d.ooseq = z
    BY <1>2, <2>3 DEF Pcb, Fields
  <2>5. CASE z = q
    <3>1. Early(g, d, R)
      BY <1>1, <1>2, <2>4, <2>5 DEF Early
    <3> QED BY <1>1, <2>3, <3>1, EarlyOk
  <2>6. CASE z = [q EXCEPT ![r + 1] = x]
    <3>0. x.seq = c.ooseq[r + 1].seq /\ r + 1 \in 1 .. Len(c.ooseq) /\ d.ooseq = [c.ooseq EXCEPT ![r + 1] = x]
          /\ x \in OoSegs /\ SegOK(g.p, g.Cp, g.w, g.k, x) /\ Env(g) /\ Early(g, c, R)
      BY <1>1, <1>2, <1>8, <1>14, <2>0, <2>4, <2>6
    <3>1. Early(g, d, R)
      BY ONLY <3>0, EarlyReplace
    <3> QED BY <1>1, <2>3, <3>1, EarlyOk
  <2> QED BY <2>2, <2>5, <2>6
<1>15. CASE ~(r < Len(q) /\ q[r + 1].seq = s.seq)
  <2>1. PICK a, m : /\ a = [i \in 1 .. r |-> IF i = r THEN TrimBack(q[i], s.seq) ELSE q[i]]
                    /\ m = IF r < Len(q) THEN TrimBack(x, q[r + 1].seq) ELSE x
    OBVIOUS
  <2>2. d = [c EXCEPT !.ooseq = a \o <<m>> \o Tail1(q, r)]
    BY <1>1, <1>7, <1>9, <1>15, <2>1 DEF QueueOoseq
  <2>3. ASSUME NEW i \in 1 .. r PROVE (IF i = r THEN TrimBack(q[i], s.seq) ELSE q[i]) = q[i]
    <3>1. i \in 1 .. Len(q)
      BY <1>3, <1>10
    <3>2. SegOK(p, g.Cp, g.w, g.k, q[i]) /\ Pos(p, q[i].seq) < Pos(p, s.seq) /\ q[i].seq \in Seqs
          /\ Pos(p, q[i].seq) \in Nat
      BY <1>5, <1>12, <3>1
    <3>3. Pos(p, s.seq) <= Pos(p, q[i].seq) \/ Pos(p, s.seq) >= EndPos(p, q[i])
      BY <1>6, <3>2 DEF SegOK
    <3>4. q[i].data \in Seq(Nat) /\ q[i].syn \in BOOLEAN /\ q[i].fin \in BOOLEAN
      BY <3>2 DEF SegOK
    <3>5. Len(q[i].data) \in Nat /\ TcpLen(q[i]) \in Nat /\ Len(q[i].data) <= TcpLen(q[i])
      BY <3>4, TcpLenIs
    <3>6. PICK P, S, L, T : P = Pos(p, q[i].seq) /\ S = Pos(p, s.seq) /\ L = Len(q[i].data) /\ T = TcpLen(q[i])
      OBVIOUS
    <3>7. P \in Nat /\ S \in Nat /\ L \in Nat /\ T \in Nat /\ P < S /\ L <= T /\ (S <= P \/ S >= P + T)
      BY <1>6, <3>2, <3>3, <3>5, <3>6 DEF EndPos
    <3>8. P + L <= S
      BY ONLY <3>7
    <3>9. Pos(g.p, q[i].seq) + Len(q[i].data) <= Pos(g.p, s.seq) /\ Pos(g.p, s.seq) <= g.w + 2
      BY <1>1, <1>4, <1>6, <3>6, <3>8
    <3>10. TrimBack(q[i], s.seq) = q[i]
      BY <1>6, <3>2, <3>5, <3>9, TrimBackSame
    <3> QED BY <3>10
  <2>4. m = x
    <3>1. CASE r < Len(q)
      <4>0. r + 1 \in 1 .. Len(q)
        BY <1>3, <1>10, <3>1
      <4>1. /\ Pos(p, q[r + 1].seq) \in g.Cp /\ q[r + 1].seq \in Seqs /\ Pos(p, q[r + 1].seq) \in Nat
            /\ ~(Pos(p, q[r + 1].seq) < Pos(p, s.seq)) /\ Pos(p, q[r + 1].seq) <= g.w + 1
        BY <1>5, <1>13, <3>1, <4>0
      <4>2. Pos(p, q[r + 1].seq) # Pos(p, s.seq)
        BY <1>4, <1>6, <1>15, <3>1, <4>1, PosDiff
      <4>3. Pos(p, q[r + 1].seq) <= Pos(p, s.seq) \/ Pos(p, q[r + 1].seq) >= EndPos(p, s)
        BY <1>1, <4>1 DEF SegOK
      <4>4. PICK P, S, L, E : P = Pos(p, q[r + 1].seq) /\ S = Pos(p, s.seq) /\ L = Len(s.data) /\ E = EndPos(p, s)
        OBVIOUS
      <4>5. P \in Nat /\ S \in Nat /\ L \in Nat /\ E \in Nat /\ ~(P < S) /\ P # S /\ S + L <= E /\ (P <= S \/ P >= E)
        BY <1>6, <4>1, <4>2, <4>3, <4>4
      <4>6. S + L <= P
        BY ONLY <4>5
      <4>7. /\ Pos(g.p, x.seq) + Len(x.data) <= Pos(g.p, q[r + 1].seq) /\ Pos(g.p, q[r + 1].seq) <= g.w + 2
            /\ Len(x.data) \in Nat /\ x.seq \in Seqs
        BY <1>1, <1>4, <1>6, <1>8, <4>1, <4>4, <4>6
      <4>8. TrimBack(x, q[r + 1].seq) = x
        BY <4>1, <4>7, TrimBackSame
      <4> QED BY <2>1, <3>1, <4>8
    <3>2. CASE ~(r < Len(q))
      BY <2>1, <3>2
    <3> QED BY <3>1, <3>2
  <2>5. PICK z, f : f = Tail1(q, r) /\ z = a \o <<x>> \o f
    OBVIOUS
  <2>6. d = [c EXCEPT !.ooseq = z]
    BY <2>2, <2>4, <2>5
  <2>7. d.ooseq = z
    BY <1>2, <2>6 DEF Pcb, Fields
  <2>8. a \in Seq(OoSegs) /\ Len(a) = r /\ \A i \in 1 .. r : a[i] = q[i]
    <3>1. \A i \in 1 .. r : q[i] \in OoSegs
      BY <1>3, <1>10
    <3>2. \A i \in 1 .. r : a[i] = q[i]
      BY <2>1, <2>3
    <3>3. a = [i \in 1 .. r |-> a[i]]
      BY <2>1
    <3>4. a \in [1 .. r -> OoSegs] /\ r \in Nat
      BY <1>10, <3>1, <3>2, <3>3
    <3> QED BY <3>2, <3>4
  <2>9. f \in Seq(OoSegs) /\ Len(f) = Len(q) - r /\ \A i \in 1 .. Len(q) - r : f[i] = q[r + i]
    BY ONLY <1>3, <1>10, <2>5, SplitIs
  <2>10. Inserted(q, z, x, r)
    <3>1. PICK y : y = a \o <<x>>
      OBVIOUS
    <3>2. /\ y \in Seq(OoSegs) /\ Len(y) = r + 1 /\ (\A i \in 1 .. r : y[i] = a[i]) /\ y[r + 1] = x
      BY <1>8, <1>10, <2>8, <3>1
    <3>3. z = y \o f
      BY <2>5, <3>1
    <3>4. z \in Seq(OoSegs) /\ Len(z) = Len(q) + 1 /\ (\A i \in 1 .. r + 1 : z[i] = y[i])
      <4>1. y \in Seq(OoSegs) /\ f \in Seq(OoSegs) /\ Len(y) = r + 1 /\ Len(f) = Len(q) - r
        BY <2>9, <3>2
      <4>0. y \o f \in Seq(OoSegs) /\ Len(y \o f) = Len(y) + Len(f)
        BY ONLY <4>1
      <4>5. ASSUME NEW i \in 1 .. Len(y) PROVE (y \o f)[i] = y[i]
        BY ONLY <4>1, i \in 1 .. Len(y)
      <4>2. z \in Seq(OoSegs) /\ Len(z) = Len(y) + Len(f) /\ (\A i \in 1 .. Len(y) : z[i] = y[i])
        BY <4>0, <4>5, <3>3
      <4>3. (r + 1) + (Len(q) - r) = Len(q) + 1
        BY <1>3, <1>10
      <4> QED BY <4>1, <4>2, <4>3
    <3>5. ASSUME NEW i \in r + 1 .. Len(q) PROVE z[i + 1] = q[i]
      <4>1. i + 1 > r + 1 /\ i + 1 <= (r + 1) + Len(f) /\ (i + 1) - (r + 1) = i - r /\ i - r \in 1 .. Len(q) - r
            /\ r + (i - r) = i
        BY <1>3, <1>10, <2>9
      <4>2. z[i + 1] = f[(i + 1) - (r + 1)]
        BY <1>10, <2>9, <3>2, <3>3, <4>1
      <4> QED BY <2>9, <4>1, <4>2
    <3>6. (\A i \in 1 .. r : z[i] = q[i]) /\ z[r + 1] = x
      BY <1>10, <2>8, <3>2, <3>4
    <3> QED BY <3>4, <3>5, <3>6 DEF Inserted
  <2>11. \A i \in r + 1 .. Len(q) : Pos(p, q[i].seq) > Pos(p, s.seq)
    <3> TAKE i \in r + 1 .. Len(q)
    <3>1. r < Len(q) /\ i \in 1 .. Len(q) /\ r + 1 \in 1 .. Len(q) /\ (i = r + 1 \/ r + 1 < i)
      BY <1>3, <1>10
    <3>2. Pos(p, q[r + 1].seq) # Pos(p, s.seq)
      BY <1>4, <1>5, <1>6, <1>15, <3>1, PosDiff
    <3>3. i = r + 1 \/ Pos(p, q[r + 1].seq) < Pos(p, q[i].seq)
      BY <1>1, <1>2, <3>1 DEF Early
    <3>4. PICK P, S, I : P = Pos(p, q[r + 1].seq) /\ S = Pos(p, s.seq) /\ I = Pos(p, q[i].seq)
      OBVIOUS
    <3>5. P \in Nat /\ S \in Nat /\ I \in Nat /\ P # S /\ ~(P < S) /\ (I = P \/ P < I)
      BY <1>5, <1>6, <1>13, <3>1, <3>2, <3>3, <3>4
    <3>6. I > S
      BY ONLY <3>5
    <3> QED BY <3>4, <3>6
  <2>12. Fresh(g, q, x, r, R)
    BY <1>1, <1>8, <1>10, <1>12, <2>11 DEF Fresh
  <2>13. Early(g, d, R)
    BY <1>1, <1>2, <2>7, <2>10, <2>12, EarlyInsert
  <2> QED BY <1>1, <2>6, <2>13, EarlyOk
<1> QED BY <1>14, <1>15

-----------------------------------------------------------------------------
(* A segment of the peer that is not a RST *)
Arrives(g, s) == WireOK(g.p, g.Cp, g.w, g.k, g.lp, s) /\ ~s.rst

LEMMA ArrivesFacts ==
  ASSUME NEW g, NEW s, Env(g), Arrives(g, s)
  PROVE  /\ WireRec(s) /\ s.seq \in Seqs /\ s.ackno \in Seqs /\ s.data \in Seq(Nat)
         /\ s.syn \in BOOLEAN /\ s.fin \in BOOLEAN /\ s.ack \in BOOLEAN
         /\ TcpLen(s) \in Nat /\ (TcpLen(s) > 0 => SegOK(g.p, g.Cp, g.w, g.k, s))
         /\ (s.fin => SegOK(g.p, g.Cp, g.w, g.k, s))
         /\ (s.ack => Pos(g.e, s.ackno) <= g.lp)
         /\ Pos(g.p, s.seq) \in Nat /\ Pos(g.p, s.seq) <= g.w + 2
         /\ SegEnd(s) \in Seqs /\ Pos(g.p, SegEnd(s)) <= g.w + 2
<1>1. /\ WireRec(s) /\ s.seq \in Seqs /\ s.ackno \in Seqs /\ s.data \in Seq(Nat)
      /\ s.syn \in BOOLEAN /\ s.fin \in BOOLEAN /\ s.ack \in BOOLEAN
      /\ (s.ack => Pos(Peer(g.p), s.ackno) <= g.lp)
      /\ \/ s.data = <<>> /\ ~s.syn /\ ~s.fin /\ Pos(g.p, s.seq) <= g.w + 2
         \/ SegOK(g.p, g.Cp, g.w, g.k, s)
  BY DEF Arrives, WireOK
<1>2. g.p \in Ends /\ Peer(g.p) = g.e /\ g.w \in Nat /\ g.w + 2 < SeqSpace /\ SeqSpace \in Nat
      /\ Writes(g.p, g.Cp, g.w, g.k)
  BY EnvFacts
<1>3. Pos(g.p, s.seq) \in Nat /\ TcpLen(s) \in Nat
  BY <1>1, <1>2, PosType, TcpLenIs
<1>4. CASE SegOK(g.p, g.Cp, g.w, g.k, s)
  <2>1. /\ Pos(g.p, s.seq) <= g.w + 1 /\ SegEnd(s) \in Seqs /\ Pos(g.p, SegEnd(s)) = EndPos(g.p, s)
        /\ EndPos(g.p, s) <= g.w + 2
    BY <1>2, <1>4, SegFacts
  <2> QED BY <1>1, <1>2, <1>3, <1>4, <2>1
<1>5. CASE s.data = <<>> /\ ~s.syn /\ ~s.fin /\ Pos(g.p, s.seq) <= g.w + 2
  <2>1. TcpLen(s) = 0
    <3>1. Len(s.data) = 0
      BY <1>5
    <3> QED BY <1>1, <1>5, <3>1, TcpLenIs
  <2>2. Pos(g.p, s.seq) + 0 < SeqSpace
    BY <1>2, <1>3, <1>5
  <2>3. SegEnd(s) \in Seqs /\ Pos(g.p, SegEnd(s)) = Pos(g.p, s.seq) + 0
    BY <1>1, <1>2, <2>1, <2>2, PosPlus DEF SegEnd
  <2> QED BY <1>1, <1>2, <1>3, <1>5, <2>1, <2>3
<1> QED BY <1>1, <1>4, <1>5

LEMMA TrimFrontIs ==
  ASSUME NEW g, NEW c, Env(g), c.rcv_nxt \in Seqs, Pos(g.p, c.rcv_nxt) <= g.w + 2, NEW s, WireRec(s),
         SegOK(g.p, g.Cp, g.w, g.k, s), NEW t, t = TrimFront(c, s)
  PROVE  t = s \/ (t.seq = c.rcv_nxt /\ Piece(g, t) /\ t.fin = s.fin)
<1>1. PICK p, P, R, L, off : /\ p = g.p /\ P = Pos(g.p, s.seq) /\ R = Pos(g.p, c.rcv_nxt) /\ L = Len(s.data)
                             /\ off = Diff(c.rcv_nxt, s.seq)
  OBVIOUS
<1>2. p \in Ends /\ g.w \in Nat /\ g.w + 2 < SeqSpace /\ SeqSpace \in Nat /\ g.w + 2 < SeqSpace \div 2
      /\ SeqSpace \div 2 \in Nat /\ Writes(p, g.Cp, g.w, g.k)
  BY <1>1, EnvFacts, TcpConsts
<1>3. /\ s.seq \in Seqs /\ s.data \in Seq(Nat) /\ s.syn \in BOOLEAN /\ s.fin \in BOOLEAN
      /\ (s.fin => s.data = <<>>) /\ (s.syn => s.data = <<>>)
      /\ (\A i \in 1 .. L : s.data[i] = P - 1 + i) /\ P + L <= g.w + 1
      /\ (\A a \in g.Cp : a <= P \/ a >= EndPos(p, s))
  BY <1>1 DEF SegOK
<1>4. P \in Nat /\ R \in Nat /\ L \in Nat /\ R <= g.w + 2
  BY <1>1, <1>2, <1>3, PosType
<1>5. PICK y : y = Plus(s.seq, Len(s.data))
  OBVIOUS
<1>6. y \in Seqs /\ Pos(p, y) = P + L
  <2>1. P + L < SeqSpace
    BY <1>2, <1>3, <1>4
  <2> QED BY <1>1, <1>2, <1>3, <1>4, <1>5, <2>1, PosPlus
<1>7. CASE ~(SeqLt(s.seq, c.rcv_nxt) /\ SeqLt(c.rcv_nxt, y))
  BY <1>5, <1>7 DEF TrimFront
<1>8. CASE SeqLt(s.seq, c.rcv_nxt) /\ SeqLt(c.rcv_nxt, y)
  <2>1. t = [s EXCEPT !.seq = c.rcv_nxt, !.data = Tail1(@, off)]
    BY <1>1, <1>5, <1>8 DEF TrimFront
  <2>2. P < R /\ R < P + L
    <3>1. P < SeqSpace \div 2 /\ R < SeqSpace \div 2 /\ P + L < SeqSpace \div 2
      BY <1>2, <1>3, <1>4
    <3>2. SeqLt(s.seq, c.rcv_nxt) <=> P < R
      BY <1>1, <1>2, <1>3, <3>1, PosLt
    <3>3. SeqLt(c.rcv_nxt, y) <=> R < P + L
      BY <1>1, <1>2, <1>6, <3>1, PosLt
    <3> QED BY <1>8, <3>2, <3>3
  <2>3. off = R - P
    <3>1. Pos(p, c.rcv_nxt) >= Pos(p, s.seq)
      BY <1>1, <1>4, <2>2
    <3> QED BY <1>1, <1>2, <1>3, <3>1, PosDiff
  <2>4. off \in 0 .. Len(s.data) /\ L - off \in Nat
    BY <1>1, <1>4, <2>2, <2>3
  <2>5. PICK z : z = Tail1(s.data, off)
    OBVIOUS
  <2>6. z \in Seq(Nat) /\ Len(z) = L - off /\ \A i \in 1 .. L - off : z[i] = s.data[off + i]
    BY <1>1, <1>3, <2>4, <2>5, SplitIs
  <2>7. ~s.fin /\ ~s.syn
    <3>1. L # 0
      BY <1>4, <2>2
    <3> QED BY <1>1, <1>3, <3>1
  <2>8. t.seq = c.rcv_nxt /\ t.data = z /\ t.syn = s.syn /\ t.fin = s.fin
    BY <2>1, <2>5 DEF WireRec
  <2>9. ASSUME NEW i \in 1 .. Len(z) PROVE z[i] = R - 1 + i
    <3>1. i \in 1 .. L - off /\ off + i \in 1 .. L
      BY <1>4, <2>4, <2>6
    <3>2. z[i] = P - 1 + (off + i)
      BY <1>3, <2>6, <3>1
    <3> QED BY <1>4, <2>3, <3>1, <3>2
  <2>10. EndPos(p, t) = R + (L - off) /\ EndPos(p, s) = P + L /\ R + (L - off) = P + L
    <3>1. TcpLen(t) = Len(z)
      BY <1>3, <2>6, <2>7, <2>8, TcpLenIs
    <3>2. TcpLen(s) = L
      BY <1>1, <1>3, <2>7, TcpLenIs
    <3>3. R + (L - off) = P + L
      BY <1>4, <2>3
    <3> QED BY <1>1, <2>6, <2>8, <3>1, <3>2, <3>3 DEF EndPos
  <2>11. \A a \in g.Cp : a <= R \/ a >= EndPos(p, t)
    <3> TAKE a \in g.Cp
    <3>1. a \in Nat
      BY EnvFacts
    <3>2. a <= P \/ a >= P + L
      BY <1>3, <2>10
    <3> QED BY <1>4, <2>2, <2>10, <3>1, <3>2
  <2>12. R >= 1 /\ R + Len(z) <= g.w + 1
    BY <1>3, <1>4, <2>2, <2>6, <2>10
  <2>13. Piece(g, t)
    BY <1>1, <1>3, <2>6, <2>7, <2>8, <2>9, <2>11, <2>12 DEF Piece
  <2> QED BY <2>8, <2>13
<1> QED BY <1>7, <1>8

LEMMA ReceiveDataOk ==
  ASSUME NEW g, NEW c, Env(g), Ok(g, c), c.state \in Receiving, c.pend = <<>>, NEW s, Arrives(g, s),
         NEW d, d = ReceiveData(c, s)
  PROVE  Kept(g, c, d) /\ d.state = c.state
<1>1. c.state \in Synced /\ c.state \notin {"CLOSED", "SYN_SENT"}
  BY StateSets DEF Receiving
<1>2. PICK t, edge, a : t = TrimFront(c, s) /\ edge = Plus(c.rcv_nxt, c.rcv_wnd) /\ a = AckNow(c)
  OBVIOUS
<1>3. Kept(g, c, a) /\ Same(c, a)
  BY <1>1, <1>2, AckNowOk
<1>4. Ok(g, a) /\ a.state = c.state /\ a.rcv_nxt = c.rcv_nxt
  BY <1>3 DEF Kept, Same, SameRcv
<1>5. TcpLen(s) \in Nat
  BY ArrivesFacts
<1>6. d = CASE TcpLen(s) = 0 -> IF SeqLt(s.seq, c.rcv_nxt) \/ ~SeqLt(s.seq, edge) THEN a ELSE c
            [] TcpLen(s) > 0 /\ t.seq = c.rcv_nxt /\ SeqLt(t.seq, edge) -> InSequence(c, t)
            [] TcpLen(s) > 0 /\ SeqLt(c.rcv_nxt, t.seq) /\ SeqLt(t.seq, edge) -> QueueOoseq(a, t)
            [] OTHER -> c
  BY <1>2 DEF ReceiveData
<1>7. CASE TcpLen(s) = 0
  <2>1. d = a \/ d = c
    BY <1>6, <1>7
  <2> QED BY <1>3, <1>4, <2>1, KeptRefl
<1>8. CASE TcpLen(s) > 0
  <2>0. /\ SegOK(g.p, g.Cp, g.w, g.k, s) /\ WireRec(s) /\ c.rcv_nxt \in Seqs /\ Pos(g.p, c.rcv_nxt) <= g.w + 2
        /\ Pos(g.p, c.rcv_nxt) >= 1 /\ Pos(g.p, c.rcv_nxt) \in Nat
    BY <1>1, <1>8, ArrivesFacts, OkFacts DEF Ok, Life, Rcv
  <2>1. t = s \/ (t.seq = c.rcv_nxt /\ Piece(g, t) /\ t.fin = s.fin)
    BY <1>2, <2>0, TrimFrontIs
  <2>2. ~SeqLt(c.rcv_nxt, c.rcv_nxt)
    <3>1. Diff(c.rcv_nxt, c.rcv_nxt) = 0
      BY <2>0, DiffIs DEF Seqs
    <3>2. SeqSpace \div 2 \in Nat /\ SeqSpace \div 2 > 0
      BY EnvFacts, TcpConsts
    <3> QED BY <3>1, <3>2 DEF SeqLt
  <2>3. CASE t.seq = c.rcv_nxt /\ SeqLt(t.seq, edge)
    <3>1. d = InSequence(c, t)
      BY <1>5, <1>6, <1>8, <2>2, <2>3
    <3>2. Piece(g, t)
      <4>1. CASE t = s
        <5>1. (s.syn => Pos(g.p, s.seq) = 0)
          BY <2>0 DEF SegOK
        <5>2. ~s.syn
          BY <2>0, <2>3, <4>1, <5>1
        <5> QED BY <2>0, <4>1, <5>2, SegPiece
      <4>2. CASE t # s
        BY <2>1, <4>2
      <4> QED BY <4>1, <4>2
    <3> QED BY <2>3, <3>1, <3>2, InSequenceOk
  <2>4. CASE t.seq # c.rcv_nxt /\ SeqLt(c.rcv_nxt, t.seq) /\ SeqLt(t.seq, edge)
    <3>1. d = QueueOoseq(a, t)
      BY <1>5, <1>6, <1>8, <2>4
    <3>2. t = s
      BY <2>1, <2>4
    <3>3. Pos(g.p, s.seq) > Pos(g.p, c.rcv_nxt)
      <4>1. s.seq \in Seqs /\ Pos(g.p, s.seq) \in Nat /\ Pos(g.p, s.seq) <= g.w + 1
        BY <2>0, EnvFacts, SegFacts
      <4>2. g.p \in Ends /\ Pos(g.p, s.seq) < SeqSpace \div 2 /\ Pos(g.p, c.rcv_nxt) < SeqSpace \div 2
        BY <2>0, <4>1, EnvFacts, TcpConsts
      <4>3. SeqLt(c.rcv_nxt, s.seq) <=> Pos(g.p, c.rcv_nxt) < Pos(g.p, s.seq)
        BY <2>0, <4>1, <4>2, PosLt
      <4> QED BY <2>0, <2>4, <3>2, <4>1, <4>3
    <3>4. Kept(g, a, d) /\ d.state = a.state
      BY <1>1, <1>4, <2>0, <3>1, <3>2, <3>3, QueueOoseqOk
    <3> QED BY <1>3, <1>4, <3>4, KeptTrans
  <2>5. CASE /\ ~(t.seq = c.rcv_nxt /\ SeqLt(t.seq, edge))
             /\ ~(t.seq # c.rcv_nxt /\ SeqLt(c.rcv_nxt, t.seq) /\ SeqLt(t.seq, edge))
    <3>1. d = c
      BY <1>5, <1>6, <1>8, <2>2, <2>5
    <3> QED BY <3>1, KeptRefl
  <2> QED BY <2>3, <2>4, <2>5
<1> QED BY <1>5, <1>7, <1>8

LEMMA TcpReceiveOk ==
  ASSUME NEW g, NEW c, Env(g), Ok(g, c), c.state \in Receiving, c.pend = <<>>, NEW s, Arrives(g, s),
         NEW d, d = TcpReceive(c, s)
  PROVE  Kept(g, c, d) /\ d.state = c.state
<1>1. PICK b : b = ReceiveAck(c, s)
  OBVIOUS
<1>2. Kept(g, c, b) /\ SameRcv(c, b) /\ b.state = c.state
  <2>1. c.state \in Synced
    BY DEF Receiving
  <2> QED BY <1>1, <2>1, ArrivesFacts, ReceiveAckOk
<1>3. Ok(g, b) /\ b.pend = <<>> /\ b.state \in Receiving
  BY <1>2 DEF Kept, SameRcv
<1>4. d = ReceiveData(b, s)
  BY <1>1 DEF TcpReceive
<1>5. Kept(g, b, d) /\ d.state = b.state
  BY <1>3, <1>4, ReceiveDataOk
<1> QED BY <1>2, <1>5, KeptTrans

-----------------------------------------------------------------------------
(* tcp_process, state by state *)
LEMMA ToStateOk ==
  ASSUME NEW g, NEW c, Env(g), Ok(g, c), c.state \in Receiving, NEW n \in Receiving,
         n \in Open <=> c.state \in Open, NEW d, d = [c EXCEPT !.state = n]
  PROVE  Kept(g, c, d) /\ d.state = n
<1>1. Pcb(c) /\ Life(g, c) /\ Heard(g, c) /\ Snd(g, c) /\ Rcv(g, c)
  BY StateSets DEF Ok, Receiving
<1>2. /\ n \in Synced /\ n \in Active /\ n \in States /\ n \notin {"CLOSED", "SYN_SENT", "SYN_RCVD", "TIME_WAIT"}
      /\ c.state \in Synced /\ c.state \notin {"CLOSED", "SYN_SENT", "SYN_RCVD", "TIME_WAIT"} /\ c.state \in States
  BY StateSets DEF Receiving
<1>3. /\ Pcb(d) /\ SameSnd(c, d) /\ SameRcv(c, d) /\ SameApp(c, d) /\ d.state = n /\ d.snd_nxt = c.snd_nxt
      /\ d.delay = c.delay /\ d.out = c.out
  <2>1. Pcb(d) /\ SameSnd(c, d) /\ SameApp(c, d) /\ d.state = n
    BY <1>1 DEF Pcb, Fields, SameSnd, SameApp
  <2>2. SameRcv(c, d) /\ d.delay = c.delay /\ d.out = c.out /\ d.snd_nxt = c.snd_nxt
    BY <1>1 DEF Pcb, Fields, SameRcv
  <2> QED BY <2>1, <2>2
<1>4. Snd(g, d) /\ Rcv(g, d) /\ Heard(g, d)
  BY <1>1, <1>2, <1>3, SndSame, RcvSame, HeardSame
<1>5. Lim(g, d) = Lim(g, c) /\ Lim(g, c) \in Nat
  BY <1>2, <1>3, OkFacts DEF Lim, SameRcv
<1>6. d.written = c.written /\ d.closing = c.closing
  BY <1>3 DEF SameSnd
<1>7. \A s \in d.out : Sends(g, d, s)
  <2>1. Lim(g, c) <= Lim(g, d) /\ Lim(g, d) \in Nat
    BY <1>5
  <2> QED BY <1>3, <1>6, <2>1, OutSame
<1>8. Life(g, d)
  <2>1. d.attached = c.attached /\ d.gotfin = c.gotfin /\ d.rcv_nxt = c.rcv_nxt
    BY <1>3 DEF SameRcv
  <2> QED BY <1>1, <1>2, <1>3, <1>6, <2>1 DEF Life
<1> QED BY <1>3, <1>4, <1>5, <1>6, <1>7, <1>8 DEF Kept, Ok

LEMMA StateKinds ==
  /\ {"ESTABLISHED", "CLOSE_WAIT", "FIN_WAIT_1", "FIN_WAIT_2", "CLOSING", "LAST_ACK"} = Receiving
  /\ {"ESTABLISHED", "CLOSE_WAIT"} \subseteq Open
  /\ {"FIN_WAIT_1", "FIN_WAIT_2", "CLOSING", "LAST_ACK", "TIME_WAIT", "CLOSED"} \cap Open = {}
  /\ Receiving \subseteq Synced
BY DEF Receiving, Synced, Active, States, Open

(* What a handler leaves: a connection in order, and nothing pending if it is gone *)
Handled(g, c, d) == Kept(g, c, d) /\ (d.state = "CLOSED" => d.pend = <<>>)

LEMMA AckNowTo ==
  ASSUME NEW g, NEW c, Env(g), Ok(g, c), c.state \in Receiving, NEW n \in Receiving,
         n \in Open <=> c.state \in Open, NEW d, d = [AckNow(c) EXCEPT !.state = n]
  PROVE  Handled(g, c, d)
<1>1. PICK b : b = AckNow(c)
  OBVIOUS
<1>2. Kept(g, c, b) /\ Same(c, b)
  BY <1>1, StateKinds, StateSets, AckNowOk
<1>3. Ok(g, b) /\ b.state = c.state
  BY <1>2 DEF Kept, Same
<1>4. d = [b EXCEPT !.state = n]
  BY <1>1
<1>5. Kept(g, b, d) /\ d.state = n
  <2>1. Env(g) /\ Ok(g, b) /\ b.state \in Receiving /\ n \in Receiving /\ (n \in Open <=> b.state \in Open)
    BY <1>3
  <2> QED BY ONLY <1>4, <2>1, ToStateOk
<1>6. d.state # "CLOSED"
  BY <1>5, StateKinds
<1>7. Kept(g, c, d)
  BY <1>2, <1>5, KeptTrans
<1> QED BY <1>6, <1>7 DEF Handled

LEMMA ReceiveThen ==
  ASSUME NEW g, NEW c, Env(g), Ok(g, c), c.state \in Receiving, c.pend = <<>>, NEW s, Arrives(g, s),
         NEW r, r = TcpReceive(c, s)
  PROVE  /\ Kept(g, c, r) /\ Ok(g, r) /\ r.state = c.state /\ r.state \in Receiving
         /\ (c.state \notin Open => r.closing) /\ Handled(g, c, r)
<1>1. Kept(g, c, r) /\ r.state = c.state
  BY TcpReceiveOk
<1>2. Ok(g, r) /\ r.closing = c.closing
  BY <1>1 DEF Kept
<1>3. c.state \notin Open => c.closing
  BY StateKinds, StateSets DEF Ok, Life
<1>4. r.state # "CLOSED"
  BY <1>1, StateKinds
<1> QED BY <1>1, <1>2, <1>3, <1>4 DEF Handled

LEMMA HandledTrans ==
  ASSUME NEW g, NEW c, NEW d, NEW f, Env(g), Ok(g, c), Kept(g, c, d), Handled(g, d, f)
  PROVE  Handled(g, c, f)
BY KeptTrans DEF Handled

LEMMA EstablishedOk ==
  ASSUME NEW g, NEW c, Env(g), Ok(g, c), c.state \in {"ESTABLISHED", "CLOSE_WAIT"}, c.pend = <<>>, NEW s,
         Arrives(g, s), NEW d, d = Established(c, s)
  PROVE  Handled(g, c, d)
<1>1. PICK r : r = TcpReceive(c, s)
  OBVIOUS
<1>2. /\ Kept(g, c, r) /\ Ok(g, r) /\ r.state = c.state /\ r.state \in Receiving /\ Handled(g, c, r)
  <2>1. c.state \in Receiving
    BY StateKinds
  <2> QED BY <1>1, <2>1, ReceiveThen
<1>3. CASE s.fin
  <2>1. d = [AckNow(r) EXCEPT !.state = "CLOSE_WAIT"]
    BY <1>1, <1>3 DEF Established
  <2>2. "CLOSE_WAIT" \in Receiving /\ ("CLOSE_WAIT" \in Open <=> r.state \in Open)
    BY <1>2, StateKinds
  <2>3. Handled(g, r, d)
    BY <1>2, <2>1, <2>2, AckNowTo
  <2> QED BY <1>2, <2>3, HandledTrans
<1>4. CASE ~s.fin
  <2>1. d = r
    BY <1>1, <1>4 DEF Established
  <2> QED BY <1>2, <2>1
<1> QED BY <1>3, <1>4

LEMMA ToTimeWaitHandled ==
  ASSUME NEW g, NEW c, Env(g), Ok(g, c), c.state \in Receiving, c.closing, NEW d, d = ToTimeWait(c)
  PROVE  Handled(g, c, d)
<1>1. c.state \in Synced
  BY StateKinds
<1>2. Kept(g, c, d) /\ d.state = "TIME_WAIT"
  BY <1>1, ToTimeWaitOk
<1> QED BY <1>2 DEF Handled

LEMMA FinWait1Ok ==
  ASSUME NEW g, NEW c, Env(g), Ok(g, c), c.state = "FIN_WAIT_1", c.pend = <<>>, NEW s,
         Arrives(g, s), NEW d, d = FinWait1(c, s)
  PROVE  Handled(g, c, d)
<1>1. PICK r, acked : r = TcpReceive(c, s) /\ acked = (s.ack /\ s.ackno = r.snd_nxt)
  OBVIOUS
<1>2. /\ Kept(g, c, r) /\ Ok(g, r) /\ r.state = c.state /\ r.state \in Receiving /\ Handled(g, c, r) /\ r.closing
  <2>1. c.state \in Receiving /\ c.state \notin Open
    BY StateKinds
  <2> QED BY <1>1, <2>1, ReceiveThen
<1>3. CASE s.fin /\ acked
  <2>1. d = ToTimeWait(r)
    BY <1>1, <1>3 DEF FinWait1
  <2>2. Handled(g, r, d)
    BY <1>2, <2>1, ToTimeWaitHandled
  <2> QED BY <1>2, <2>2, HandledTrans
<1>4. CASE s.fin /\ ~acked
  <2>1. d = [AckNow(r) EXCEPT !.state = "CLOSING"]
    BY <1>1, <1>4 DEF FinWait1
  <2>2. "CLOSING" \in Receiving /\ ("CLOSING" \in Open <=> r.state \in Open)
    BY <1>2, StateKinds
  <2>3. Handled(g, r, d)
    BY <1>2, <2>1, <2>2, AckNowTo
  <2> QED BY <1>2, <2>3, HandledTrans
<1>5. CASE ~s.fin /\ acked
  <2>1. d = [r EXCEPT !.state = "FIN_WAIT_2"]
    BY <1>1, <1>5 DEF FinWait1
  <2>2. "FIN_WAIT_2" \in Receiving /\ ("FIN_WAIT_2" \in Open <=> r.state \in Open)
    BY <1>2, StateKinds
  <2>3. Kept(g, r, d) /\ d.state = "FIN_WAIT_2"
    BY <1>2, <2>1, <2>2, ToStateOk
  <2>4. Handled(g, r, d)
    BY <2>3 DEF Handled
  <2> QED BY <1>2, <2>4, HandledTrans
<1>6. CASE ~s.fin /\ ~acked
  <2>1. d = r
    BY <1>1, <1>6 DEF FinWait1
  <2> QED BY <1>2, <2>1
<1> QED BY <1>3, <1>4, <1>5, <1>6

LEMMA LaterOk ==
  ASSUME NEW g, NEW c, Env(g), Ok(g, c), c.pend = <<>>, NEW s, Arrives(g, s), NEW d,
         \/ c.state = "FIN_WAIT_2" /\ d = FinWait2(c, s)
         \/ c.state = "CLOSING" /\ d = Closing(c, s)
         \/ c.state = "LAST_ACK" /\ d = LastAck(c, s)
  PROVE  Handled(g, c, d)
<1>1. PICK r : r = TcpReceive(c, s)
  OBVIOUS
<1>2. /\ Kept(g, c, r) /\ Ok(g, r) /\ r.state = c.state /\ r.state \in Receiving /\ Handled(g, c, r) /\ r.closing
      /\ r.state # "CLOSED"
  <2>1. c.state \in Receiving /\ c.state \notin Open /\ c.state # "CLOSED"
    BY StateKinds
  <2> QED BY <1>1, <2>1, ReceiveThen
<1>3. d = r \/ d = ToTimeWait(r) \/ d = PcbRemove(r)
  <2>1. CASE c.state = "FIN_WAIT_2" /\ d = FinWait2(c, s)
    BY <1>1, <2>1 DEF FinWait2
  <2>2. CASE c.state = "CLOSING" /\ d = Closing(c, s)
    BY <1>1, <2>2 DEF Closing
  <2>3. CASE c.state = "LAST_ACK" /\ d = LastAck(c, s)
    BY <1>1, <2>3 DEF LastAck
  <2> QED BY <2>1, <2>2, <2>3
<1>4. CASE d = r
  BY <1>2, <1>4
<1>5. CASE d = ToTimeWait(r)
  <2>1. Handled(g, r, d)
    BY <1>2, <1>5, ToTimeWaitHandled
  <2> QED BY <1>2, <2>1, HandledTrans
<1>6. CASE d = PcbRemove(r)
  <2>1. Kept(g, r, d) /\ d.state = "CLOSED" /\ d.pend = <<>>
    BY <1>2, <1>6, PcbRemoveOk
  <2>2. Handled(g, r, d)
    BY <2>1 DEF Handled
  <2> QED BY <1>2, <2>2, HandledTrans
<1> QED BY <1>3, <1>4, <1>5, <1>6

LEMMA TimeWaitOk ==
  ASSUME NEW g, NEW c, Env(g), Ok(g, c), c.state = "TIME_WAIT", NEW s, Arrives(g, s), NEW d, d = TimeWait(c, s)
  PROVE  Handled(g, c, d)
<1>1. PICK r : r = IF SeqLt(c.rcv_nxt, SegEnd(s)) THEN [c EXCEPT !.rcv_nxt = SegEnd(s)] ELSE c
  OBVIOUS
<1>2. d = IF TcpLen(s) > 0 THEN AckNow(r) ELSE r
  BY <1>1 DEF TimeWait
<1>3. Kept(g, c, r) /\ r.state = "TIME_WAIT"
  <2>1. CASE r = c
    BY <2>1, KeptRefl
  <2>2. CASE r = [c EXCEPT !.rcv_nxt = SegEnd(s)]
    <3>1. Pcb(c) /\ Life(g, c) /\ Heard(g, c) /\ "TIME_WAIT" \notin Active /\ "TIME_WAIT" \notin Synced
          /\ SegEnd(s) \in Seqs /\ Pos(g.p, SegEnd(s)) <= g.w + 2
      BY StateSets, ArrivesFacts DEF Ok
    <3>2. /\ Pcb(r) /\ r.rcv_nxt = SegEnd(s) /\ r.state = c.state /\ SameApp(c, r) /\ r.written = c.written
          /\ r.closing = c.closing /\ r.attached = c.attached /\ r.delay = c.delay /\ r.gotfin = c.gotfin
          /\ r.snd_nxt = c.snd_nxt /\ r.out = c.out
      BY <2>2, <3>1 DEF Pcb, Fields, SameApp
    <3>3. Lim(g, r) = Lim(g, c) /\ Lim(g, c) \in Nat
      BY <3>1, <3>2, OkFacts DEF Lim
    <3>4. \A x \in r.out : Sends(g, r, x)
      BY <3>2, <3>3 DEF Ok, Sends
    <3>5. Life(g, r)
      BY <3>1, <3>2 DEF Life, Open
    <3>6. Heard(g, r)
      BY <3>1, <3>2, HeardSame
    <3> QED BY <3>1, <3>2, <3>3, <3>4, <3>5, <3>6 DEF Kept, Ok
  <2> QED BY <1>1, <2>1, <2>2
<1>4. Ok(g, r)
  BY <1>3 DEF Kept
<1>5. CASE d = r
  BY <1>3, <1>5 DEF Handled
<1>6. CASE d = AckNow(r)
  <2>1. Kept(g, r, d) /\ Same(r, d)
    BY <1>3, <1>4, <1>6, AckNowOk
  <2>2. Handled(g, r, d)
    BY <1>3, <2>1 DEF Handled, Same
  <2> QED BY <1>3, <2>2, HandledTrans
<1> QED BY <1>2, <1>5, <1>6

-----------------------------------------------------------------------------
(* The SYN is acknowledged: it leaves the queue. *)
LEMMA SynAcked ==
  ASSUME NEW e, NEW C, NEW w, NEW k, Writes(e, C, w, k), NEW a, NEW u, NEW lb \in Nat,
         Sending(e, C, w, k, a, u, 0, lb), a # <<>>, a[1].syn
  PROVE  /\ Pos(e, a[1].seq) = 0 /\ a[1].seq \in Seqs
         /\ Sending(e, C, w, k, Tail(a), u, 1, lb)
         /\ QueueLen(a) = 1 + QueueLen(Tail(a)) /\ QueueLen(Tail(a)) \in Nat /\ lb >= 1
<1>1. PICK lo, mid \in Nat : Queue(e, C, w, k, a, lo, mid) /\ Queue(e, C, w, k, u, mid, lb) /\ lo <= 0
  BY DEF Sending
<1>2. a \in Seq(Segs) /\ Len(a) \in Nat /\ Len(a) >= 1 /\ 1 \in 1 .. Len(a) /\ 1 \in 0 .. Len(a)
      /\ u \in Seq(Segs) /\ Len(u) \in Nat
  BY <1>1 DEF Queue
<1>3. SegOK(e, C, w, k, a[1]) /\ a[1].n = 1 /\ EndPos(e, a[1]) <= mid
  BY <1>1, <1>2 DEF Queue
<1>4. Pos(e, a[1].seq) = 0 /\ EndPos(e, a[1]) = 1 /\ a[1].seq \in Seqs
  BY <1>3, SegFacts
<1>5. PICK t, f : t = Tail1(a, 1) /\ f = SubSeq(a, 1, 1)
  OBVIOUS
<1>6. Tail(a) = t
  BY <1>2, <1>5 DEF Tail1
<1>7. PICK m \in Nat : Queue(e, C, w, k, f, lo, m) /\ Queue(e, C, w, k, t, m, mid)
                       /\ QueueLen(a) = QueueLen(f) + QueueLen(t)
  BY <1>1, <1>2, <1>5, QueueSplit
<1>8. /\ f \in Seq(Segs) /\ Len(f) = 1 /\ f[1] = a[1]
      /\ t \in Seq(Segs) /\ Len(t) = Len(a) - 1 /\ \A i \in 1 .. Len(a) - 1 : t[i] = a[1 + i]
  <2>1. \A i \in 1 .. 1 : f[i] = a[i]
    BY ONLY <1>2, <1>5, SplitIs
  <2> QED BY <1>2, <1>5, <2>1, SplitIs
<1>9. QueueLen(f) = 1
  <2>1. f = <<a[1]>>
    BY <1>8
  <2>2. a[1] \in Segs
    BY <1>2
  <2> QED BY <1>3, <2>1, <2>2, QueueLenOne
<1>10. QueueLen(t) \in Nat
  BY <1>8, QueueLenNat DEF Counted
<1>11. m <= 1
  <2>1. \A i \in 1 .. Len(f) : EndPos(e, f[i]) <= 1
    BY <1>4, <1>8
  <2>2. lo <= 1
    BY <1>1
  <2> QED BY <1>7, <2>1, <2>2, FrontBelow
<1>12. ASSUME NEW i \in 1 .. Len(t) PROVE 1 < EndPos(e, t[i])
  <2>1. i \in 1 .. Len(a) - 1 /\ 1 + i \in 1 .. Len(a) /\ 1 < 1 + i
    BY <1>2, <1>8
  <2>2. t[i] = a[1 + i] /\ SegOK(e, C, w, k, a[1 + i]) /\ EndPos(e, a[1]) <= Pos(e, a[1 + i].seq)
    BY <1>1, <1>2, <1>8, <2>1 DEF Queue
  <2>3. Pos(e, a[1 + i].seq) \in Nat /\ EndPos(e, a[1 + i]) \in Nat /\ EndPos(e, a[1 + i]) > Pos(e, a[1 + i].seq)
    BY <2>2, SegFacts
  <2> QED BY <1>4, <2>2, <2>3
<1>13. ASSUME NEW i \in 1 .. Len(u) PROVE 1 < EndPos(e, u[i])
  <2>1. SegOK(e, C, w, k, u[i]) /\ mid <= Pos(e, u[i].seq)
    BY <1>1 DEF Queue
  <2>2. Pos(e, u[i].seq) \in Nat /\ EndPos(e, u[i]) \in Nat /\ EndPos(e, u[i]) > Pos(e, u[i].seq)
    BY <2>1, SegFacts
  <2> QED BY <1>1, <1>3, <1>4, <2>1, <2>2
<1>14. Sending(e, C, w, k, t, u, 1, lb)
  BY <1>1, <1>7, <1>11, <1>12, <1>13 DEF Sending
<1>15. mid <= lb
  BY <1>1 DEF Queue
<1>16. QueueLen(a) = 1 + QueueLen(Tail(a)) /\ QueueLen(Tail(a)) \in Nat
  BY <1>6, <1>7, <1>9, <1>10
<1>17. lb >= 1
  <2>1. PICK E : E = EndPos(e, a[1])
    OBVIOUS
  <2>2. E = 1 /\ E <= mid /\ mid <= lb /\ mid \in Nat /\ lb \in Nat
    BY <1>1, <1>3, <1>4, <1>15, <2>1
  <2> QED BY ONLY <2>2
<1>18. Sending(e, C, w, k, Tail(a), u, 1, lb)
  BY <1>6, <1>14
<1> QED BY ONLY <1>4, <1>16, <1>17, <1>18

LEMMA SynSentOk ==
  ASSUME NEW g, NEW c, Env(g), Ok(g, c), c.state = "SYN_SENT", NEW s, Arrives(g, s), NEW d, d = SynSent(c, s)
  PROVE  Handled(g, c, d)
<1>1. CASE ~(s.ack /\ s.syn /\ c.unacked # <<>> /\ s.ackno = Plus(Head(c.unacked).seq, 1))
  <2>1. d = c
    BY <1>1 DEF SynSent
  <2> QED BY <2>1, KeptRefl DEF Handled
<1>2. CASE s.ack /\ s.syn /\ c.unacked # <<>> /\ s.ackno = Plus(Head(c.unacked).seq, 1)
  <2>1. /\ Pcb(c) /\ Life(g, c) /\ Heard(g, c) /\ Snd(g, c) /\ Starting(g, c) /\ c.closing = FALSE
        /\ c.attached = TRUE
    <3>1. "SYN_SENT" \in Active /\ "SYN_SENT" \in Open
      BY DEF Active, States, Open
    <3> QED BY <3>1 DEF Ok, Life
  <2>2. PICK e, p, q, lb : e = g.e /\ p = g.p /\ q = c.unacked /\ lb = Pos(g.e, c.snd_lbb)
    OBVIOUS
  <2>3. /\ Writes(e, g.C, c.written, c.closing) /\ lb \in Nat /\ q \in Seq(Segs) /\ q # <<>> /\ q[1].syn
        /\ Sending(e, g.C, c.written, c.closing, q, c.unsent, 0, lb)
    <3>1. lb \in Nat /\ c.unacked \in Seq(Segs)
      <4>1. c.state \in Active
        BY DEF Active, States
      <4> QED BY <2>2, <4>1, SndFacts
    <3> QED BY <2>1, <2>2, <3>1, OkFacts DEF Snd, Starting
  <2>4. /\ Pos(e, q[1].seq) = 0 /\ q[1].seq \in Seqs
        /\ Sending(e, g.C, c.written, c.closing, Tail(q), c.unsent, 1, lb)
        /\ QueueLen(q) = 1 + QueueLen(Tail(q)) /\ QueueLen(Tail(q)) \in Nat /\ lb >= 1
    BY <2>3, SynAcked
  <2>5. g.e \in Ends /\ g.p \in Ends /\ 0 + 1 < SeqSpace /\ g.w \in Nat /\ g.e = "client"
    <3>1. g.e \in Ends /\ g.p \in Ends /\ g.w \in Nat /\ g.w + 2 < SeqSpace /\ SeqSpace \in Nat
      BY EnvFacts
    <3> QED BY <2>1, <3>1 DEF Starting
  <2>6. s.ackno \in Seqs /\ Pos(g.e, s.ackno) = 1
    <3>1. Head(q) = q[1]
      BY <2>3
    <3>2. Pos(e, Plus(q[1].seq, 1)) = 0 + 1 /\ Plus(q[1].seq, 1) \in Seqs
      BY <2>2, <2>4, <2>5, PosPlus
    <3> QED BY <1>2, <2>2, <3>1, <3>2
  <2>7. Pos(g.e, s.ackno) <= g.lp
    BY <1>2, ArrivesFacts
  <2>8. Plus(s.seq, 1) \in Seqs /\ Pos(g.p, Plus(s.seq, 1)) = 1
    <3>1. s.seq \in Seqs /\ s.syn \in BOOLEAN /\ s.fin \in BOOLEAN /\ s.data \in Seq(Nat) /\ TcpLen(s) \in Nat
      BY ArrivesFacts
    <3>2. TcpLen(s) > 0
      <4>1. TcpLen(s) = Len(s.data) + 1 /\ Len(s.data) \in Nat
        BY <1>2, <3>1, TcpLenIs
      <4> QED BY ONLY <4>1
    <3>3. SegOK(g.p, g.Cp, g.w, g.k, s)
      BY <3>2, ArrivesFacts
    <3>4. Pos(g.p, s.seq) = 0
      BY <1>2, <3>3 DEF SegOK
    <3>5. Plus(s.seq, 1) \in Seqs /\ Pos(g.p, Plus(s.seq, 1)) = 0 + 1
      BY <2>5, <3>1, <3>4, PosPlus
    <3> QED BY <3>5
  <2>90. PICK nx, ql, t : nx = Plus(s.seq, 1) /\ ql = c.qlen - 1 /\ t = Tail(q)
    OBVIOUS
  <2>9. PICK b : /\ nx = Plus(s.seq, 1) /\ ql = c.qlen - 1 /\ t = Tail(q)
               /\ b = [c EXCEPT !.rcv_nxt = nx, !.lastack = s.ackno, !.rcv_wnd = s.wnd,
                     !.state = "ESTABLISHED", !.cwnd = TcpMss, !.qlen = ql, !.unacked = t]
    BY <2>90
  <2>10. d = Ack(b)
    <3>1. b = [c EXCEPT !.rcv_nxt = Plus(s.seq, 1), !.lastack = s.ackno, !.rcv_wnd = s.wnd,
                     !.state = "ESTABLISHED", !.cwnd = TcpMss, !.qlen = @ - 1,
                     !.unacked = Tail(@)]
      BY <2>1, <2>2, <2>9 DEF Pcb, Fields
    <3> QED BY <1>2, <3>1 DEF SynSent
  <2>11. /\ Pcb(b) /\ b.rcv_nxt = nx /\ b.lastack = s.ackno /\ b.state = "ESTABLISHED" /\ b.qlen = ql
         /\ b.unacked = t /\ b.snd_max = c.snd_max /\ b.snd_lbb = c.snd_lbb /\ b.snd_buf = c.snd_buf
         /\ b.unsent = c.unsent /\ b.written = c.written /\ b.closing = c.closing /\ b.pend = c.pend
         /\ b.attached = c.attached /\ b.got = c.got /\ b.gotfin = c.gotfin /\ b.ooseq = c.ooseq
         /\ SameApp(c, b) /\ b.delay = c.delay /\ b.out = c.out /\ b.snd_nxt = c.snd_nxt
    <3>0. Pcb(c) /\ b = [c EXCEPT !.rcv_nxt = nx, !.lastack = s.ackno, !.rcv_wnd = s.wnd,
                     !.state = "ESTABLISHED", !.cwnd = TcpMss, !.qlen = ql, !.unacked = t]
      BY <2>1, <2>9
    <3>1. /\ Pcb(b) /\ b.rcv_nxt = nx /\ b.lastack = s.ackno /\ b.state = "ESTABLISHED" /\ b.qlen = ql
          /\ b.unacked = t
      BY ONLY <3>0 DEF Pcb, Fields
    <3>2. /\ b.snd_max = c.snd_max /\ b.snd_lbb = c.snd_lbb /\ b.snd_buf = c.snd_buf
          /\ b.unsent = c.unsent /\ b.written = c.written /\ b.closing = c.closing /\ b.pend = c.pend
      BY ONLY <3>0 DEF Pcb, Fields
    <3>3. /\ b.attached = c.attached /\ b.got = c.got /\ b.gotfin = c.gotfin /\ b.ooseq = c.ooseq
          /\ SameApp(c, b) /\ b.delay = c.delay /\ b.out = c.out /\ b.snd_nxt = c.snd_nxt
      BY ONLY <3>0 DEF Pcb, Fields, SameApp
    <3> QED BY <3>1, <3>2, <3>3
  <2>12. /\ "ESTABLISHED" \in Open /\ "ESTABLISHED" \in Synced /\ "ESTABLISHED" \in States /\ "SYN_SENT" \in Open
         /\ "SYN_SENT" \notin Synced
    BY DEF Open, Synced, Active, States
  <2>13. Snd(g, b)
    <3>1. Pos(g.e, c.snd_max) >= 1 /\ Pos(g.e, c.lastack) = 0
      BY <2>1 DEF Starting
    <3>2. ql = QueueLen(c.unsent) + QueueLen(t)
      <4>1. c.qlen = QueueLen(c.unsent) + QueueLen(c.unacked)
        BY <2>1 DEF Snd
      <4>2. QueueLen(c.unsent) \in Nat
        <5>1. c.state \in Active
          BY DEF Active, States
        <5> QED BY <5>1, SndFacts, QueueLenNat
      <4> QED BY <2>2, <2>4, <2>9, <4>1, <4>2
    <3>3. (c.snd_buf + (lb - 1)) % BufMod = TcpSndBuf - 1
      <4>1. (c.snd_buf + (lb - 0)) % BufMod = TcpSndBuf - 0 /\ c.snd_buf \in Int
        BY <2>1, <2>2, <3>1 DEF Snd, Used
      <4>2. PICK x : x = c.snd_buf + lb
        OBVIOUS
      <4>3. x \in Int /\ x % BufMod = TcpSndBuf /\ c.snd_buf + (lb - 1) = x - 1
        BY <2>3, <4>1, <4>2, TcpConsts
      <4>4. (x - 1) % BufMod = TcpSndBuf - 1
        BY <4>3, TcpConsts, ModDown
      <4> QED BY <4>3, <4>4
    <3>4. Used(g, b) = 1
      BY <2>5, <2>11 DEF Used
    <3>5. /\ c.snd_max \in Seqs /\ c.snd_lbb \in Seqs /\ c.snd_buf \in Int
          /\ Pos(g.e, c.snd_max) <= Pos(g.e, c.snd_lbb)
          /\ Pos(g.e, c.snd_lbb) = c.written + 1 /\ \A x \in g.C : x < Pos(g.e, c.snd_lbb)
      BY <2>1, <2>12 DEF Snd
    <3>6. Sending(g.e, g.C, b.written, b.closing, b.unacked, b.unsent, 1, lb)
      BY <2>2, <2>4, <2>9, <2>11
    <3> QED BY <2>2, <2>6, <2>7, <2>11, <2>12, <3>1, <3>2, <3>3, <3>4, <3>5, <3>6 DEF Snd
  <2>14. Rcv(g, b)
    <3>1. Pos(g.p, b.rcv_nxt) = 1 /\ b.pend = <<>> /\ b.got = <<>> /\ ~b.gotfin /\ b.ooseq = <<>>
      BY <2>1, <2>8, <2>9, <2>11 DEF Starting
    <3>2. Upto(g, 1) = 0 /\ 1 # g.w + 2
      BY <2>5 DEF Upto
    <3>3. Early(g, b, 1)
      BY <3>1 DEF Early
    <3> QED BY <3>1, <3>2, <3>3 DEF Rcv
  <2>15. Lim(g, b) = 1 /\ Lim(g, c) = 1
    BY <2>8, <2>9, <2>11, <2>12 DEF Lim
  <2>16. \A x \in b.out : Sends(g, b, x)
    BY <2>11, <2>15 DEF Ok, Sends
  <2>17. Life(g, b)
    <3>1. 1 <= g.w + 2
      BY <2>5
    <3> QED BY <2>1, <2>8, <2>9, <2>11, <2>12, <3>1 DEF Life
  <2>18. Heard(g, b)
    BY <2>1, <2>11, HeardSame
  <2>19. Kept(g, c, b)
    BY <2>11, <2>13, <2>14, <2>15, <2>16, <2>17, <2>18 DEF Kept, Ok
  <2>20. Ok(g, b) /\ b.state \notin {"CLOSED", "SYN_SENT"}
    BY <2>11, <2>19 DEF Kept
  <2>21. Kept(g, b, d) /\ Same(b, d)
    BY <2>10, <2>20, AckOk
  <2>22. Handled(g, b, d)
    BY <2>11, <2>21 DEF Handled, Same
  <2> QED BY <2>19, <2>22, HandledTrans
<1> QED BY <1>1, <1>2

-----------------------------------------------------------------------------
(* The application takes the connection. *)
LEMMA TakesOk ==
  ASSUME NEW g, NEW c, Env(g), Ok(g, c), c.state = "SYN_RCVD",
         NEW d, d = [c EXCEPT !.state = "ESTABLISHED", !.attached = TRUE]
  PROVE  Kept(g, c, d) /\ d.state = "ESTABLISHED" /\ d.pend = <<>>
<1>1. /\ "ESTABLISHED" \in Open /\ "ESTABLISHED" \in Synced /\ "ESTABLISHED" \in States /\ "SYN_RCVD" \in Open
      /\ "SYN_RCVD" \in Synced /\ "SYN_RCVD" \in Active /\ "ESTABLISHED" \in Active
  BY DEF Open, Synced, Active, States
<1>2. Pcb(c) /\ Life(g, c) /\ Heard(g, c) /\ Snd(g, c) /\ Rcv(g, c) /\ Accepting(g, c)
  BY <1>1 DEF Ok, Life
<1>3. /\ Pcb(d) /\ SameSnd(c, d) /\ SameApp(c, d) /\ d.state = "ESTABLISHED" /\ d.snd_nxt = c.snd_nxt
      /\ d.delay = c.delay /\ d.out = c.out /\ d.attached = TRUE /\ d.rcv_nxt = c.rcv_nxt /\ d.pend = c.pend
      /\ d.got = c.got /\ d.gotfin = c.gotfin /\ d.ooseq = c.ooseq
  <2>1. Pcb(d) /\ SameSnd(c, d) /\ SameApp(c, d) /\ d.state = "ESTABLISHED"
    BY <1>2 DEF Pcb, Fields, SameSnd, SameApp
  <2>2. /\ d.delay = c.delay /\ d.out = c.out /\ d.attached = TRUE /\ d.rcv_nxt = c.rcv_nxt /\ d.pend = c.pend
        /\ d.snd_nxt = c.snd_nxt
    BY <1>2 DEF Pcb, Fields
  <2>3. d.got = c.got /\ d.gotfin = c.gotfin /\ d.ooseq = c.ooseq
    BY <1>2 DEF Pcb, Fields
  <2> QED BY <2>1, <2>2, <2>3
<1>4. Snd(g, d)
  BY <1>1, <1>2, <1>3, SndSame
<1>5. Rcv(g, d)
  <2>1. Pos(g.p, d.rcv_nxt) = 1 /\ d.pend = <<>> /\ d.got = <<>> /\ ~d.gotfin
    BY <1>2, <1>3 DEF Accepting
  <2>2. Upto(g, 1) = 0 /\ 1 # g.w + 2
    <3>1. g.w \in Nat
      BY EnvFacts
    <3> QED BY <3>1 DEF Upto
  <2>3. Early(g, d, 1)
    BY <1>2, <1>3, <2>1 DEF Rcv, Early
  <2>4. d.pend \in Seq(Nat) /\ Len(d.pend) = 0 /\ Len(d.got) = 0
    BY ONLY <2>1
  <2>5. Len(d.got) + Len(d.pend) = Upto(g, Pos(g.p, d.rcv_nxt))
    BY ONLY <2>1, <2>2, <2>4
  <2>6. \A i \in 1 .. Len(d.pend) : d.pend[i] = Len(d.got) + i
    BY <2>4
  <2> QED BY ONLY EnvFacts, Env(g), <2>1, <2>2, <2>3, <2>4, <2>5, <2>6 DEF Rcv
<1>6. Lim(g, d) = Lim(g, c) /\ Lim(g, c) \in Nat
  BY <1>1, <1>3, OkFacts DEF Lim
<1>7. d.written = c.written /\ d.closing = c.closing
  BY <1>3 DEF SameSnd
<1>8. \A s \in d.out : Sends(g, d, s)
  BY <1>3, <1>6, <1>7 DEF Ok, Sends
<1>9. Life(g, d)
  BY <1>1, <1>2, <1>3, <1>7 DEF Life
<1>10. Heard(g, d)
  BY <1>2, <1>3, HeardSame
<1>11. d.pend = <<>>
  BY <1>2, <1>3 DEF Accepting
<1> QED BY <1>3, <1>4, <1>5, <1>6, <1>7, <1>8, <1>9, <1>10, <1>11 DEF Kept, Ok

LEMMA CwndOk ==
  ASSUME NEW g, NEW c, Env(g), Ok(g, c), NEW n, NEW d, d = [c EXCEPT !.cwnd = n]
  PROVE  Kept(g, c, d) /\ d.state = c.state
<1>1. Pcb(c)
  BY DEF Ok
<1>2. Pcb(d) /\ SameSnd(c, d) /\ SameRcv(c, d)
  BY <1>1 DEF Pcb, Fields, SameSnd, SameRcv
<1>3. SameApp(c, d) /\ d.state = c.state /\ d.snd_nxt = c.snd_nxt /\ d.delay = c.delay /\ d.held = c.held /\ d.out = c.out
  BY <1>1 DEF Pcb, Fields, SameApp
<1>4. Same(c, d)
  BY <1>2, <1>3 DEF Same
<1>5. c.state = "SYN_SENT" => ~d.delay /\ d.held = c.held
  BY <1>3 DEF Ok, Life, Starting
<1>6. d.delay \in BOOLEAN
  BY <1>3, OkFacts
<1>7. Kept(g, c, d)
  BY <1>2, <1>3, <1>4, <1>5, <1>6, OkSame
<1> QED BY <1>3, <1>7

LEMMA SynRcvdOk ==
  ASSUME NEW g, NEW c, Env(g), Ok(g, c), c.state = "SYN_RCVD", NEW s, Arrives(g, s), NEW takes,
         NEW d, d = SynRcvd(c, s, takes)
  PROVE  Handled(g, c, d)
<1>1. CASE d = c
  BY <1>1, KeptRefl DEF Handled
<1>2. CASE d = Abort(c)
  <2>1. c.state \in Active
    BY DEF Active, States
  <2>2. Kept(g, c, d) /\ d.state = "CLOSED" /\ d.pend = <<>>
    BY <1>2, <2>1, AbortOk
  <2> QED BY <2>2 DEF Handled
<1>3. CASE d = [TcpReceive([c EXCEPT !.state = "ESTABLISHED", !.attached = TRUE], s) EXCEPT !.cwnd = TcpMss]
  <2>1. PICK b : b = [c EXCEPT !.state = "ESTABLISHED", !.attached = TRUE]
    OBVIOUS
  <2>2. PICK r : r = TcpReceive(b, s)
    OBVIOUS
  <2>3. Kept(g, c, b) /\ b.state = "ESTABLISHED" /\ b.pend = <<>>
    BY <2>1, TakesOk
  <2>4. Ok(g, b) /\ b.state \in Receiving
    BY <2>3, StateKinds DEF Kept
  <2>5. Kept(g, b, r) /\ r.state = b.state
    BY <2>2, <2>3, <2>4, TcpReceiveOk
  <2>6. Ok(g, r)
    BY <2>5 DEF Kept
  <2>7. d = [r EXCEPT !.cwnd = TcpMss]
    BY <1>3, <2>1, <2>2
  <2>8. Kept(g, r, d) /\ d.state = r.state
    BY <2>6, <2>7, CwndOk
  <2>9. Kept(g, b, d)
    BY <2>4, <2>5, <2>8, KeptTrans
  <2>10. Handled(g, b, d)
    BY <2>3, <2>5, <2>8, <2>9 DEF Handled
  <2> QED BY <2>3, <2>10, HandledTrans
<1> QED BY <1>1, <1>2, <1>3 DEF SynRcvd

LEMMA TcpProcessOk ==
  ASSUME NEW g, NEW c, Env(g), Ok(g, c), c.state # "CLOSED", c.pend = <<>>, NEW s, Arrives(g, s), NEW takes,
         NEW d, d = TcpProcess(c, s, takes)
  PROVE  Handled(g, c, d)
<1>1. CASE c.state = "SYN_SENT"
  BY <1>1, SynSentOk DEF TcpProcess
<1>2. CASE c.state = "SYN_RCVD"
  BY <1>2, SynRcvdOk DEF TcpProcess
<1>3. CASE c.state \in {"ESTABLISHED", "CLOSE_WAIT"}
  BY <1>3, EstablishedOk DEF TcpProcess
<1>4. CASE c.state = "FIN_WAIT_1"
  BY <1>4, FinWait1Ok DEF TcpProcess
<1>5. CASE c.state = "FIN_WAIT_2"
  BY <1>5, LaterOk DEF TcpProcess
<1>6. CASE c.state = "CLOSING"
  BY <1>6, LaterOk DEF TcpProcess
<1>7. CASE c.state = "LAST_ACK"
  BY <1>7, LaterOk DEF TcpProcess
<1>8. CASE c.state = "TIME_WAIT"
  BY <1>8, TimeWaitOk DEF TcpProcess
<1>9. c.state \in States
  BY OkFacts
<1> QED BY <1>1, <1>2, <1>3, <1>4, <1>5, <1>6, <1>7, <1>8, <1>9 DEF States

(* What was received goes to the application, or is dropped. *)
Told(c) == [c EXCEPT !.pend = <<>>, !.got = @ \o c.pend,
                     !.held = @ + Len(c.pend), !.eof = @ \/ c.gotfin]
Dropped(c) == [c EXCEPT !.pend = <<>>]

LEMMA DroppedOk ==
  ASSUME NEW g, NEW c, Env(g), Ok(g, c), c.state = "TIME_WAIT" \/ ~c.attached, NEW d, d = Dropped(c)
  PROVE  Kept(g, c, d) /\ d.state = c.state /\ d.pend = <<>> /\ d.attached = c.attached /\ d.gotfin = c.gotfin
<1>1. Pcb(c) /\ Life(g, c) /\ Heard(g, c)
  BY DEF Ok
<1>2. /\ Pcb(d) /\ SameSnd(c, d) /\ SameApp(c, d) /\ d.state = c.state /\ d.snd_nxt = c.snd_nxt
      /\ d.delay = c.delay /\ d.out = c.out /\ d.attached = c.attached /\ d.rcv_nxt = c.rcv_nxt /\ d.pend = <<>>
      /\ d.got = c.got /\ d.gotfin = c.gotfin /\ d.ooseq = c.ooseq /\ d.held = c.held
  <2>1. Pcb(d) /\ SameSnd(c, d) /\ SameApp(c, d) /\ d.state = c.state
    BY <1>1 DEF Pcb, Fields, SameSnd, SameApp, Dropped
  <2>2. /\ d.delay = c.delay /\ d.out = c.out /\ d.attached = c.attached /\ d.rcv_nxt = c.rcv_nxt /\ d.pend = <<>>
        /\ d.snd_nxt = c.snd_nxt
    BY <1>1 DEF Pcb, Fields, Dropped
  <2>3. d.got = c.got /\ d.gotfin = c.gotfin /\ d.ooseq = c.ooseq /\ d.held = c.held
    BY <1>1 DEF Pcb, Fields, Dropped
  <2> QED BY <2>1, <2>2, <2>3
<1>3. d.state \in Active => Snd(g, d)
  BY <1>2, SndSame DEF Ok
<1>4. d.state \in Synced => Rcv(g, d)
  <2> HAVE d.state \in Synced
  <2>1. Rcv(g, c) /\ ~c.attached
    BY <1>2, StateSets DEF Ok
  <2>2. Early(g, d, Pos(g.p, d.rcv_nxt))
    BY <1>2, <2>1 DEF Rcv, Early
  <2> QED BY <1>2, <2>1, <2>2 DEF Rcv
<1>5. Lim(g, d) = Lim(g, c) /\ Lim(g, c) \in Nat
  BY <1>2, OkFacts DEF Lim
<1>6. d.written = c.written /\ d.closing = c.closing
  BY <1>2 DEF SameSnd
<1>7. \A s \in d.out : Sends(g, d, s)
  BY <1>2, <1>5, <1>6 DEF Ok, Sends
<1>8. Life(g, d)
  <2>1. c.state = "SYN_SENT" => Starting(g, d)
    BY <1>1, <1>2 DEF Life, Starting, SameSnd
  <2>2. c.state = "SYN_RCVD" => Accepting(g, d)
    BY <1>1, <1>2 DEF Life, Accepting
  <2> QED BY <1>1, <1>2, <1>6, <2>1, <2>2 DEF Life, SameApp
<1>9. Heard(g, d)
  BY <1>1, <1>2, HeardSame
<1> QED BY <1>2, <1>3, <1>4, <1>5, <1>6, <1>7, <1>8, <1>9 DEF Kept, Ok

LEMMA ToldIs ==
  ASSUME NEW c, Pcb(c), NEW d, d = Told(c)
  PROVE  /\ Pcb(d) /\ SameSnd(c, d) /\ d.state = c.state /\ d.snd_nxt = c.snd_nxt /\ (c.err => d.err)
         /\ d.delay = c.delay /\ d.out = c.out /\ d.attached = c.attached /\ d.rcv_nxt = c.rcv_nxt
         /\ d.pend = <<>> /\ d.got = c.got \o c.pend /\ d.gotfin = c.gotfin /\ d.ooseq = c.ooseq
         /\ d.held = c.held + Len(c.pend) /\ d.eof = (c.eof \/ c.gotfin)
<1>1. PICK x, y, z : x = c.got \o c.pend /\ y = c.held + Len(c.pend) /\ z = (c.eof \/ c.gotfin)
  OBVIOUS
<1>2. d = [c EXCEPT !.pend = <<>>, !.got = x, !.held = y, !.eof = z]
  BY <1>1 DEF Told, Pcb, Fields
<1>3. Pcb(d) /\ SameSnd(c, d) /\ d.state = c.state
  BY ONLY Pcb(c), <1>2 DEF Pcb, Fields, SameSnd
<1>4. /\ d.delay = c.delay /\ d.out = c.out /\ d.attached = c.attached /\ d.rcv_nxt = c.rcv_nxt /\ d.pend = <<>>
      /\ d.snd_nxt = c.snd_nxt /\ (c.err => d.err)
  BY ONLY Pcb(c), <1>2 DEF Pcb, Fields
<1>5. d.got = x /\ d.gotfin = c.gotfin /\ d.ooseq = c.ooseq /\ d.held = y /\ d.eof = z
  BY ONLY Pcb(c), <1>2 DEF Pcb, Fields
<1> QED BY <1>1, <1>3, <1>4, <1>5

LEMMA ToldOk ==
  ASSUME NEW g, NEW c, Env(g), Ok(g, c), c.state \in Active, c.attached, NEW d, d = Told(c)
  PROVE  Kept(g, c, d) /\ d.state = c.state /\ d.pend = <<>>
<1>1. Pcb(c) /\ Life(g, c) /\ Heard(g, c) /\ Snd(g, c)
  BY DEF Ok
<1>2. /\ Pcb(d) /\ SameSnd(c, d) /\ d.state = c.state /\ d.snd_nxt = c.snd_nxt /\ (c.err => d.err)
      /\ d.delay = c.delay /\ d.out = c.out /\ d.attached = c.attached /\ d.rcv_nxt = c.rcv_nxt
      /\ d.pend = <<>> /\ d.got = c.got \o c.pend /\ d.gotfin = c.gotfin /\ d.ooseq = c.ooseq
      /\ d.held = c.held + Len(c.pend) /\ d.eof = (c.eof \/ c.gotfin)
  BY <1>1, ToldIs
<1>3. Snd(g, d)
  BY <1>1, <1>2, SndSame
<1>4. Lim(g, d) = Lim(g, c) /\ Lim(g, c) \in Nat
  BY <1>2, OkFacts DEF Lim
<1>5. d.written = c.written /\ d.closing = c.closing
  BY <1>2 DEF SameSnd
<1>6. \A s \in d.out : Sends(g, d, s)
  BY <1>2, <1>4, <1>5 DEF Ok, Sends
<1>7. c.state # "SYN_RCVD"
  BY <1>1 DEF Life, Open
<1>8. CASE c.state = "SYN_SENT"
  <2>1. Starting(g, c)
    BY <1>1, <1>8 DEF Life
  <2>2. c.pend = <<>> /\ c.got = <<>> /\ ~c.gotfin /\ c.held = 0
    BY <2>1 DEF Starting
  <2>3. d.got = <<>> /\ d.held = 0 /\ (d.eof => c.eof)
    <3>1. <<>> \o <<>> = <<>> /\ Len(<<>>) = 0
      OBVIOUS
    <3>2. d.got = <<>> /\ d.held = 0
      BY <1>2, <2>2, <3>1
    <3>3. d.eof => c.eof
      BY <1>2, <2>2
    <3> QED BY <3>2, <3>3
  <2>4. Starting(g, d)
    BY <1>2, <2>1, <2>3 DEF Starting, SameSnd
  <2>5. Heard(g, d)
    BY <1>1, <2>2, <2>3 DEF Heard
  <2>6. Life(g, d)
    BY <1>1, <1>2, <1>5, <1>7, <1>8, <2>4 DEF Life
  <2>7. d.state \notin Synced
    BY <1>2, <1>8, StateSets
  <2> QED BY <1>2, <1>3, <1>4, <1>5, <1>6, <2>5, <2>6, <2>7 DEF Kept, Ok
<1>9. CASE c.state # "SYN_SENT"
  <2>1. c.state \in Synced /\ Rcv(g, c)
    BY <1>9 DEF Ok, Synced
  <2>2. PICK R, n, m : R = Pos(g.p, c.rcv_nxt) /\ n = Len(c.got) /\ m = Len(c.pend)
    OBVIOUS
  <2>3. /\ R \in Nat /\ R >= 1 /\ R <= g.w + 2 /\ n \in Nat /\ m \in Nat /\ n + m = Upto(g, R) /\ g.w \in Nat
        /\ c.got \in Seq(Nat) /\ c.pend \in Seq(Nat)
    <3>1. c.state # "CLOSED"
      BY StateSets
    <3>2. R \in Nat /\ R <= g.w + 2 /\ g.w \in Nat
      BY <1>1, <1>9, <2>2, <3>1, OkFacts, EnvFacts DEF Life
    <3>3. c.got \in Seq(Nat) /\ c.pend \in Seq(Nat) /\ R >= 1
      BY <1>1, <2>1, <2>2 DEF Rcv, Heard
    <3>4. n \in Nat /\ m \in Nat
      BY <2>2, <3>3
    <3>5. n + m = Upto(g, R)
      BY <2>1, <2>2 DEF Rcv
    <3> QED BY <3>2, <3>3, <3>4, <3>5
  <2>4. n + m <= g.w /\ (R = g.w + 2 => n + m = g.w)
    BY <2>3 DEF Upto
  <2>5. d.got \in Seq(Nat) /\ Len(d.got) = n + m
    BY <1>2, <2>2, <2>3
  <2>6. \A i \in 1 .. n + m : d.got[i] = i
    <3> TAKE i \in 1 .. n + m
    <3>1. CASE i <= n
      <4>1. i \in 1 .. n
        BY <2>3, <3>1
      <4>2. d.got[i] = c.got[i]
        BY <1>2, <2>2, <2>3, <4>1
      <4> QED BY <1>1, <2>2, <4>1, <4>2 DEF Heard
    <3>2. CASE i > n
      <4>1. i - n \in 1 .. m /\ n + (i - n) = i
        BY <2>3, <3>2
      <4>2. d.got[i] = c.pend[i - n]
        BY <1>2, <2>2, <2>3, <3>2, <4>1
      <4>3. c.pend[i - n] = n + (i - n)
        BY <2>1, <2>2, <4>1 DEF Rcv
      <4> QED BY <4>1, <4>2, <4>3
    <3> QED BY <2>3, <3>1, <3>2
  <2>7. d.eof => g.k /\ Len(d.got) = g.w
    <3> HAVE d.eof
    <3>1. CASE c.gotfin
      BY <2>1, <2>2, <2>4, <2>5, <3>1 DEF Rcv
    <3>2. CASE c.eof
      <4>1. g.k /\ n = g.w
        BY <1>1, <2>2, <3>2 DEF Heard
      <4>2. m = 0
        BY <2>3, <2>4, <4>1
      <4> QED BY <2>5, <2>3, <4>1, <4>2
    <3> QED BY <1>2, <3>1, <3>2
  <2>8. Heard(g, d)
    BY <2>4, <2>5, <2>6, <2>7 DEF Heard
  <2>9. Rcv(g, d)
    <3>1. Early(g, d, Pos(g.p, d.rcv_nxt))
      BY <1>2, <2>1 DEF Rcv, Early
    <3>2. d.pend \in Seq(Nat) /\ Len(d.pend) = 0
      BY <1>2
    <3>3. Len(d.got) + Len(d.pend) = Upto(g, Pos(g.p, d.rcv_nxt))
      <4>1. Pos(g.p, d.rcv_nxt) = R
        BY <1>2, <2>2
      <4>2. Len(d.got) = n + m /\ Len(d.pend) = 0 /\ n \in Nat /\ m \in Nat
        BY <2>3, <2>5, <3>2
      <4>3. Len(d.got) + Len(d.pend) = n + m
        BY ONLY <4>2
      <4> QED BY ONLY <2>3, <4>1, <4>3
    <3>4. \A i \in 1 .. Len(d.pend) : d.pend[i] = Len(d.got) + i
      BY <3>2
    <3> QED BY <1>2, <2>1, <3>1, <3>2, <3>3, <3>4 DEF Rcv
  <2>10. Life(g, d)
    BY <1>1, <1>2, <1>5, <1>7, <1>9 DEF Life
  <2> QED BY <1>2, <1>3, <1>4, <1>5, <1>6, <2>8, <2>9, <2>10 DEF Kept, Ok
<1> QED BY <1>8, <1>9

Input(g, c, d) == Kept(g, c, d) /\ d.pend = <<>>

LEMMA UpcallOk ==
  ASSUME NEW g, NEW c, Env(g), Ok(g, c), c.state = "CLOSED" => c.pend = <<>>, NEW d, d = Upcall(c)
  PROVE  Input(g, c, d)
<1>1. CASE c.state = "CLOSED"
  <2>1. d = c
    BY <1>1 DEF Upcall
  <2> QED BY <1>1, <2>1, KeptRefl DEF Input
<1>2. CASE c.state = "TIME_WAIT"
  <2>1. d = Dropped(c)
    BY <1>2 DEF Upcall, Dropped
  <2>2. Kept(g, c, d) /\ d.pend = <<>>
    BY <1>2, <2>1, DroppedOk
  <2> QED BY <2>2 DEF Input
<1>3. CASE c.state \notin {"CLOSED", "TIME_WAIT"}
  <2>1. c.state \in Active
    BY <1>3, OkFacts DEF Active
  <2>2. PICK b : b = IF c.attached THEN Told(c)
                     ELSE IF c.gotfin THEN TcpClose(Dropped(c)) ELSE Dropped(c)
    OBVIOUS
  <2>3. d = Output(b)
    BY <1>3, <2>2 DEF Upcall, Told, Dropped
  <2>4. Kept(g, c, b) /\ b.state = c.state /\ b.pend = <<>>
    <3>1. CASE c.attached
      BY <2>1, <2>2, <3>1, ToldOk
    <3>2. CASE ~c.attached
      <4>1. PICK f : f = Dropped(c)
        OBVIOUS
      <4>2. Kept(g, c, f) /\ f.state = c.state /\ f.pend = <<>> /\ f.attached = c.attached /\ f.gotfin = c.gotfin
        BY <3>2, <4>1, DroppedOk
      <4>3. CASE c.gotfin
        <5>1. c.state \notin Open
          <6>1. c.state \in Open => c.state = "SYN_RCVD"
            BY <3>2 DEF Ok, Life
          <6>2. c.state = "SYN_RCVD" => ~c.gotfin
            BY DEF Ok, Life, Accepting
          <6> QED BY <4>3, <6>1, <6>2
        <5>2. f.state \notin {"SYN_SENT", "SYN_RCVD", "ESTABLISHED", "CLOSE_WAIT"}
          BY <4>2, <5>1 DEF Open
        <5>3. ~CloseFails(f)
          BY <5>2 DEF CloseFails
        <5>4. TcpClose(f) = f
          BY <5>2, <5>3 DEF TcpClose
        <5> QED BY <2>2, <3>2, <4>1, <4>2, <4>3, <5>4
      <4>4. CASE ~c.gotfin
        BY <2>2, <3>2, <4>1, <4>2, <4>4
      <4> QED BY <4>3, <4>4
    <3> QED BY <3>1, <3>2
  <2>5. Ok(g, b) /\ b.state \in Active
    BY <2>1, <2>4 DEF Kept
  <2>6. Kept(g, b, d) /\ SameRcv(b, d)
    BY <2>3, <2>5, OutputOk
  <2>7. Kept(g, c, d)
    BY <2>4, <2>6, KeptTrans
  <2> QED BY <2>4, <2>6, <2>7 DEF Input, SameRcv
<1> QED BY <1>1, <1>2, <1>3

LEMMA TcpInputOk ==
  ASSUME NEW g, NEW c, Env(g), Ok(g, c), c.state # "CLOSED", c.pend = <<>>, NEW s,
         WireOK(g.p, g.Cp, g.w, g.k, g.lp, s), NEW takes, NEW d, d = TcpInput(c, s, takes)
  PROVE  Input(g, c, d)
<1>1. CASE s.rst /\ RstAcceptable(c, s)
  <2>1. PICK b : b = Errf(c)
    OBVIOUS
  <2>2. Kept(g, c, b) /\ (g.e = "server" \/ b.err \/ b.closing)
    BY <2>1, ErrfOk
  <2>3. Ok(g, b) /\ d = FreedPcb(b)
    BY <1>1, <2>1, <2>2 DEF TcpInput, Kept
  <2>4. Kept(g, b, d) /\ d.pend = <<>>
    BY <2>2, <2>3, FreedOk
  <2>5. Kept(g, c, d)
    BY <2>2, <2>4, KeptTrans
  <2> QED BY <2>4, <2>5 DEF Input
<1>2. CASE s.rst /\ ~RstAcceptable(c, s)
  <2>1. d = Upcall(c)
    BY <1>2 DEF TcpInput
  <2> QED BY <2>1, UpcallOk
<1>3. CASE ~s.rst
  <2>1. PICK b : b = TcpProcess(c, s, takes)
    OBVIOUS
  <2>2. Arrives(g, s) /\ d = Upcall(b)
    BY <1>3, <2>1 DEF Arrives, TcpInput
  <2>3. Handled(g, c, b)
    BY <2>1, <2>2, TcpProcessOk
  <2>4. Kept(g, c, b) /\ Ok(g, b) /\ (b.state = "CLOSED" => b.pend = <<>>)
    BY <2>3 DEF Handled, Kept
  <2>5. Input(g, b, d)
    BY <2>2, <2>4, UpcallOk
  <2>6. Kept(g, b, d) /\ d.pend = <<>>
    BY <2>5 DEF Input
  <2>7. Kept(g, c, d)
    BY <2>4, <2>6, KeptTrans
  <2> QED BY <2>6, <2>7 DEF Input
<1> QED BY <1>1, <1>2, <1>3

-----------------------------------------------------------------------------
(* How what an end has written may grow: no segment is begun within one that *)
(* was sent.                                                                 *)
Growth(C, w, k, D, v, l) ==
  /\ C \subseteq D /\ w <= v /\ (k => l /\ v = w /\ D = C)
  /\ C = {} \/ \A a \in D \ C : a >= w + 1

LEMMA GrowthRefl ==
  ASSUME NEW C, NEW w \in Nat, NEW k
  PROVE  Growth(C, w, k, C, w, k)
BY DEF Growth

LEMMA SegLater ==
  ASSUME NEW e, NEW C, NEW w, NEW k, NEW D, NEW v, NEW l, Writes(e, C, w, k), Writes(e, D, v, l),
         Growth(C, w, k, D, v, l), NEW x, SegOK(e, C, w, k, x)
  PROVE  SegOK(e, D, v, l, x)
<1>1. C # {}
  BY DEF SegOK
<1>2. \A a \in D \ C : a >= EndPos(e, x)
  <2> TAKE a \in D \ C
  <2>1. a \in Nat /\ a >= w + 1 /\ w \in Nat
    BY <1>1, WritesFit DEF Growth
  <2>2. ~x.fin
    BY DEF SegOK, Growth
  <2>3. EndPos(e, x) <= w + 1 /\ EndPos(e, x) \in Nat
    BY <2>2, SegFacts
  <2> QED BY <2>1, <2>3
<1>3. C \subseteq D /\ w <= v /\ (k => l /\ v = w)
  BY DEF Growth
<1> QED BY <1>2, <1>3, SegGrows

LEMMA QueueLater ==
  ASSUME NEW e, NEW C, NEW w, NEW k, NEW D, NEW v, NEW l, Writes(e, C, w, k), Writes(e, D, v, l),
         Growth(C, w, k, D, v, l), NEW q, NEW lo, NEW hi, Queue(e, C, w, k, q, lo, hi)
  PROVE  Queue(e, D, v, l, q, lo, hi)
<1>1. \A i \in 1 .. Len(q) : SegOK(e, D, v, l, q[i])
  BY SegLater DEF Queue
<1> QED BY <1>1 DEF Queue

LEMMA WireGrows ==
  ASSUME NEW e, NEW C, NEW w, NEW k, NEW D, NEW v, NEW l, Writes(e, C, w, k), Writes(e, D, v, l),
         Growth(C, w, k, D, v, l), NEW a \in Nat, NEW b \in Nat, a <= b, NEW s, WireOK(e, C, w, k, a, s)
  PROVE  WireOK(e, D, v, l, b, s)
<1>1. Pos(Peer(e), s.ackno) \in Nat /\ Pos(e, s.seq) \in Nat /\ w \in Nat /\ v \in Nat /\ w <= v
  BY PosType, PeerIs, WritesFit DEF WireOK, Growth
<1>2. SegOK(e, C, w, k, s) => SegOK(e, D, v, l, s)
  BY SegLater
<1>3. Pos(e, s.seq) <= w + 2 => Pos(e, s.seq) <= v + 2
  BY <1>1
<1>4. Pos(Peer(e), s.ackno) <= a => Pos(Peer(e), s.ackno) <= b
  BY <1>1
<1> QED BY <1>2, <1>3, <1>4 DEF WireOK

-----------------------------------------------------------------------------
(* What the peer writes, closes and acknowledges leaves this end in order. *)
PeerGrew(g, h) ==
  /\ h.e = g.e /\ h.p = g.p /\ h.C = g.C /\ Growth(g.Cp, g.w, g.k, h.Cp, h.w, h.k) /\ g.lp <= h.lp

LEMMA LimGrows ==
  ASSUME NEW g, NEW h, NEW c, h.p = g.p, g.w \in Nat, h.w \in Nat, g.w <= h.w, Lim(g, c) \in Nat
  PROVE  Lim(g, c) <= Lim(h, c) /\ Lim(h, c) \in Nat
BY DEF Lim

LEMMA PeerGrows ==
  ASSUME NEW g, NEW h, NEW c, Env(g), Env(h), Ok(g, c), PeerGrew(g, h), h.lp <= c.written + 2
  PROVE  Ok(h, c) /\ Lim(g, c) <= Lim(h, c)
<1>1. /\ h.e = g.e /\ h.p = g.p /\ h.C = g.C /\ g.lp <= h.lp /\ g.w <= h.w
      /\ (g.k => h.k /\ h.w = g.w /\ h.Cp = g.Cp)
  BY DEF PeerGrew, Growth
<1>2. /\ g.w \in Nat /\ h.w \in Nat /\ g.lp \in Nat /\ h.lp \in Nat /\ Writes(g.p, g.Cp, g.w, g.k)
      /\ Writes(g.p, h.Cp, h.w, h.k)
  BY <1>1, EnvFacts
<1>3. Lim(g, c) <= Lim(h, c) /\ Lim(h, c) \in Nat /\ Lim(g, c) \in Nat
  BY <1>1, <1>2, OkFacts, LimGrows
<1>4. ASSUME NEW x, SegOK(g.p, g.Cp, g.w, g.k, x)
      PROVE  SegOK(h.p, h.Cp, h.w, h.k, x)
  BY <1>1, <1>2, <1>4, SegLater DEF PeerGrew
<1>5. \A s \in c.out : Sends(h, c, s)
  <2> TAKE s \in c.out
  <2>1. WireOK(g.e, g.C, c.written, c.closing, Lim(g, c), s) /\ g.e \in Ends
    BY EnvFacts DEF Ok, Sends
  <2>2. WireOK(g.e, g.C, c.written, c.closing, Lim(h, c), s)
    BY <1>3, <2>1, WireLater
  <2> QED BY <1>1, <2>2 DEF Sends
<1>6. Heard(h, c)
  <2>1. Heard(g, c)
    BY DEF Ok
  <2>2. Len(c.got) \in Nat
    BY <2>1 DEF Heard
  <2> QED BY <1>1, <1>2, <2>1, <2>2 DEF Heard
<1>7. c.state \in Active => Snd(h, c)
  <2> HAVE c.state \in Active
  <2>1. Snd(g, c) /\ Pos(g.e, c.lastack) \in Nat
    BY SndFacts DEF Ok
  <2>2. Pos(g.e, c.lastack) <= h.lp
    BY <1>1, <1>2, <2>1 DEF Snd
  <2>3. Used(h, c) = Used(g, c)
    BY <1>1 DEF Used
  <2> QED BY <1>1, <2>1, <2>2, <2>3 DEF Snd
<1>8. c.state \notin {"CLOSED", "SYN_SENT"} => Pos(h.p, c.rcv_nxt) <= h.w + 2
  <2> HAVE c.state \notin {"CLOSED", "SYN_SENT"}
  <2>1. Pos(g.p, c.rcv_nxt) <= g.w + 2 /\ Pos(g.p, c.rcv_nxt) \in Nat
    BY OkFacts DEF Ok, Life
  <2> QED BY <1>1, <1>2, <2>1
<1>9. Life(h, c)
  <2>1. Life(g, c)
    BY DEF Ok
  <2>2. c.state = "SYN_SENT" => Starting(h, c)
    BY <1>1, <2>1 DEF Life, Starting
  <2>3. c.state = "SYN_RCVD" => Accepting(h, c)
    BY <1>1, <2>1 DEF Life, Accepting
  <2> QED BY <1>1, <1>8, <2>1, <2>2, <2>3 DEF Life
<1>10. c.state \in Synced => Rcv(h, c)
  <2> HAVE c.state \in Synced
  <2>1. Rcv(g, c) /\ c.state \notin {"CLOSED", "SYN_SENT"}
    BY StateSets DEF Ok
  <2>2. PICK R : R = Pos(g.p, c.rcv_nxt)
    OBVIOUS
  <2>3. R \in Nat /\ R <= g.w + 2 /\ (R = g.w + 2 => g.k)
    BY <2>1, <2>2, OkFacts DEF Ok, Life, Rcv
  <2>4. R = h.w + 2 => h.k /\ R = g.w + 2
    BY ONLY <1>1, <1>2, <2>3
  <2>5. R = g.w + 2 => R = h.w + 2
    BY ONLY <1>1, <1>2, <2>3
  <2>6. Upto(h, R) = Upto(g, R)
    <3>1. CASE R = g.w + 2
      <4>1. h.w = g.w
        BY <1>1, <2>3, <3>1
      <4> QED BY <4>1 DEF Upto
    <3>2. CASE R # g.w + 2
      BY <2>4, <3>2 DEF Upto
    <3> QED BY <3>1, <3>2
  <2>7. Early(h, c, R)
    <3>1. Early(g, c, R)
      BY <2>1, <2>2 DEF Rcv
    <3> QED BY <1>1, <1>4, <3>1 DEF Early
  <2> QED BY <1>1, <2>1, <2>2, <2>4, <2>5, <2>6, <2>7 DEF Rcv
<1> QED BY <1>3, <1>5, <1>6, <1>7, <1>9, <1>10 DEF Ok

-----------------------------------------------------------------------------
(* tcp_enqueue *)
With(g, D) == [e |-> g.e, p |-> g.p, C |-> D, Cp |-> g.Cp, w |-> g.w, k |-> g.k, lp |-> g.lp]

LEMMA WithIs ==
  ASSUME NEW g, NEW D, NEW h, h = With(g, D)
  PROVE  h.e = g.e /\ h.p = g.p /\ h.C = D /\ h.Cp = g.Cp /\ h.w = g.w /\ h.k = g.k /\ h.lp = g.lp
BY DEF With

LEMMA WithEnv ==
  ASSUME NEW g, Env(g), NEW D \in SUBSET Nat, NEW h, h = With(g, D)
  PROVE  Env(h)
<1>1. h.e = g.e /\ h.p = g.p /\ h.C = D /\ h.Cp = g.Cp /\ h.w = g.w /\ h.k = g.k /\ h.lp = g.lp
  BY WithIs
<1> QED BY <1>1 DEF Env

LEMMA AppendSends ==
  ASSUME NEW e, NEW C, NEW w, NEW k, NEW D, NEW v, NEW l, Writes(e, C, w, k), Writes(e, D, v, l),
         Growth(C, w, k, D, v, l), NEW a, NEW u, NEW la \in Nat, NEW lb \in Nat, la <= lb,
         Sending(e, C, w, k, a, u, la, lb),
         NEW x \in Segs, SegOK(e, D, v, l, x), x.n = 1, Pos(e, x.seq) = lb
  PROVE  /\ Sending(e, D, v, l, a, Append(u, x), la, EndPos(e, x))
         /\ QueueLen(Append(u, x)) = QueueLen(u) + 1 /\ QueueLen(u) \in Nat
<1>1. PICK lo, mid \in Nat : /\ Queue(e, C, w, k, a, lo, mid) /\ Queue(e, C, w, k, u, mid, lb) /\ lo <= la
                             /\ \A i \in 1 .. Len(a) : la < EndPos(e, a[i])
                             /\ \A i \in 1 .. Len(u) : la < EndPos(e, u[i])
  BY DEF Sending
<1>2. Queue(e, D, v, l, a, lo, mid) /\ Queue(e, D, v, l, u, mid, lb)
  BY <1>1, QueueLater
<1>3. PICK E : E = EndPos(e, x)
  OBVIOUS
<1>4. Queue(e, D, v, l, <<x>>, lb, E)
  BY <1>3, QueueOne
<1>5. E \in Nat /\ E > lb
  BY <1>3, SegFacts
<1>6. PICK z : z = u \o <<x>>
  OBVIOUS
<1>7. Queue(e, D, v, l, z, mid, E) /\ QueueLen(z) = QueueLen(u) + QueueLen(<<x>>)
  BY <1>2, <1>4, <1>6, QueueJoin
<1>8. u \in Seq(Segs) /\ Len(u) \in Nat
  BY <1>2 DEF Queue
<1>9. Append(u, x) = z /\ Len(z) = Len(u) + 1 /\ z[Len(u) + 1] = x /\ \A i \in 1 .. Len(u) : z[i] = u[i]
  BY ONLY <1>6, <1>8, x \in Segs
<1>10. \A i \in 1 .. Len(z) : la < EndPos(e, z[i])
  <2> TAKE i \in 1 .. Len(z)
  <2>1. CASE i \in 1 .. Len(u)
    BY <1>1, <1>9, <2>1
  <2>2. CASE i = Len(u) + 1
    BY <1>3, <1>5, <1>9, <2>2
  <2> QED BY <1>8, <1>9, <2>1, <2>2
<1>11. Sending(e, D, v, l, a, z, la, E)
  BY <1>1, <1>2, <1>7, <1>10 DEF Sending
<1>12. QueueLen(<<x>>) = 1 /\ QueueLen(u) \in Nat
  BY <1>8, QueueLenOne, QueueLenNat DEF Counted
<1> QED BY <1>3, <1>7, <1>9, <1>11, <1>12

(* The last segment of a queue ends where the queue ends. *)
LEMMA LastEnds ==
  ASSUME NEW e, NEW C, NEW w, NEW k, Writes(e, C, w, k), NEW q, NEW lo, NEW hi, Queue(e, C, w, k, q, lo, hi),
         q # <<>>, NEW r, r = Len(q)
  PROVE  r \in 1 .. Len(q) /\ SegOK(e, C, w, k, q[r]) /\ EndPos(e, q[r]) = hi /\ q \in Seq(Segs)
         /\ lo <= Pos(e, q[r].seq) /\ r \in Nat /\ q[r] \in Segs
<1>1. q \in Seq(Segs) /\ r \in Nat /\ r >= 1 /\ r \in 1 .. Len(q) /\ lo \in Nat /\ hi \in Nat
  BY DEF Queue
<1>2. SegOK(e, C, w, k, q[r]) /\ lo <= Pos(e, q[r].seq) /\ EndPos(e, q[r]) <= hi
  BY <1>1 DEF Queue
<1>3. Pos(e, q[r].seq) \in Nat /\ EndPos(e, q[r]) \in Nat /\ EndPos(e, q[r]) > Pos(e, q[r].seq)
  BY <1>2, SegFacts
<1>4. hi - 1 \in lo .. hi - 1
  BY <1>1, <1>2, <1>3
<1>5. PICK i \in 1 .. Len(q) : Pos(e, q[i].seq) <= hi - 1 /\ hi - 1 < EndPos(e, q[i])
  BY <1>4 DEF Queue
<1>6. EndPos(e, q[i]) \in Nat
  BY <1>5, SegFacts DEF Queue
<1>7. CASE i = r
  BY <1>1, <1>2, <1>3, <1>5, <1>7
<1>8. CASE i # r
  <2>1. i < r
    BY <1>1, <1>8
  <2>2. EndPos(e, q[i]) <= Pos(e, q[r].seq)
    BY <1>1, <2>1 DEF Queue
  <2> QED BY <1>1, <1>2, <1>3, <1>5, <1>6, <2>2
<1> QED BY <1>1, <1>2, <1>7, <1>8

(* Data joins the last segment. *)
JoinedTo(x, data) == [x EXCEPT !.data = x.data \o data, !.n = x.n + 1]
Replaced(q, r, y) == [q EXCEPT ![r] = y]
(* data is what is written after the first w bytes, up to v. *)
Writing(e, C, w, v, k, data) ==
  /\ ~k /\ Writes(e, C, w, k) /\ Writes(e, C, v, k) /\ (\A a \in C : a < w + 1)
  /\ data \in Seq(Nat) /\ v = w + Len(data) /\ \A i \in 1 .. Len(data) : data[i] = w + i

JoinedOk(e, C, v, k, x, y) ==
  /\ y \in Segs /\ SegOK(e, C, v, k, y) /\ Pos(e, y.seq) = Pos(e, x.seq) /\ EndPos(e, y) = v + 1
  /\ y.n = x.n + 1 /\ ~y.syn /\ y.ack = x.ack
(* x may be joined. *)
JoinsTo(e, C, w, k, x) ==
  x \in Segs /\ SegOK(e, C, w, k, x) /\ EndPos(e, x) = w + 1 /\ ~x.syn /\ ~x.fin

LEMMA JoinedSeg ==
  ASSUME NEW e, NEW C, NEW w, NEW v, NEW k, NEW data, Writing(e, C, w, v, k, data), NEW x, JoinsTo(e, C, w, k, x),
         NEW y, y = JoinedTo(x, data)
  PROVE  JoinedOk(e, C, v, k, x, y)
<1>0. /\ ~k /\ Writes(e, C, w, k) /\ Writes(e, C, v, k) /\ (\A a \in C : a < w + 1)
      /\ data \in Seq(Nat) /\ v = w + Len(data) /\ \A i \in 1 .. Len(data) : data[i] = w + i
      /\ x \in Segs /\ SegOK(e, C, w, k, x) /\ EndPos(e, x) = w + 1 /\ ~x.syn /\ ~x.fin
  BY DEF Writing, JoinsTo
<1> USE <1>0
<1>1. PICK z, P, n, m : z = x.data \o data /\ P = Pos(e, x.seq) /\ n = Len(x.data) /\ m = Len(data)
  OBVIOUS
<1>2. y.seq = x.seq /\ y.data = z /\ y.syn = x.syn /\ y.fin = x.fin /\ y.n = x.n + 1 /\ y.ack = x.ack
  BY <1>1 DEF Segs, JoinedTo
<1>3. /\ x.seq \in Seqs /\ x.data \in Seq(Nat) /\ x.syn = FALSE /\ x.fin = FALSE /\ P >= 1 /\ x.data # <<>>
      /\ \A i \in 1 .. n : x.data[i] = P - 1 + i
      /\ P \in C /\ \A a \in C : a <= P \/ a >= EndPos(e, x)
  BY <1>1 DEF SegOK
<1>4. /\ P \in Nat /\ n \in Nat /\ TcpLen(x) = n /\ P + n = w + 1 /\ w \in Nat /\ v \in Nat /\ m \in Nat
  <2>1. P \in Nat /\ n \in Nat /\ TcpLen(x) = n
    BY <1>1, <1>3, SegFacts
  <2>20. EndPos(e, x) = P + TcpLen(x)
    BY <1>1 DEF EndPos
  <2>2. P + n = w + 1
    BY <2>1, <2>20
  <2> QED BY <1>1, <2>1, <2>2, WritesFit
<1>5. /\ z \in Seq(Nat) /\ Len(z) = n + m /\ (\A i \in 1 .. n : z[i] = x.data[i])
      /\ \A i \in 1 .. m : z[n + i] = data[i]
  BY ONLY <1>0, <1>1, <1>3
<1>6. z # <<>>
  <2>1. n # 0
    BY <1>1, <1>3
  <2>2. Len(z) # 0
    BY <1>4, <1>5, <2>1
  <2> QED BY ONLY <2>2
<1>7. ASSUME NEW i \in 1 .. n + m PROVE z[i] = P - 1 + i
  <2>1. CASE i \in 1 .. n
    BY <1>3, <1>5, <2>1
  <2>2. CASE i \notin 1 .. n
    <3>1. i - n \in 1 .. m /\ n + (i - n) = i
      BY <1>4, <2>2
    <3>2. z[n + (i - n)] = data[i - n] /\ data[i - n] = w + (i - n)
      BY <1>1, <1>5, <3>1
    <3>3. w + (i - n) = P - 1 + i
      BY <1>4
    <3> QED BY <3>1, <3>2, <3>3
  <2> QED BY <2>1, <2>2
<1>8. TcpLen(y) = n + m
  BY <1>2, <1>3, <1>5, TcpLenIs
<1>9. EndPos(e, y) = v + 1
  <2>1. EndPos(e, y) = P + (n + m)
    BY <1>1, <1>2, <1>8 DEF EndPos
  <2>2. v = w + m
    BY <1>1
  <2> QED BY ONLY <1>4, <2>1, <2>2
<1>10. \A a \in C : a <= P
  <2> TAKE a \in C
  <2>1. a < w + 1 /\ (a <= P \/ a >= w + 1) /\ a \in Nat
    BY <1>3, WritesFit
  <2> QED BY <1>4, <2>1
<1>11. y \in Segs
  <2>1. x.n \in Nat /\ x.n + 1 \in Nat
    BY DEF Segs
  <2> QED BY <1>1, <1>5, <2>1 DEF Segs, JoinedTo
<1>12. SegOK(e, C, v, k, y)
  <2>1. P + (n + m) <= v + 1
    BY <1>1, <1>4
  <2>2. \A i \in 1 .. Len(y.data) : y.data[i] = Pos(e, y.seq) - 1 + i
    BY <1>1, <1>2, <1>5, <1>7
  <2>3. Pos(e, y.seq) + Len(y.data) <= v + 1
    BY <1>1, <1>2, <1>5, <2>1
  <2> QED BY <1>1, <1>2, <1>3, <1>5, <1>6, <1>10, <2>2, <2>3 DEF SegOK
<1> QED BY <1>1, <1>2, <1>3, <1>9, <1>11, <1>12 DEF JoinedOk

LEMMA JoinSends ==
  ASSUME NEW e, NEW C, NEW w, NEW v, NEW k, ~k, Writes(e, C, w, k), Writes(e, C, v, k), w <= v,
         NEW a, NEW u, NEW la \in Nat, la <= w + 1, Sending(e, C, w, k, a, u, la, w + 1), u # <<>>,
         NEW r, r = Len(u), ~u[r].syn, ~u[r].fin, NEW data, Writing(e, C, w, v, k, data),
         NEW y, y = JoinedTo(u[r], data),
         NEW z, z = Replaced(u, r, y)
  PROVE  /\ Sending(e, C, v, k, a, z, la, v + 1) /\ QueueLen(z) = QueueLen(u) + 1 /\ QueueLen(u) \in Nat
         /\ Len(z) = Len(u) /\ r \in 1 .. Len(u) /\ z[r].ack = u[r].ack /\ \A i \in 1 .. Len(u) : i # r => z[i] = u[i]
<1>1. PICK lo, mid \in Nat : /\ Queue(e, C, w, k, a, lo, mid) /\ Queue(e, C, w, k, u, mid, w + 1)
                             /\ lo <= la
                             /\ \A i \in 1 .. Len(a) : la < EndPos(e, a[i])
                             /\ \A i \in 1 .. Len(u) : la < EndPos(e, u[i])
  BY DEF Sending
<1>2. Growth(C, w, k, C, v, k)
  BY DEF Growth
<1>3. /\ r \in 1 .. Len(u) /\ SegOK(e, C, w, k, u[r]) /\ EndPos(e, u[r]) = w + 1 /\ u \in Seq(Segs)
      /\ mid <= Pos(e, u[r].seq) /\ r \in Nat /\ u[r] \in Segs
  BY <1>1, LastEnds
<1>4. /\ y \in Segs /\ SegOK(e, C, v, k, y) /\ Pos(e, y.seq) = Pos(e, u[r].seq) /\ EndPos(e, y) = v + 1
      /\ y.n = u[r].n + 1 /\ ~y.syn /\ y.ack = u[r].ack
  <2>1. PICK x : x = u[r]
    OBVIOUS
  <2>2. JoinsTo(e, C, w, k, x) /\ y = JoinedTo(x, data)
    BY <1>3, <2>1 DEF JoinsTo
  <2>3. JoinedOk(e, C, v, k, x, y)
    BY <2>2, JoinedSeg
  <2> QED BY <2>1, <2>3 DEF JoinedOk
<1>5. PICK f, t : f = SubSeq(u, 1, r - 1) /\ t = Tail1(u, r - 1)
  OBVIOUS
<1>6. r - 1 \in 0 .. Len(u)
  BY <1>3
<1>7. PICK m \in Nat : Queue(e, C, w, k, f, mid, m) /\ Queue(e, C, w, k, t, m, w + 1)
                       /\ QueueLen(u) = QueueLen(f) + QueueLen(t)
  BY <1>1, <1>5, <1>6, QueueSplit
<1>8. f \in Seq(Segs) /\ Len(f) = r - 1 /\ t \in Seq(Segs) /\ Len(t) = 1
      /\ (\A i \in 1 .. r - 1 : f[i] = u[i]) /\ t[1] = u[r]
  <2>1. /\ f \in Seq(Segs) /\ Len(f) = r - 1 /\ t \in Seq(Segs) /\ Len(t) = Len(u) - (r - 1)
        /\ (\A i \in 1 .. r - 1 : f[i] = u[i])
        /\ \A i \in 1 .. Len(u) - (r - 1) : t[i] = u[(r - 1) + i]
    BY ONLY <1>3, <1>5, <1>6, SplitIs
  <2>2. Len(u) - (r - 1) = 1 /\ (r - 1) + 1 = r /\ 1 \in 1 .. 1
    BY <1>3
  <2> QED BY ONLY <2>1, <2>2
<1>9. t = <<u[r]>>
  BY ONLY <1>8
<1>10. QueueLen(t) = u[r].n /\ QueueLen(f) \in Nat /\ u[r].n \in Nat
  <2>1. u[r].n \in Nat
    BY <1>3 DEF Segs
  <2> QED BY <1>3, <1>8, <1>9, <2>1, QueueLenOne, QueueLenNat DEF Counted
<1>11. PICK P, E : P = Pos(e, y.seq) /\ E = EndPos(e, y)
  OBVIOUS
<1>12. Queue(e, C, v, k, <<y>>, P, E)
  BY <1>4, <1>11, QueueOne
<1>13. P = m
  <2>1. m <= P /\ P \in Nat /\ P < w + 1
    <3>1. m <= Pos(e, t[1].seq)
      BY <1>7, <1>8 DEF Queue
    <3>2. Pos(e, u[r].seq) \in Nat /\ Pos(e, u[r].seq) < EndPos(e, u[r])
      BY <1>3, SegFacts
    <3> QED BY <1>3, <1>4, <1>8, <1>11, <3>1, <3>2
  <2>2. m < P => FALSE
    <3> HAVE m < P
    <3>1. m \in m .. (w + 1) - 1 /\ w \in Nat
      BY <2>1, WritesFit
    <3>2. PICK i \in 1 .. Len(t) : Pos(e, t[i].seq) <= m /\ m < EndPos(e, t[i])
      BY <1>7, <3>1 DEF Queue
    <3>3. i = 1
      BY <1>8, <3>2
    <3> QED BY <1>4, <1>8, <1>11, <2>1, <3>2, <3>3
  <2> QED BY <2>1, <2>2
<1>14. Queue(e, C, v, k, f, mid, m) /\ Queue(e, C, v, k, a, lo, mid)
  BY <1>1, <1>2, <1>7, QueueLater
<1>15. PICK j : j = f \o <<y>>
  OBVIOUS
<1>16. Queue(e, C, v, k, j, mid, v + 1) /\ QueueLen(j) = QueueLen(f) + QueueLen(<<y>>)
  <2>1. Queue(e, C, v, k, <<y>>, m, v + 1)
    BY <1>4, <1>11, <1>12, <1>13
  <2> QED BY <1>14, <1>15, <2>1, QueueJoin
<1>17. z = j
  <2>1. j \in Seq(Segs) /\ Len(j) = r /\ (\A i \in 1 .. r - 1 : j[i] = f[i]) /\ j[r] = y
    BY ONLY <1>3, <1>4, <1>8, <1>15
  <2>2. z \in Seq(Segs) /\ Len(z) = r /\ z[r] = y /\ \A i \in 1 .. Len(u) : i # r => z[i] = u[i]
    BY <1>3, <1>4 DEF Replaced
  <2>3. \A i \in 1 .. r : z[i] = j[i]
    <3> TAKE i \in 1 .. r
    <3>1. CASE i = r
      BY <2>1, <2>2, <3>1
    <3>2. CASE i # r
      <4>1. i \in 1 .. r - 1 /\ i \in 1 .. Len(u)
        BY <1>3, <3>2
      <4> QED BY <1>8, <2>1, <2>2, <3>2, <4>1
    <3> QED BY <3>1, <3>2
  <2> QED BY ONLY <2>1, <2>2, <2>3, SeqEqual
<1>18. \A i \in 1 .. Len(z) : la < EndPos(e, z[i])
  <2> TAKE i \in 1 .. Len(z)
  <2>1. Len(z) = Len(u) /\ z[r] = y /\ \A n \in 1 .. Len(u) : n # r => z[n] = u[n]
    BY <1>3 DEF Replaced
  <2>2. CASE i = r
    <3>1. w \in Nat /\ v \in Nat
      BY WritesFit
    <3>2. la < w + 1
      BY <1>1, <1>3
    <3>3. la < v + 1
      BY <3>1, <3>2
    <3> QED BY <1>4, <2>1, <2>2, <3>3
  <2>3. CASE i # r
    BY <1>1, <2>1, <2>3
  <2> QED BY <2>2, <2>3
<1>19. Sending(e, C, v, k, a, z, la, v + 1)
  <2>1. Queue(e, C, v, k, z, mid, v + 1) /\ Queue(e, C, v, k, a, lo, mid)
    BY <1>14, <1>16, <1>17
  <2> QED BY <1>1, <1>18, <2>1 DEF Sending
<1>20. QueueLen(z) = QueueLen(u) + 1 /\ QueueLen(u) \in Nat
  <2>1. QueueLen(<<y>>) = u[r].n + 1
    BY <1>4, QueueLenOne
  <2> QED BY <1>7, <1>10, <1>16, <1>17, <2>1
<1>21. Len(z) = Len(u) /\ z[r].ack = u[r].ack /\ \A i \in 1 .. Len(u) : i # r => z[i] = u[i]
  BY <1>3, <1>4 DEF Replaced
<1> QED BY <1>3, <1>19, <1>20, <1>21

-----------------------------------------------------------------------------
NewSeg(c, data, syn, fin, ack) ==
  [seq |-> c.snd_lbb, data |-> data, syn |-> syn, fin |-> fin, ack |-> ack, n |-> 1]
(* What tcp_enqueue changes *)
Enqueues(c, u, lb, sb, ql) == [c EXCEPT !.unsent = u, !.snd_lbb = lb, !.snd_buf = sb, !.qlen = ql]
(* Where it puts the data *)
Placed(c, data, syn, fin, x, u) ==
  \/ u = Append(c.unsent, x)
  \/ /\ c.unsent # <<>> /\ ~syn /\ ~fin /\ ~c.unsent[Len(c.unsent)].syn /\ ~c.unsent[Len(c.unsent)].fin
     /\ u = Replaced(c.unsent, Len(c.unsent), JoinedTo(c.unsent[Len(c.unsent)], data))

LEMMA EnqueueIs ==
  ASSUME NEW c, Pcb(c), c.unsent \in Seq(Segs), NEW data, NEW syn, NEW fin, NEW ack,
         NEW d, d = TcpEnqueue(c, data, syn, fin, ack), NEW x, x = NewSeg(c, data, syn, fin, ack)
  PROVE  \E u : /\ Placed(c, data, syn, fin, x, u)
                /\ d = Enqueues(c, u, Plus(c.snd_lbb, TcpLen(x)), (c.snd_buf - TcpLen(x)) % BufMod, c.qlen + 1)
<1>0. PICK r : r = Len(c.unsent)
  OBVIOUS
<1>1. PICK joins : joins <=> (/\ r > 0 /\ ~syn /\ ~fin
                              /\ ~c.unsent[r].syn /\ ~c.unsent[r].fin
                              /\ Len(c.unsent[r].data) + Len(data) <= TcpMss)
  OBVIOUS
<1>2. PICK u : u = IF joins THEN [c.unsent EXCEPT ![r] = [c.unsent[r] EXCEPT !.data = @ \o data, !.n = @ + 1]] ELSE Append(c.unsent, x)
  OBVIOUS
<1>3. d = [c EXCEPT !.unsent = u, !.snd_lbb = Plus(@, TcpLen(x)), !.snd_buf = (@ - TcpLen(x)) % BufMod, !.qlen = @ + 1]
  <2>1. CASE joins
    <3>1. u = [c.unsent EXCEPT ![r] = [c.unsent[r] EXCEPT !.data = @ \o data, !.n = @ + 1]]
      BY <1>2, <2>1
    <3> QED BY <1>0, <1>1, <2>1, <3>1 DEF TcpEnqueue, NewSeg
  <2>2. CASE ~joins
    <3>1. u = Append(c.unsent, x)
      BY <1>2, <2>2
    <3> QED BY <1>0, <1>1, <2>2, <3>1 DEF TcpEnqueue, NewSeg
  <2> QED BY <2>1, <2>2
<1>4. d = Enqueues(c, u, Plus(c.snd_lbb, TcpLen(x)), (c.snd_buf - TcpLen(x)) % BufMod, c.qlen + 1)
  BY <1>3 DEF Enqueues, Pcb, Fields
<1>5. Placed(c, data, syn, fin, x, u)
  <2>1. CASE joins
    <3>1. r \in 1 .. Len(c.unsent) /\ c.unsent # <<>> /\ ~syn /\ ~fin /\ ~c.unsent[r].syn /\ ~c.unsent[r].fin
      <4>1. r > 0 /\ ~syn /\ ~fin /\ ~c.unsent[r].syn /\ ~c.unsent[r].fin
        BY <1>1, <2>1
      <4>2. Len(c.unsent) \in Nat
        OBVIOUS
      <4>3. r \in 1 .. Len(c.unsent) /\ c.unsent # <<>>
        BY ONLY <1>0, <4>1, <4>2
      <4> QED BY <4>1, <4>3
    <3>2. u = [c.unsent EXCEPT ![r] = [c.unsent[r] EXCEPT !.data = @ \o data, !.n = @ + 1]]
      BY <1>2, <2>1
    <3>3. u = Replaced(c.unsent, r, JoinedTo(c.unsent[r], data))
      <4>1. c.unsent[r] \in Segs
        BY <3>1
      <4>2. PICK y : y = [c.unsent[r] EXCEPT !.data = @ \o data, !.n = @ + 1]
        OBVIOUS
      <4>3. y = JoinedTo(c.unsent[r], data)
        BY <4>1, <4>2 DEF JoinedTo, Segs
      <4> QED BY <3>2, <4>2, <4>3 DEF Replaced
    <3> QED BY <1>0, <3>1, <3>3 DEF Placed
  <2>2. CASE ~joins
    BY <1>2, <2>2 DEF Placed
  <2> QED BY <2>1, <2>2
<1> QED BY <1>4, <1>5

(* The fields that neither a write nor a close changes *)
Rest(c, q) ==
  /\ q.rcv_nxt = c.rcv_nxt /\ q.pend = c.pend /\ q.gotfin = c.gotfin /\ q.ooseq = c.ooseq
  /\ q.got = c.got /\ q.eof = c.eof /\ (c.err => q.err)
  /\ q.lastack = c.lastack /\ q.snd_max = c.snd_max /\ q.unacked = c.unacked
  /\ q.snd_nxt = c.snd_nxt /\ q.delay = c.delay /\ q.out = c.out

(* n more places of the stream are queued. *)
Enlarged(g, c, D, q, n) ==
  /\ D \in SUBSET Nat /\ Growth(g.C, c.written, c.closing, D, q.written, q.closing)
  /\ Writes(g.e, D, q.written, q.closing)
  /\ n \in Nat /\ q.snd_lbb \in Seqs /\ Pos(g.e, q.snd_lbb) = Pos(g.e, c.snd_lbb) + n
  /\ Pos(g.e, q.snd_lbb) = q.written + IF q.state \in Open THEN 1 ELSE 2
  /\ \A a \in D : a < Pos(g.e, q.snd_lbb)
  /\ q.qlen = c.qlen + 1 /\ QueueLen(q.unsent) = QueueLen(c.unsent) + 1
  /\ q.snd_buf = (c.snd_buf - n) % BufMod
  /\ (q.state = "SYN_SENT" <=> c.state = "SYN_SENT")
  /\ Sending(g.e, D, q.written, q.closing, q.unacked, q.unsent, Pos(g.e, c.lastack), Pos(g.e, q.snd_lbb))
  /\ Pcb(q) /\ Rest(c, q)

LEMMA EnlargedSnd ==
  ASSUME NEW g, NEW c, Env(g), Ok(g, c), c.state \in Open, NEW D, NEW q, NEW n, Enlarged(g, c, D, q, n),
         NEW h, h = With(g, D)
  PROVE  Snd(h, q)
<1>1. h.e = g.e /\ h.p = g.p /\ h.C = D /\ h.Cp = g.Cp /\ h.w = g.w /\ h.k = g.k /\ h.lp = g.lp
  BY WithIs
<1>2. Snd(g, c) /\ c.state \in Active
  BY StateSets DEF Ok
<1>3. Pos(g.e, c.lastack) \in Nat /\ Pos(g.e, c.snd_max) \in Nat /\ Pos(g.e, c.snd_lbb) \in Nat
      /\ QueueLen(c.unsent) \in Nat /\ QueueLen(c.unacked) \in Nat
  BY <1>2, SndFacts, QueueLenNat
<1>4. PICK la, lb, lc, sb : la = Pos(g.e, c.lastack) /\ lb = Pos(g.e, c.snd_lbb) /\ lc = Pos(g.e, q.snd_lbb) /\ sb = c.snd_buf
  OBVIOUS
<1>5. la \in Nat /\ lb \in Nat /\ n \in Nat /\ lc = lb + n /\ sb \in Int /\ q.snd_buf = (sb - n) % BufMod
  BY <1>2, <1>3, <1>4 DEF Enlarged, Snd
<1>6. q.snd_buf \in Int
  <2>1. sb - n \in Int /\ BufMod \in Nat /\ BufMod > 0
    BY <1>5, TcpConsts
  <2> QED BY <1>5, <2>1
<1>7. (q.snd_buf + (lc - la)) % BufMod = TcpSndBuf - Used(h, q)
  <2>1. PICK X, Y : X = sb - n /\ Y = lc - la
    OBVIOUS
  <2>2. X \in Int /\ Y \in Int /\ X + Y = sb + (lb - la)
    BY <1>5, <2>1
  <2>3. BufMod \in Nat /\ BufMod > 0
    BY TcpConsts
  <2>4. ((X % BufMod) + Y) % BufMod = (X + Y) % BufMod
    BY <2>2, <2>3, ModPlus
  <2>5. (sb + (lb - la)) % BufMod = TcpSndBuf - Used(g, c)
    BY <1>2, <1>4 DEF Snd
  <2>6. Used(h, q) = Used(g, c)
    BY <1>1 DEF Used, Enlarged
  <2> QED BY <1>5, <2>1, <2>2, <2>4, <2>5, <2>6
<1>8. q.lastack = c.lastack /\ q.snd_max = c.snd_max /\ q.unacked = c.unacked
  BY DEF Enlarged, Rest
<1>9. Pos(g.e, c.snd_max) <= lc
  <2>1. PICK sm : sm = Pos(g.e, c.snd_max)
    OBVIOUS
  <2>2. sm <= lb /\ sm \in Nat
    BY <1>2, <1>3, <1>4, <2>1 DEF Snd
  <2> QED BY <1>5, <2>1, <2>2
<1>10. q.qlen = QueueLen(q.unsent) + QueueLen(q.unacked)
  <2>1. PICK a, b : a = QueueLen(c.unsent) /\ b = QueueLen(c.unacked)
    OBVIOUS
  <2>2. c.qlen = a + b /\ a \in Nat /\ b \in Nat /\ q.qlen = c.qlen + 1 /\ QueueLen(q.unsent) = a + 1
        /\ QueueLen(q.unacked) = b
    BY <1>2, <1>3, <1>8, <2>1 DEF Snd, Enlarged
  <2> QED BY ONLY <2>2
<1>11. /\ q.snd_lbb \in Seqs /\ lc = q.written + (IF q.state \in Open THEN 1 ELSE 2)
       /\ (\A a \in D : a < lc) /\ Sending(g.e, D, q.written, q.closing, q.unacked, q.unsent, la, lc)
  BY <1>4 DEF Enlarged
<1>12. c.lastack \in Seqs /\ c.snd_max \in Seqs /\ la <= Pos(g.e, c.snd_max) /\ la <= g.lp
  BY <1>2, <1>4 DEF Snd
<1> QED BY <1>1, <1>4, <1>6, <1>7, <1>8, <1>9, <1>10, <1>11, <1>12 DEF Snd

(* d is what becomes of c, in a place where D is where segments were begun. *)
Grown(g, c, D, d) ==
  /\ D \in SUBSET Nat /\ D # {} /\ Growth(g.C, c.written, c.closing, D, d.written, d.closing)
  /\ Ok(With(g, D), d) /\ Lim(g, c) <= Lim(With(g, D), d)

LEMMA KeptGrown ==
  ASSUME NEW g, NEW c, Env(g), NEW d, Ok(g, c), Kept(g, c, d), g.C # {}
  PROVE  Grown(g, c, g.C, d)
<1>1. PICK h : h = With(g, g.C)
  OBVIOUS
<1>2. Env(h)
  BY <1>1, WithEnv, EnvFacts
<1>3. h.e = g.e /\ h.p = g.p /\ h.C = g.C /\ h.Cp = g.Cp /\ h.w = g.w /\ h.k = g.k /\ h.lp = g.lp
  BY <1>1, WithIs
<1>4. PeerGrew(g, h)
  <2>1. g.w \in Nat /\ g.lp \in Nat
    BY EnvFacts
  <2> QED BY <1>3, <2>1, GrowthRefl DEF PeerGrew
<1>5. Ok(g, d) /\ Lim(g, c) <= Lim(g, d) /\ d.written = c.written /\ d.closing = c.closing
  BY DEF Kept
<1>6. h.lp <= d.written + 2
  BY <1>3, <1>5 DEF Ok, Life
<1>7. Ok(h, d) /\ Lim(g, d) <= Lim(h, d)
  BY <1>2, <1>4, <1>5, <1>6, PeerGrows
<1>8. Lim(g, c) \in Nat /\ Lim(g, d) \in Nat /\ Lim(h, d) \in Nat /\ c.written \in Nat
  BY <1>2, <1>5, <1>7, OkFacts
<1>9. Lim(g, c) <= Lim(h, d)
  BY <1>5, <1>7, <1>8
<1>10. Growth(g.C, c.written, c.closing, g.C, d.written, d.closing)
  BY <1>5, <1>8, GrowthRefl
<1> QED BY <1>1, <1>7, <1>9, <1>10, EnvFacts DEF Grown

LEMMA GrownKept ==
  ASSUME NEW g, NEW c, Env(g), Ok(g, c), NEW D, NEW b, Grown(g, c, D, b), NEW d, Kept(With(g, D), b, d)
  PROVE  Grown(g, c, D, d)
<1>1. PICK h : h = With(g, D)
  OBVIOUS
<1>2. Env(h)
  BY <1>1, WithEnv DEF Grown
<1>3. Ok(h, b) /\ Ok(h, d) /\ Lim(h, b) <= Lim(h, d) /\ d.written = b.written /\ d.closing = b.closing
  BY <1>1 DEF Grown, Kept
<1>4. Lim(g, c) \in Nat /\ Lim(h, b) \in Nat /\ Lim(h, d) \in Nat
  BY <1>2, <1>3, OkFacts
<1>5. Lim(g, c) <= Lim(h, b)
  BY <1>1 DEF Grown
<1>6. Lim(g, c) <= Lim(h, d)
  BY <1>3, <1>4, <1>5
<1> QED BY <1>1, <1>3, <1>6 DEF Grown

-----------------------------------------------------------------------------
LEMMA EnlargedOk ==
  ASSUME NEW g, NEW c, Env(g), Ok(g, c), c.state \in Open, NEW D, D # {}, NEW q, NEW n, Enlarged(g, c, D, q, n),
         NEW h, h = With(g, D), Life(h, q), q.state \in Active, q.state \in Synced <=> c.state \in Synced,
         q.attached => c.attached
  PROVE  Grown(g, c, D, q)
<1>1. h.e = g.e /\ h.p = g.p /\ h.C = D /\ h.Cp = g.Cp /\ h.w = g.w /\ h.k = g.k /\ h.lp = g.lp
  BY WithIs
<1>2. /\ D \in SUBSET Nat /\ Growth(g.C, c.written, c.closing, D, q.written, q.closing)
      /\ Writes(g.e, D, q.written, q.closing) /\ Pcb(q) /\ Rest(c, q)
      /\ (q.state = "SYN_SENT" <=> c.state = "SYN_SENT")
  BY DEF Enlarged
<1>3. Snd(h, q)
  BY EnlargedSnd
<1>4. Lim(h, q) = Lim(g, c) /\ Lim(g, c) \in Nat
  BY <1>1, <1>2, OkFacts DEF Lim, Rest
<1>5. Heard(h, q)
  BY <1>1, <1>2 DEF Ok, Heard, Rest
<1>6. q.state \in Synced => Rcv(h, q)
  <2> HAVE q.state \in Synced
  <2>1. Rcv(g, c)
    BY DEF Ok
  <2>2. q.rcv_nxt = c.rcv_nxt /\ q.pend = c.pend /\ q.gotfin = c.gotfin /\ q.ooseq = c.ooseq /\ q.got = c.got
    BY <1>2 DEF Rest
  <2>3. Early(h, q, Pos(h.p, q.rcv_nxt))
    BY <1>1, <2>1, <2>2 DEF Rcv, Early
  <2>4. Upto(h, Pos(h.p, q.rcv_nxt)) = Upto(g, Pos(g.p, c.rcv_nxt))
    BY <1>1, <2>2 DEF Upto
  <2> QED BY <1>1, <2>1, <2>2, <2>3, <2>4 DEF Rcv
<1>7. \A s \in q.out : Sends(h, q, s)
  <2> TAKE s \in q.out
  <2>1. s \in c.out
    BY <1>2 DEF Rest
  <2>2. WireOK(g.e, g.C, c.written, c.closing, Lim(g, c), s)
    BY <2>1 DEF Ok, Sends
  <2>3. Writes(g.e, g.C, c.written, c.closing)
    BY OkFacts
  <2>4. PICK lim : lim = Lim(g, c)
    OBVIOUS
  <2>5. lim \in Nat /\ lim <= lim
    BY <1>4, <2>4
  <2>6. WireOK(g.e, D, q.written, q.closing, lim, s)
    BY <1>2, <2>2, <2>3, <2>4, <2>5, WireGrows
  <2> QED BY <1>1, <1>4, <2>4, <2>6 DEF Sends
<1>8. Ok(h, q)
  BY <1>2, <1>3, <1>5, <1>6, <1>7 DEF Ok
<1>9. Lim(g, c) <= Lim(h, q)
  BY <1>4
<1> QED BY <1>2, <1>8, <1>9 DEF Grown

LEMMA NewSegIs ==
  ASSUME NEW c, c.snd_lbb \in Seqs, NEW data \in Seq(Nat), NEW syn \in BOOLEAN, NEW fin \in BOOLEAN, NEW ack \in BOOLEAN,
         NEW x, x = NewSeg(c, data, syn, fin, ack)
  PROVE  /\ x \in Segs /\ x.seq = c.snd_lbb /\ x.data = data /\ x.syn = syn /\ x.fin = fin /\ x.ack = ack /\ x.n = 1
BY DEF NewSeg, Segs

(* Bytes that are written *)
Bytes(w, n) == [i \in 1 .. n |-> w + i]

Wrote(c, q, u, lb, sb, ql, wr) ==
  q = [c EXCEPT !.unsent = u, !.snd_lbb = lb, !.snd_buf = sb, !.qlen = ql, !.written = wr]

LEMMA WroteIs ==
  ASSUME NEW c, Pcb(c), NEW q, NEW u, NEW lb, NEW sb, NEW ql, NEW wr, Wrote(c, q, u, lb, sb, ql, wr)
  PROVE  /\ Pcb(q) /\ Rest(c, q) /\ q.unsent = u /\ q.snd_lbb = lb /\ q.snd_buf = sb /\ q.qlen = ql /\ q.written = wr
         /\ q.state = c.state /\ q.closing = c.closing /\ q.attached = c.attached /\ q.held = c.held
<1>1. Pcb(q) /\ q.unsent = u /\ q.snd_lbb = lb /\ q.snd_buf = sb /\ q.qlen = ql /\ q.written = wr
  BY DEF Wrote, Pcb, Fields
<1>2. q.state = c.state /\ q.closing = c.closing /\ q.attached = c.attached /\ q.held = c.held
  BY DEF Wrote, Pcb, Fields
<1>3. /\ q.rcv_nxt = c.rcv_nxt /\ q.pend = c.pend /\ q.gotfin = c.gotfin /\ q.ooseq = c.ooseq
      /\ q.got = c.got /\ q.eof = c.eof /\ (c.err => q.err)
  BY DEF Wrote, Pcb, Fields
<1>4. /\ q.lastack = c.lastack /\ q.snd_max = c.snd_max /\ q.unacked = c.unacked
      /\ q.snd_nxt = c.snd_nxt /\ q.delay = c.delay /\ q.out = c.out
  BY DEF Wrote, Pcb, Fields
<1> QED BY <1>1, <1>2, <1>3, <1>4 DEF Rest

(* Where the bytes of a write go *)
LEMMA WritePlaced ==
  ASSUME NEW g, NEW c, Env(g), Ok(g, c), c.state \in Open, NEW n \in Nat, n >= 1, c.written + n <= MaxBytes[g.e],
         NEW data, data = Bytes(c.written, n), NEW f, f = FALSE, NEW x, x = NewSeg(c, data, f, f, f), NEW u,
         Placed(c, data, f, f, x, u)
  PROVE  \E D : /\ D \in SUBSET Nat /\ Growth(g.C, c.written, c.closing, D, c.written + n, c.closing)
                /\ Writes(g.e, D, c.written + n, c.closing) /\ \A a \in D : a < c.written + n + 1
                /\ g.C \subseteq D
                /\ QueueLen(u) = QueueLen(c.unsent) + 1
                /\ Sending(g.e, D, c.written + n, c.closing, c.unacked, u, Pos(g.e, c.lastack), c.written + n + 1)
                /\ (\A i \in 1 .. Len(c.unsent) : ~c.unsent[i].ack) => \A i \in 1 .. Len(u) : ~u[i].ack
<1>1. Snd(g, c) /\ Life(g, c) /\ c.state \in Active
  BY StateSets DEF Ok
<1>2. PICK e, C, w, v, k, la : e = g.e /\ C = g.C /\ w = c.written /\ v = c.written + n /\ k = c.closing /\ la = Pos(g.e, c.lastack)
  OBVIOUS
<1>3. /\ Writes(e, C, w, k) /\ Writes(e, C, v, k) /\ ~k /\ w \in Nat /\ v \in Nat /\ v = w + n /\ k \in BOOLEAN
      /\ w <= v /\ C \in SUBSET Nat
  <2>1. Writes(e, C, w, k) /\ w \in Nat
    BY <1>2, OkFacts
  <2>2. e \in Ends /\ MaxBytes[e] \in Nat /\ v \in Nat /\ v <= MaxBytes[e]
    BY <1>2, <2>1, EnvFacts, TcpConsts
  <2>3. Writes(e, C, v, k)
    BY <2>1, <2>2 DEF Writes
  <2>4. ~k
    BY <1>1, <1>2 DEF Life
  <2> QED BY <1>2, <2>1, <2>2, <2>3, <2>4 DEF Writes
<1>4. /\ data \in Seq(Nat) /\ Len(data) = n /\ \A i \in 1 .. n : data[i] = w + i
  <2>1. data = Bytes(w, n)
    BY <1>2
  <2>2. \A i \in 1 .. n : w + i \in Nat
    BY <1>3
  <2>3. data \in Seq(Nat) /\ Len(data) = n
    BY ONLY <2>1, <2>2, n \in Nat DEF Bytes
  <2>4. \A i \in 1 .. n : data[i] = w + i
    BY ONLY <2>1 DEF Bytes
  <2> QED BY <2>3, <2>4
<1>5. /\ c.snd_lbb \in Seqs /\ Pos(e, c.snd_lbb) = w + 1 /\ (\A a \in C : a < w + 1) /\ la \in Nat /\ la <= w + 1
      /\ Sending(e, C, w, k, c.unacked, c.unsent, la, w + 1) /\ c.unsent \in Seq(Segs)
  <2>1. /\ c.snd_lbb \in Seqs /\ Pos(e, c.snd_lbb) = w + 1 /\ (\A a \in C : a < w + 1)
        /\ Sending(e, C, w, k, c.unacked, c.unsent, la, w + 1)
    BY <1>1, <1>2 DEF Snd
  <2>2. la \in Nat /\ la <= w + 1 /\ c.unsent \in Seq(Segs)
    <3>1. PICK sm : sm = Pos(g.e, c.snd_max)
      OBVIOUS
    <3>2. la \in Nat /\ sm \in Nat /\ la <= sm /\ sm <= w + 1 /\ c.unsent \in Seq(Segs)
      BY <1>1, <1>2, <2>1, <3>1, SndFacts
    <3> QED BY <1>3, <3>2
  <2> QED BY <2>1, <2>2
<1>6. CASE u = Append(c.unsent, x)
  <2>1. /\ x \in Segs /\ x.seq = c.snd_lbb /\ x.data = data /\ x.syn = f /\ x.fin = f /\ x.ack = f /\ x.n = 1
    <3>1. f \in BOOLEAN /\ x = NewSeg(c, data, f, f, f) /\ c.snd_lbb \in Seqs /\ data \in Seq(Nat)
      BY <1>4, <1>5
    <3> QED BY ONLY <3>1, NewSegIs
  <2>2. PICK D : D = C \cup {w + 1}
    OBVIOUS
  <2>3. D \in SUBSET Nat /\ C \subseteq D /\ (\A a \in D : a < v + 1) /\ (\A a \in D \ C : a >= w + 1) /\ w + 1 \in D
    <3>1. ASSUME NEW a \in D PROVE a < v + 1
      <4>1. a \in C \/ a = w + 1
        BY <2>2
      <4>2. a < w + 1 \/ a = w + 1
        BY <1>5, <4>1
      <4>3. a \in Nat
        <5>1. w + 1 \in Nat
          BY <1>3
        <5> QED BY <1>3, <4>1, <5>1
      <4> QED BY <1>3, <4>2, <4>3
    <3>2. \A a \in D \ C : a >= w + 1
      BY <1>3, <2>2
    <3> QED BY <1>3, <2>2, <3>1, <3>2
  <2>4. Writes(e, D, v, k) /\ Growth(C, w, k, D, v, k)
    BY <1>3, <2>3 DEF Writes, Growth
  <2>5. TcpLen(x) = n /\ EndPos(e, x) = v + 1
    <3>1. TcpLen(x) = n
      BY <1>4, <2>1, TcpLenIs
    <3>2. EndPos(e, x) = (w + 1) + n
      BY <1>5, <2>1, <3>1 DEF EndPos
    <3> QED BY <1>3, <3>1, <3>2
  <2>6. SegOK(e, D, v, k, x)
    <3>1. \A a \in D : a <= Pos(e, x.seq) \/ a >= EndPos(e, x)
      <4> TAKE a \in D
      <4>1. a \in C \/ a = w + 1
        BY <2>2
      <4>2. a <= w + 1
        <5>1. CASE a \in C
          <6>1. a < w + 1 /\ a \in Nat
            BY <1>3, <1>5, <5>1
          <6> QED BY <1>3, <6>1
        <5>2. CASE a = w + 1
          BY <1>3, <5>2
        <5> QED BY <4>1, <5>1, <5>2
      <4> QED BY <1>5, <2>1, <4>2
    <3>2. x.data # <<>>
      BY <1>4, <2>1
    <3>3. \A i \in 1 .. Len(x.data) : x.data[i] = Pos(e, x.seq) - 1 + i
      <4> TAKE i \in 1 .. Len(x.data)
      <4>1. x.data[i] = w + i /\ i \in Nat
        BY <1>4, <2>1
      <4>2. Pos(e, x.seq) - 1 + i = w + i
        BY <1>3, <1>5, <2>1, <4>1
      <4> QED BY <4>1, <4>2
    <3>4. Pos(e, x.seq) >= 1 /\ Pos(e, x.seq) + Len(x.data) <= v + 1 /\ Pos(e, x.seq) \in D
      BY <1>3, <1>4, <1>5, <2>1, <2>3
    <3> QED BY <1>4, <1>5, <2>1, <3>1, <3>2, <3>3, <3>4 DEF SegOK
  <2>7. /\ Sending(e, D, v, k, c.unacked, Append(c.unsent, x), la, EndPos(e, x))
        /\ QueueLen(Append(c.unsent, x)) = QueueLen(c.unsent) + 1
    <3>1. PICK lb : lb = w + 1
      OBVIOUS
    <3>2. lb \in Nat /\ la \in Nat /\ la <= lb /\ Sending(e, C, w, k, c.unacked, c.unsent, la, lb) /\ Pos(e, x.seq) = lb
      BY <1>3, <1>5, <2>1, <3>1
    <3> QED BY <1>3, <2>1, <2>4, <2>6, <3>2, AppendSends
  <2>8. (\A i \in 1 .. Len(c.unsent) : ~c.unsent[i].ack) => \A i \in 1 .. Len(u) : ~u[i].ack
    <3> SUFFICES ASSUME \A i \in 1 .. Len(c.unsent) : ~c.unsent[i].ack, NEW i \in 1 .. Len(u)
                 PROVE  ~u[i].ack
      OBVIOUS
    <3>1. PICK q, m : q = c.unsent /\ m = Len(c.unsent)
      OBVIOUS
    <3>2. q \in Seq(Segs) /\ m = Len(q) /\ u = Append(q, x)
      BY <1>5, <1>6, <3>1
    <3>3. m \in Nat /\ Len(u) = m + 1 /\ u[m + 1] = x /\ \A j \in 1 .. m : u[j] = q[j]
      BY ONLY <3>2, <2>1
    <3>4. CASE i = m + 1
      BY <2>1, <3>3, <3>4
    <3>5. CASE i # m + 1
      <4>1. i \in 1 .. m
        BY <3>3, <3>5
      <4> QED BY <3>1, <3>3, <4>1
    <3> QED BY <3>4, <3>5
  <2> QED BY <1>2, <1>3, <1>6, <2>3, <2>4, <2>5, <2>7, <2>8
<1>7. CASE /\ c.unsent # <<>> /\ ~c.unsent[Len(c.unsent)].syn /\ ~c.unsent[Len(c.unsent)].fin
           /\ u = Replaced(c.unsent, Len(c.unsent), JoinedTo(c.unsent[Len(c.unsent)], data))
  <2>1. Writing(e, C, w, v, k, data)
    <3>1. v = w + Len(data) /\ \A i \in 1 .. Len(data) : data[i] = w + i
      BY <1>3, <1>4
    <3> QED BY <1>3, <1>4, <1>5, <3>1 DEF Writing
  <2>2. PICK q, r, y : q = c.unsent /\ r = Len(c.unsent) /\ y = JoinedTo(c.unsent[Len(c.unsent)], data)
    OBVIOUS
  <2>3. q # <<>> /\ r = Len(q) /\ ~q[r].syn /\ ~q[r].fin /\ y = JoinedTo(q[r], data) /\ u = Replaced(q, r, y)
    BY <1>7, <2>2
  <2>4. /\ Sending(e, C, v, k, c.unacked, u, la, v + 1) /\ QueueLen(u) = QueueLen(q) + 1
        /\ Len(u) = Len(q) /\ r \in 1 .. Len(q) /\ u[r].ack = q[r].ack /\ \A i \in 1 .. Len(q) : i # r => u[i] = q[i]
    <3>1. Sending(e, C, w, k, c.unacked, q, la, w + 1)
      BY <1>5, <2>2
    <3>2. /\ ~k /\ Writes(e, C, w, k) /\ Writes(e, C, v, k) /\ w <= v /\ la \in Nat /\ la <= w + 1
          /\ Sending(e, C, w, k, c.unacked, q, la, w + 1) /\ Writing(e, C, w, v, k, data)
      BY <1>3, <1>5, <2>1, <3>1
    <3> QED BY ONLY <2>3, <3>2, JoinSends
  <2>5. (\A i \in 1 .. Len(q) : ~q[i].ack) => \A i \in 1 .. Len(u) : ~u[i].ack
    BY <2>4
  <2>6. Growth(C, w, k, C, v, k)
    BY <1>3 DEF Growth
  <2>7. \A a \in C : a < v + 1
    <3> TAKE a \in C
    <3>1. a < w + 1 /\ a \in Nat
      BY <1>3, <1>5
    <3> QED BY <1>3, <3>1
  <2> QED BY <1>2, <1>3, <2>2, <2>4, <2>5, <2>6, <2>7
<1> QED BY <1>6, <1>7 DEF Placed

-----------------------------------------------------------------------------
WriteQueued(c, n) == [TcpEnqueue(c, Bytes(c.written, n), FALSE, FALSE, FALSE) EXCEPT !.written = @ + n]

LEMMA WriteOk ==
  ASSUME NEW g, NEW c, Env(g), Ok(g, c), g.C # {}, c.state \in Open, c.attached, NEW n \in Nat, n >= 1,
         c.written + n <= MaxBytes[g.e], NEW q, q = WriteQueued(c, n)
  PROVE  (\E D : Grown(g, c, D, q)) /\ q.state = c.state /\ q.pend = c.pend
<1>0. PICK f : f = FALSE
  OBVIOUS
<1> USE <1>0
<1>1. Snd(g, c) /\ Life(g, c) /\ Pcb(c) /\ c.state \in Active /\ c.closing = FALSE /\ c.state # "SYN_RCVD"
  BY StateSets DEF Ok, Life
<1>2. PICK data, v : data = Bytes(c.written, n) /\ v = c.written + n
  OBVIOUS
<1>3. PICK x : x = NewSeg(c, data, f, f, f)
  OBVIOUS
<1>4. c.unsent \in Seq(Segs) /\ c.written \in Nat /\ v \in Nat
  BY <1>1, <1>2, SndFacts, OkFacts
<1>5. PICK b : b = TcpEnqueue(c, data, f, f, f)
  OBVIOUS
<1>6. PICK u : /\ Placed(c, data, f, f, x, u)
               /\ b = Enqueues(c, u, Plus(c.snd_lbb, TcpLen(x)), (c.snd_buf - TcpLen(x)) % BufMod, c.qlen + 1)
  BY ONLY <1>1, <1>3, <1>4, <1>5, EnqueueIs
<1>7. c.snd_lbb \in Seqs /\ Pos(g.e, c.snd_lbb) = c.written + 1
  BY <1>1 DEF Snd
<1>8. TcpLen(x) = n
  <2>1. \A i \in 1 .. n : c.written + i \in Nat
    BY <1>4
  <2>2. data \in Seq(Nat) /\ Len(data) = n
    BY ONLY <1>2, <2>1, n \in Nat DEF Bytes
  <2>3. x.data = data /\ x.syn = f /\ x.fin = f
    BY <1>3 DEF NewSeg
  <2> QED BY <2>2, <2>3, TcpLenIs
<1>9. PICK lb, sb, ql : lb = Plus(c.snd_lbb, n) /\ sb = (c.snd_buf - n) % BufMod /\ ql = c.qlen + 1
  OBVIOUS
<1>10. Wrote(c, q, u, lb, sb, ql, v)
  <2>1. b = [c EXCEPT !.unsent = u, !.snd_lbb = lb, !.snd_buf = sb, !.qlen = ql]
    BY <1>6, <1>8, <1>9 DEF Enqueues
  <2>2. q = [b EXCEPT !.written = @ + n]
    BY <1>2, <1>5 DEF WriteQueued
  <2> QED BY ONLY <1>1, <1>2, <2>1, <2>2 DEF Wrote, Pcb, Fields
<1>11. /\ Pcb(q) /\ Rest(c, q) /\ q.unsent = u /\ q.snd_lbb = lb /\ q.snd_buf = sb /\ q.qlen = ql /\ q.written = v
       /\ q.state = c.state /\ q.closing = c.closing /\ q.attached = c.attached /\ q.held = c.held
  BY ONLY <1>1, <1>10, WroteIs
<1>12. PICK D : /\ D \in SUBSET Nat /\ Growth(g.C, c.written, c.closing, D, c.written + n, c.closing)
                /\ Writes(g.e, D, c.written + n, c.closing) /\ \A a \in D : a < c.written + n + 1
                /\ g.C \subseteq D
                /\ QueueLen(u) = QueueLen(c.unsent) + 1
                /\ Sending(g.e, D, c.written + n, c.closing, c.unacked, u, Pos(g.e, c.lastack), c.written + n + 1)
                /\ (\A i \in 1 .. Len(c.unsent) : ~c.unsent[i].ack) => \A i \in 1 .. Len(u) : ~u[i].ack
  BY <1>2, <1>3, <1>6, WritePlaced
<1>13. lb \in Seqs /\ Pos(g.e, lb) = v + 1
  <2>1. Writes(g.e, D, v, c.closing)
    BY <1>2, <1>12
  <2>2. v + 2 < SeqSpace /\ SeqSpace \in Nat /\ g.e \in Ends
    BY <2>1, WritesFit
  <2>3. PICK P : P = Pos(g.e, c.snd_lbb)
    OBVIOUS
  <2>4. P + n < SeqSpace /\ P + n = v + 1
    BY <1>2, <1>4, <1>7, <2>2, <2>3
  <2>5. Plus(c.snd_lbb, n) \in Seqs /\ Pos(g.e, Plus(c.snd_lbb, n)) = P + n
    BY <1>7, <2>2, <2>3, <2>4, PosPlus
  <2> QED BY <1>9, <2>4, <2>5
<1>14. Enlarged(g, c, D, q, n)
  <2>1. /\ D \in SUBSET Nat /\ Growth(g.C, c.written, c.closing, D, v, c.closing)
        /\ Writes(g.e, D, v, c.closing) /\ (\A a \in D : a < v + 1)
        /\ QueueLen(u) = QueueLen(c.unsent) + 1
        /\ Sending(g.e, D, v, c.closing, c.unacked, u, Pos(g.e, c.lastack), v + 1)
    BY <1>2, <1>12
  <2>2. Pos(g.e, lb) = Pos(g.e, c.snd_lbb) + n
    BY <1>2, <1>4, <1>7, <1>13
  <2>3. q.unacked = c.unacked
    BY <1>11 DEF Rest
  <2> QED BY <1>9, <1>11, <1>13, <2>1, <2>2, <2>3 DEF Enlarged
<1>15. PICK h : h = With(g, D)
  OBVIOUS
<1>16. Life(h, q)
  <2>1. h.e = g.e /\ h.p = g.p /\ h.w = g.w /\ h.lp = g.lp
    BY <1>15, WithIs
  <2>2. v \in 0 .. MaxBytes[g.e] /\ c.written + 2 <= v + 2
    <3>1. MaxBytes[g.e] \in Nat
      BY EnvFacts, TcpConsts
    <3> QED BY <1>2, <1>4, <3>1
  <2>3. g.lp <= v + 2
    <3>1. g.lp <= c.written + 2 /\ g.lp \in Nat
      BY <1>1, EnvFacts DEF Life
    <3> QED BY <1>4, <2>2, <3>1
  <2>4. q.snd_nxt \in Seqs /\ Pos(g.e, q.snd_nxt) <= v + 2
    <3>1. c.state # "CLOSED"
      BY <1>1, StateSets
    <3>2. q.snd_nxt = c.snd_nxt /\ c.snd_nxt \in Seqs /\ Pos(g.e, c.snd_nxt) <= c.written + 2
      BY <1>1, <1>11, <3>1 DEF Life, Rest
    <3>3. Pos(g.e, c.snd_nxt) \in Nat
      BY <3>2, PosType, EnvFacts
    <3> QED BY <1>4, <2>2, <3>2, <3>3
  <2>5. q.state = "SYN_SENT" => Starting(h, q)
    <3> HAVE q.state = "SYN_SENT"
    <3>1. Starting(g, c)
      BY <1>1, <1>11 DEF Life
    <3>2. \A i \in 1 .. Len(u) : ~u[i].ack
      BY <1>12, <3>1 DEF Starting
    <3> QED BY <1>11, <2>1, <3>1, <3>2 DEF Starting, Rest
  <2>6. q.rcv_nxt = c.rcv_nxt /\ q.gotfin = c.gotfin /\ q.delay = c.delay
    BY <1>11 DEF Rest
  <2>7. /\ q.state \in States /\ q.state # "CLOSED" /\ q.state # "SYN_RCVD" /\ q.state \in Open /\ ~q.closing
        /\ q.attached /\ q.attached \in BOOLEAN /\ q.delay \in BOOLEAN /\ q.closing \in BOOLEAN /\ q.gotfin \in BOOLEAN
    <3>1. c.state \in States /\ c.state # "CLOSED"
      BY <1>1, StateSets
    <3>2. c.attached \in BOOLEAN /\ c.delay \in BOOLEAN /\ c.closing \in BOOLEAN /\ c.gotfin \in BOOLEAN
      BY OkFacts
    <3> QED BY <1>1, <1>11, <2>6, <3>1, <3>2
  <2>8. c.state \notin {"CLOSED", "SYN_SENT"} => Pos(g.p, c.rcv_nxt) <= g.w + 2
    BY <1>1 DEF Life
  <2>9. c.rcv_nxt \in Seqs
    BY <1>1, StateSets DEF Life
  <2> QED BY ONLY <1>11, <2>1, <2>2, <2>3, <2>4, <2>5, <2>6, <2>7, <2>8, <2>9 DEF Life
<1>17. Grown(g, c, D, q)
  <2>1. D # {}
    BY <1>12
  <2> QED BY <1>1, <1>11, <1>14, <1>15, <1>16, <2>1, EnlargedOk
<1> QED BY <1>11, <1>17 DEF Rest

-----------------------------------------------------------------------------
(* The application closes: what changes before tcp_close. *)
Ending(c, b) ==
  /\ Pcb(b) /\ Rest(c, b) /\ b.state = c.state /\ b.written = c.written /\ b.closing = TRUE
  /\ b.unsent = c.unsent /\ b.snd_lbb = c.snd_lbb /\ b.snd_buf = c.snd_buf /\ b.qlen = c.qlen
  /\ b.attached \in BOOLEAN /\ (b.attached => c.attached) /\ b.err = c.err

LEMMA RestTrans ==
  ASSUME NEW c, NEW b, NEW q, Rest(c, b), Rest(b, q)
  PROVE  Rest(c, q)
BY DEF Rest

Finished(b, q, u, lb, sb, ql, st) ==
  q = [b EXCEPT !.unsent = u, !.snd_lbb = lb, !.snd_buf = sb, !.qlen = ql, !.state = st]

LEMMA FinishedIs ==
  ASSUME NEW c, Pcb(c), NEW q, NEW u, NEW lb, NEW sb, NEW ql, NEW st, Finished(c, q, u, lb, sb, ql, st)
  PROVE  /\ Pcb(q) /\ Rest(c, q) /\ q.unsent = u /\ q.snd_lbb = lb /\ q.snd_buf = sb /\ q.qlen = ql /\ q.state = st
         /\ q.written = c.written /\ q.closing = c.closing /\ q.attached = c.attached
<1>1. Pcb(q) /\ q.unsent = u /\ q.snd_lbb = lb /\ q.snd_buf = sb /\ q.qlen = ql /\ q.state = st
  BY DEF Finished, Pcb, Fields
<1>2. q.written = c.written /\ q.closing = c.closing /\ q.attached = c.attached
  BY DEF Finished, Pcb, Fields
<1>3. /\ q.rcv_nxt = c.rcv_nxt /\ q.pend = c.pend /\ q.gotfin = c.gotfin /\ q.ooseq = c.ooseq
      /\ q.got = c.got /\ q.eof = c.eof /\ (c.err => q.err)
  BY DEF Finished, Pcb, Fields
<1>4. /\ q.lastack = c.lastack /\ q.snd_max = c.snd_max /\ q.unacked = c.unacked
      /\ q.snd_nxt = c.snd_nxt /\ q.delay = c.delay /\ q.out = c.out
  BY DEF Finished, Pcb, Fields
<1> QED BY <1>1, <1>2, <1>3, <1>4 DEF Rest

FinQueued(b, st) == [TcpEnqueue(b, <<>>, FALSE, TRUE, FALSE) EXCEPT !.state = st]

LEMMA FinOk ==
  ASSUME NEW g, NEW c, Env(g), Ok(g, c), c.state \in {"ESTABLISHED", "CLOSE_WAIT"}, NEW b, Ending(c, b),
         NEW st \in {"FIN_WAIT_1", "LAST_ACK"}, NEW q, q = FinQueued(b, st)
  PROVE  (\E D : Grown(g, c, D, q)) /\ q.state = st /\ q.pend = c.pend
<1>0. PICK f, t : f = FALSE /\ t = TRUE
  OBVIOUS
<1> USE <1>0
<1>1. /\ c.state \in Open /\ c.state \in Active /\ c.state \in Synced /\ c.state # "SYN_SENT" /\ st \notin Open
      /\ st \in Active /\ st \in Synced /\ st \notin {"SYN_SENT", "SYN_RCVD", "CLOSED"} /\ st \in States
  BY DEF Open, Active, Synced, States
<1>2. Snd(g, c) /\ Life(g, c) /\ Pcb(c) /\ c.closing = FALSE
  BY <1>1 DEF Ok, Life
<1>3. /\ Pcb(b) /\ Rest(c, b) /\ b.state = c.state /\ b.written = c.written /\ b.closing = TRUE
      /\ b.unsent = c.unsent /\ b.snd_lbb = c.snd_lbb /\ b.snd_buf = c.snd_buf /\ b.qlen = c.qlen
      /\ b.attached \in BOOLEAN /\ (b.attached => c.attached)
  BY DEF Ending
<1>4. PICK data : data = <<>>
  OBVIOUS
<1>5. PICK x : x = NewSeg(b, data, f, t, f)
  OBVIOUS
<1>6. c.unsent \in Seq(Segs) /\ c.written \in Nat /\ data \in Seq(Nat) /\ Len(data) = 0
  BY <1>1, <1>4, SndFacts, OkFacts
<1>7. PICK d : d = TcpEnqueue(b, data, f, t, f)
  OBVIOUS
<1>8. PICK u : /\ Placed(b, data, f, t, x, u)
               /\ d = Enqueues(b, u, Plus(b.snd_lbb, TcpLen(x)), (b.snd_buf - TcpLen(x)) % BufMod, b.qlen + 1)
  <2>1. b.unsent \in Seq(Segs)
    BY <1>3, <1>6
  <2> QED BY ONLY <1>3, <1>5, <1>7, <2>1, EnqueueIs
<1>9. u = Append(c.unsent, x)
  BY <1>3, <1>8 DEF Placed
<1>10. PICK e, C, w, k, la, lb : /\ e = g.e /\ C = g.C /\ w = c.written /\ k = c.closing
                                 /\ la = Pos(g.e, c.lastack) /\ lb = c.snd_lbb
  OBVIOUS
<1>11. /\ lb \in Seqs /\ Pos(e, lb) = w + 1 /\ (\A a \in C : a < w + 1) /\ la \in Nat /\ la <= w + 1
       /\ Sending(e, C, w, k, c.unacked, c.unsent, la, w + 1)
  <2>1. /\ lb \in Seqs /\ Pos(e, lb) = w + 1 /\ (\A a \in C : a < w + 1)
        /\ Sending(e, C, w, k, c.unacked, c.unsent, la, w + 1)
    BY <1>1, <1>2, <1>10 DEF Snd
  <2>2. la \in Nat /\ la <= w + 1
    <3>1. PICK sm : sm = Pos(g.e, c.snd_max)
      OBVIOUS
    <3>2. la \in Nat /\ sm \in Nat /\ la <= sm /\ sm <= w + 1
      BY <1>1, <1>10, <2>1, <3>1, SndFacts
    <3> QED BY <1>6, <1>10, <3>2
  <2> QED BY <2>1, <2>2
<1>12. /\ x \in Segs /\ x.seq = lb /\ x.data = data /\ x.syn = f /\ x.fin = t /\ x.ack = f /\ x.n = 1
  <2>1. f \in BOOLEAN /\ t \in BOOLEAN /\ x = NewSeg(b, data, f, t, f) /\ b.snd_lbb \in Seqs /\ data \in Seq(Nat)
        /\ b.snd_lbb = lb
    BY <1>3, <1>5, <1>6, <1>10, <1>11
  <2> QED BY ONLY <2>1, NewSegIs
<1>13. /\ Writes(e, C, w, k) /\ ~k /\ w \in Nat /\ w + 2 < SeqSpace /\ SeqSpace \in Nat /\ e \in Ends /\ C \in SUBSET Nat
  BY <1>2, <1>6, <1>10, OkFacts, WritesFit
<1>14. PICK D : D = C \cup {w + 1}
  OBVIOUS
<1>15. D \in SUBSET Nat /\ C \subseteq D /\ (\A a \in D : a <= w + 1) /\ (\A a \in D \ C : a >= w + 1) /\ w + 1 \in D
  <2>1. w + 1 \in Nat
    BY <1>13
  <2>2. ASSUME NEW a \in D PROVE a <= w + 1
    <3>1. CASE a \in C
      <4>1. a < w + 1 /\ a \in Nat
        BY <1>11, <1>13, <3>1
      <4> QED BY <1>13, <4>1
    <3>2. CASE a = w + 1
      BY <1>13, <3>2
    <3> QED BY <1>14, <3>1, <3>2
  <2>3. \A a \in D \ C : a >= w + 1
    BY <1>13, <1>14
  <2> QED BY <1>13, <1>14, <2>1, <2>2, <2>3
<1>16. Writes(e, D, w, t) /\ Growth(C, w, k, D, w, t)
  BY <1>13, <1>15 DEF Writes, Growth
<1>17. TcpLen(x) = 1 /\ EndPos(e, x) = w + 2
  <2>1. TcpLen(x) = 1
    <3>1. x.fin /\ x.data \in Seq(Nat) /\ x.syn \in BOOLEAN /\ x.fin \in BOOLEAN /\ Len(x.data) = 0
      BY <1>6, <1>12
    <3>2. TcpLen(x) = Len(x.data) + 1
      BY <3>1, TcpLenIs
    <3> QED BY <3>1, <3>2
  <2>2. EndPos(e, x) = (w + 1) + 1
    BY <1>11, <1>12, <2>1 DEF EndPos
  <2> QED BY <1>13, <2>1, <2>2
<1>18. SegOK(e, D, w, t, x)
  <2>1. Pos(e, x.seq) = w + 1 /\ Len(x.data) = 0 /\ x.data = <<>> /\ x.fin /\ ~x.syn
    BY <1>4, <1>6, <1>11, <1>12
  <2>2. w + 1 >= 1 /\ (w + 1) + 0 <= w + 1
    BY <1>13
  <2>3. \A i \in 1 .. Len(x.data) : x.data[i] = Pos(e, x.seq) - 1 + i
    BY <2>1
  <2> QED BY <1>6, <1>11, <1>12, <1>15, <2>1, <2>2, <2>3 DEF SegOK
<1>19. Sending(e, D, w, t, c.unacked, u, la, w + 2) /\ QueueLen(u) = QueueLen(c.unsent) + 1
  <2>1. PICK y : y = w + 1
    OBVIOUS
  <2>2. y \in Nat /\ la \in Nat /\ la <= y /\ Sending(e, C, w, k, c.unacked, c.unsent, la, y) /\ Pos(e, x.seq) = y
    BY <1>11, <1>12, <1>13, <2>1
  <2>3. Sending(e, D, w, t, c.unacked, Append(c.unsent, x), la, EndPos(e, x))
        /\ QueueLen(Append(c.unsent, x)) = QueueLen(c.unsent) + 1
    <3>1. x \in Segs /\ x.n = 1
      BY <1>12
    <3> QED BY ONLY <1>13, <1>16, <1>18, <2>2, <3>1, AppendSends
  <2> QED BY <1>9, <1>17, <2>3
<1>20. PICK nb, sb, ql : nb = Plus(lb, 1) /\ sb = (c.snd_buf - 1) % BufMod /\ ql = c.qlen + 1
  OBVIOUS
<1>21. Finished(b, q, u, nb, sb, ql, st)
  <2>1. d = [b EXCEPT !.unsent = u, !.snd_lbb = nb, !.snd_buf = sb, !.qlen = ql]
    BY <1>3, <1>8, <1>10, <1>17, <1>20 DEF Enqueues
  <2>2. q = [d EXCEPT !.state = st]
    BY <1>4, <1>7 DEF FinQueued
  <2> QED BY ONLY <1>3, <2>1, <2>2 DEF Finished, Pcb, Fields
<1>22. /\ Pcb(q) /\ Rest(b, q) /\ q.unsent = u /\ q.snd_lbb = nb /\ q.snd_buf = sb /\ q.qlen = ql /\ q.state = st
       /\ q.written = b.written /\ q.closing = b.closing /\ q.attached = b.attached
  BY ONLY <1>3, <1>21, FinishedIs
<1>23. Rest(c, q)
  BY <1>3, <1>22, RestTrans
<1>24. nb \in Seqs /\ Pos(e, nb) = w + 2
  <2>1. PICK P : P = Pos(e, lb)
    OBVIOUS
  <2>2. P + 1 < SeqSpace /\ P + 1 = w + 2
    BY <1>11, <1>13, <2>1
  <2>3. Plus(lb, 1) \in Seqs /\ Pos(e, Plus(lb, 1)) = P + 1
    BY <1>11, <1>13, <2>1, <2>2, PosPlus
  <2> QED BY <1>20, <2>2, <2>3
<1>25. q.written = w /\ q.closing = t /\ q.unacked = c.unacked
  BY <1>3, <1>10, <1>22, <1>23 DEF Rest
<1>26. Enlarged(g, c, D, q, 1)
  <2>1. \A a \in D : a < w + 2
    <3> TAKE a \in D
    <3>1. a <= w + 1 /\ a \in Nat
      BY <1>15
    <3> QED BY <1>13, <3>1
  <2>2. Pos(e, nb) = Pos(e, lb) + 1
    BY <1>11, <1>13, <1>24
  <2>3. q.state \notin Open /\ q.state # "SYN_SENT" /\ c.state # "SYN_SENT" /\ 1 \in Nat
    BY <1>1, <1>22
  <2> QED BY <1>10, <1>15, <1>16, <1>19, <1>20, <1>22, <1>23, <1>24, <1>25, <2>1, <2>2, <2>3 DEF Enlarged
<1>27. PICK h : h = With(g, D)
  OBVIOUS
<1>28. Life(h, q)
  <2>1. h.e = g.e /\ h.p = g.p /\ h.w = g.w /\ h.lp = g.lp
    BY <1>27, WithIs
  <2>2. q.rcv_nxt = c.rcv_nxt /\ q.gotfin = c.gotfin /\ q.delay = c.delay /\ q.snd_nxt = c.snd_nxt
    BY <1>23 DEF Rest
  <2>3. c.state \notin {"CLOSED", "SYN_SENT"}
    BY <1>1
  <2> QED BY <1>1, <1>2, <1>3, <1>10, <1>22, <1>25, <2>1, <2>2, <2>3 DEF Life
<1>29. Grown(g, c, D, q)
  <2>1. D # {} /\ q.state \in Active /\ (q.state \in Synced <=> c.state \in Synced) /\ (q.attached => c.attached)
    BY <1>1, <1>3, <1>15, <1>22
  <2> QED BY <1>1, <1>26, <1>27, <1>28, <2>1, EnlargedOk
<1> QED BY <1>22, <1>23, <1>29 DEF Rest

-----------------------------------------------------------------------------
LEMMA ClosedEnding ==
  ASSUME NEW g, NEW c, Env(g), Ok(g, c), g.C # {}, NEW d, Pcb(d), d.state = "CLOSED", d.attached = FALSE,
         d.delay = FALSE, d.gotfin = FALSE, d.got = c.got, d.eof = c.eof, d.written = c.written,
         d.closing = TRUE, \A s \in d.out : s \in c.out \/ Sends(g, c, s)
  PROVE  Grown(g, c, g.C, d)
<1>1. PICK h : h = With(g, g.C)
  OBVIOUS
<1>2. h.e = g.e /\ h.p = g.p /\ h.C = g.C /\ h.Cp = g.Cp /\ h.w = g.w /\ h.k = g.k /\ h.lp = g.lp
  BY <1>1, WithIs
<1>3. "CLOSED" \notin Active /\ "CLOSED" \notin Synced /\ "CLOSED" \notin Open /\ "CLOSED" \in States
  BY DEF Active, Synced, Open, States
<1>4. Lim(h, d) = g.w + 2 /\ g.w \in Nat /\ Lim(g, c) <= g.w + 2 /\ Lim(g, c) \in Nat
  BY <1>2, <1>3, LimMost, OkFacts, EnvFacts DEF Lim
<1>5. Life(h, d) /\ Heard(h, d)
  <2>1. Life(g, c) /\ Heard(g, c)
    BY DEF Ok
  <2>2. Heard(h, d)
    BY <1>2, <2>1 DEF Heard
  <2>3. d.delay \in BOOLEAN /\ d.closing \in BOOLEAN /\ d.gotfin \in BOOLEAN /\ d.attached \in BOOLEAN
    OBVIOUS
  <2> QED BY <1>2, <1>3, <2>1, <2>2, <2>3 DEF Life
<1>6. Growth(g.C, c.written, c.closing, g.C, d.written, d.closing) /\ Writes(g.e, g.C, c.written, c.closing)
      /\ Writes(g.e, g.C, d.written, d.closing)
  <2>1. Writes(g.e, g.C, c.written, c.closing) /\ c.written \in Nat
    BY OkFacts
  <2>2. PICK v, l : v = d.written /\ l = d.closing
    OBVIOUS
  <2>3. v = c.written /\ l /\ l \in BOOLEAN
    BY <2>2
  <2>4. Growth(g.C, c.written, c.closing, g.C, v, l)
    BY ONLY <2>1, <2>3 DEF Growth
  <2>5. Writes(g.e, g.C, v, l)
    BY ONLY <2>1, <2>3 DEF Writes
  <2> QED BY <2>1, <2>2, <2>4, <2>5
<1>7. \A s \in d.out : Sends(h, d, s)
  <2> TAKE s \in d.out
  <2>1. WireOK(g.e, g.C, c.written, c.closing, Lim(g, c), s)
    BY DEF Ok, Sends
  <2>2. PICK x, y : x = Lim(g, c) /\ y = Lim(h, d)
    OBVIOUS
  <2>3. x \in Nat /\ y \in Nat /\ x <= y
    BY <1>4, <2>2
  <2>4. WireOK(g.e, g.C, d.written, d.closing, y, s)
    BY <1>6, <2>1, <2>2, <2>3, WireGrows
  <2> QED BY <1>2, <2>2, <2>4 DEF Sends
<1>8. Ok(h, d)
  BY <1>3, <1>5, <1>7 DEF Ok
<1> QED BY <1>1, <1>4, <1>6, <1>8, EnvFacts DEF Grown

(* tcp_pcb_remove and tcp_abort, of a connection that the application ends *)
LEMMA EndingGone ==
  ASSUME NEW g, NEW c, Env(g), Ok(g, c), g.C # {}, c.state # "CLOSED", NEW b, Ending(c, b),
         NEW d, \/ d = PcbRemove(b)
                \/ b.attached = FALSE /\ c.state # "TIME_WAIT" /\ d = Abort(b)
  PROVE  Grown(g, c, g.C, d) /\ d.pend = <<>>
<1>1. PICK r : r = PcbRemove(b)
  OBVIOUS
<1>2. /\ Pcb(b) /\ Rest(c, b) /\ b.state = c.state /\ b.written = c.written /\ b.closing = TRUE
  BY DEF Ending
<1>3. Removed(b, r)
  BY <1>1, <1>2, PcbRemoveIs
<1>4. /\ Pcb(r) /\ r.state = "CLOSED" /\ r.attached = FALSE /\ r.delay = FALSE /\ r.gotfin = FALSE
      /\ r.got = c.got /\ r.eof = c.eof /\ r.written = c.written /\ r.closing = TRUE /\ r.pend = <<>>
      /\ \A s \in r.out : s \in c.out \/ (c.delay /\ c.state # "TIME_WAIT" /\ s = PureAck(b))
  <2>1. b.out = c.out /\ b.delay = c.delay /\ b.got = c.got /\ b.eof = c.eof
    BY <1>2 DEF Rest
  <2> QED BY <1>2, <1>3, <2>1 DEF Removed
<1>5. \A s \in r.out : s \in c.out \/ Sends(g, c, s)
  <2> TAKE s \in r.out
  <2>1. CASE c.delay /\ s = PureAck(b)
    <3>1. c.state \notin {"CLOSED", "SYN_SENT"}
      BY <2>1 DEF Ok, Life, Starting
    <3>2. Sends(g, c, PureAck(c))
      BY <3>1, PureAckOk
    <3>3. PureAck(b) = [seq |-> b.snd_nxt, data |-> <<>>, syn |-> FALSE, fin |-> FALSE, rst |-> FALSE,
               ack |-> TRUE, ackno |-> b.rcv_nxt, wnd |-> b.rcv_wnd]
      BY DEF PureAck
    <3>4. PureAck(c) = [seq |-> c.snd_nxt, data |-> <<>>, syn |-> FALSE, fin |-> FALSE, rst |-> FALSE,
               ack |-> TRUE, ackno |-> c.rcv_nxt, wnd |-> c.rcv_wnd]
      BY DEF PureAck
    <3>5. b.snd_nxt = c.snd_nxt /\ b.rcv_nxt = c.rcv_nxt
      BY <1>2 DEF Rest
    <3>6. PICK x, y : x = PureAck(b) /\ y = PureAck(c)
      OBVIOUS
    <3>7. /\ x.seq = y.seq /\ x.data = y.data /\ x.syn = y.syn /\ x.fin = y.fin /\ x.rst = y.rst /\ x.ack = y.ack
          /\ x.ackno = y.ackno /\ WireRec(x)
      BY ONLY <3>3, <3>4, <3>5, <3>6 DEF WireRec
    <3>8. SegOK(g.e, g.C, c.written, c.closing, y) => SegOK(g.e, g.C, c.written, c.closing, x)
      BY <3>7, SegLike
    <3>9. WireOK(g.e, g.C, c.written, c.closing, Lim(g, c), y)
      BY <3>2, <3>6 DEF Sends
    <3>10. WireOK(g.e, g.C, c.written, c.closing, Lim(g, c), x)
      BY ONLY <3>7, <3>8, <3>9 DEF WireOK
    <3> QED BY <2>1, <3>6, <3>10 DEF Sends
  <2> QED BY <1>4, <2>1
<1>6. CASE d = r
  BY <1>4, <1>5, <1>6, ClosedEnding
<1>7. CASE b.attached = FALSE /\ c.state # "TIME_WAIT" /\ d = Abort(b)
  <2>1. Errf(b) = b
    BY <1>7 DEF Errf
  <2>2. d = Send(r, TcpRst(b.snd_nxt, b.rcv_nxt))
    BY <1>1, <1>2, <1>7, <2>1 DEF Abort
  <2>3. PICK s : s = TcpRst(b.snd_nxt, b.rcv_nxt)
    OBVIOUS
  <2>4. /\ Pcb(d) /\ d.state = r.state /\ d.attached = r.attached /\ d.delay = r.delay /\ d.gotfin = r.gotfin
        /\ d.got = r.got /\ d.eof = r.eof /\ d.written = r.written /\ d.closing = r.closing /\ d.pend = r.pend
        /\ d.out = r.out \cup {s}
    BY <1>4, <2>2, <2>3, SendIs DEF Same, SameSnd, SameRcv, SameApp
  <2>5. Sends(g, c, s)
    <3>1. b.snd_nxt \in Seqs /\ b.rcv_nxt \in Seqs
      BY <1>2 DEF Rest, Ok, Life
    <3> QED BY <2>3, <3>1, RstSends
  <2>6. \A x \in d.out : x \in c.out \/ Sends(g, c, x)
    BY <1>5, <2>4, <2>5
  <2> QED BY <1>4, <2>4, <2>6, ClosedEnding
<1> QED BY <1>1, <1>6, <1>7

LEMMA TcpCloseOk ==
  ASSUME NEW g, NEW c, Env(g), Ok(g, c), g.C # {}, c.state \in Open, c.state # "SYN_RCVD", c.pend = <<>>,
         NEW b, Ending(c, b), ~CloseFails(b), NEW d, d = TcpClose(b)
  PROVE  (\E D : Grown(g, c, D, d)) /\ d.pend = <<>>
<1>1. b.state = c.state /\ c.state \in {"SYN_SENT", "ESTABLISHED", "CLOSE_WAIT"}
  BY DEF Ending, Open
<1>2. CASE c.state = "SYN_SENT"
  <2>1. d = PcbRemove(b)
    BY <1>1, <1>2 DEF TcpClose, CloseFails
  <2>2. Grown(g, c, g.C, d) /\ d.pend = <<>>
    BY <1>2, <2>1, EndingGone
  <2> QED BY <2>2
<1>3. CASE c.state \in {"ESTABLISHED", "CLOSE_WAIT"}
  <2>2. PICK st \in {"FIN_WAIT_1", "LAST_ACK"} : d = Output(FinQueued(b, st))
    <3>1. CASE c.state = "ESTABLISHED"
      <4>1. d = Output(FinQueued(b, "FIN_WAIT_1"))
        BY <1>1, <3>1 DEF TcpClose, FinQueued
      <4> QED BY <4>1
    <3>2. CASE c.state = "CLOSE_WAIT"
      <4>1. d = Output(FinQueued(b, "LAST_ACK"))
        BY <1>1, <3>2 DEF TcpClose, FinQueued
      <4> QED BY <4>1
    <3> QED BY <1>3, <3>1, <3>2
  <2>3. PICK q : q = FinQueued(b, st)
    OBVIOUS
  <2>4. (\E D : Grown(g, c, D, q)) /\ q.state = st /\ q.pend = c.pend
    <3>1. Ending(c, b) /\ Env(g) /\ Ok(g, c)
      OBVIOUS
    <3> QED BY ONLY <1>3, <2>3, <3>1, st \in {"FIN_WAIT_1", "LAST_ACK"}, FinOk
  <2>5. PICK D : Grown(g, c, D, q)
    BY <2>4
  <2>6. PICK h : h = With(g, D)
    OBVIOUS
  <2>7. Env(h) /\ Ok(h, q) /\ q.state \in Active
    <3>1. q.state \in Active
      BY <2>4 DEF Active, States
    <3> QED BY <2>5, <2>6, <3>1, WithEnv DEF Grown
  <2>8. Kept(h, q, d) /\ SameRcv(q, d)
    BY <2>2, <2>3, <2>7, OutputOk
  <2>9. Grown(g, c, D, d)
    BY <2>5, <2>6, <2>8, GrownKept
  <2>10. d.pend = <<>>
    BY <2>4, <2>8 DEF SameRcv
  <2> QED BY <2>9, <2>10
<1> QED BY <1>1, <1>2, <1>3

(* The application lets go of a connection that is being closed. *)
LEMMA DetachedOk ==
  ASSUME NEW g, NEW c, Env(g), Ok(g, c), c.state \notin Open, c.state # "CLOSED", NEW b, Ending(c, b), b.attached = FALSE
  PROVE  Kept(g, c, b)
<1>1. Pcb(c) /\ Life(g, c) /\ Heard(g, c) /\ c.closing = TRUE
  <2>1. c.closing /\ c.closing \in BOOLEAN
    BY DEF Ok, Life
  <2> QED BY <2>1 DEF Ok
<1>2. /\ Pcb(b) /\ Rest(c, b) /\ b.state = c.state /\ b.written = c.written /\ b.closing = TRUE
      /\ b.unsent = c.unsent /\ b.snd_lbb = c.snd_lbb /\ b.snd_buf = c.snd_buf /\ b.qlen = c.qlen
  BY DEF Ending
<1>3. SameSnd(c, b) /\ SameApp(c, b) /\ b.out = c.out /\ b.rcv_nxt = c.rcv_nxt
  BY <1>1, <1>2 DEF Rest, SameSnd, SameApp
<1>4. b.state \in Active => Snd(g, b)
  BY <1>2, <1>3, SndSame DEF Ok
<1>5. b.state \in Synced => Rcv(g, b)
  <2> HAVE b.state \in Synced
  <2>1. Rcv(g, c)
    BY <1>2 DEF Ok
  <2>2. b.rcv_nxt = c.rcv_nxt /\ b.pend = c.pend /\ b.gotfin = c.gotfin /\ b.ooseq = c.ooseq
    BY <1>2 DEF Rest
  <2>3. Early(g, b, Pos(g.p, b.rcv_nxt))
    BY <2>1, <2>2 DEF Rcv, Early
  <2> QED BY <2>1, <2>2, <2>3 DEF Rcv
<1>6. Heard(g, b)
  BY <1>1, <1>3, HeardSame
<1>7. Lim(g, b) = Lim(g, c) /\ Lim(g, c) \in Nat
  BY <1>2, <1>3, OkFacts DEF Lim
<1>8. \A s \in b.out : Sends(g, b, s)
  BY <1>1, <1>2, <1>3, <1>7 DEF Ok, Sends
<1>9. Life(g, b)
  <2>1. b.attached \in BOOLEAN /\ b.delay = c.delay /\ b.gotfin = c.gotfin /\ b.snd_nxt = c.snd_nxt /\ b.rcv_nxt = c.rcv_nxt
        /\ b.closing \in BOOLEAN
    BY <1>2 DEF Rest
  <2>2. b.state # "SYN_SENT" /\ b.state # "SYN_RCVD"
    BY <1>2 DEF Open
  <2> QED BY <1>1, <1>2, <2>1, <2>2 DEF Life
<1>10. Lim(g, c) <= Lim(g, b) /\ b.closing = c.closing
  <2>1. b.closing = c.closing
    BY <1>1, <1>2
  <2>2. Lim(g, c) <= Lim(g, b)
    BY <1>7
  <2> QED BY <2>1, <2>2
<1> QED BY <1>2, <1>4, <1>5, <1>6, <1>8, <1>9, <1>10 DEF Kept, Ok

LEMMA CloseOk ==
  ASSUME NEW g, NEW c, Env(g), Ok(g, c), g.C # {}, c.pend = <<>>, c.attached, ~c.closing, c.state \in Active,
         ~CloseFails(c), NEW d, d = TcpClose([c EXCEPT !.closing = TRUE])
  PROVE  (\E D : Grown(g, c, D, d)) /\ d.pend = <<>>
<1>1. PICK b : b = [c EXCEPT !.closing = TRUE]
  OBVIOUS
<1>2. Pcb(c) /\ c.attached \in BOOLEAN
  BY OkFacts DEF Ok
<1>3. Ending(c, b)
  <2>1. Pcb(b) /\ b.state = c.state /\ b.written = c.written /\ b.closing = TRUE /\ b.unsent = c.unsent
    BY <1>1, <1>2 DEF Pcb, Fields
  <2>2. b.snd_lbb = c.snd_lbb /\ b.snd_buf = c.snd_buf /\ b.qlen = c.qlen /\ b.attached = c.attached /\ b.err = c.err
    BY <1>1, <1>2 DEF Pcb, Fields
  <2>3. Rest(c, b)
    BY <1>1, <1>2 DEF Pcb, Fields, Rest
  <2> QED BY <1>2, <2>1, <2>2, <2>3 DEF Ending
<1>4. ~CloseFails(b)
  BY <1>3 DEF CloseFails, CanEnqueue, Ending
<1>5. c.state \in Open /\ c.state # "SYN_RCVD"
  <2>1. Life(g, c) /\ c.state \in States /\ c.state # "CLOSED"
    BY StateSets DEF Ok
  <2> QED BY <2>1 DEF Life, Open
<1> QED BY <1>1, <1>3, <1>4, <1>5, TcpCloseOk

LEMMA DeleteOk ==
  ASSUME NEW g, NEW c, Env(g), Ok(g, c), g.C # {}, c.pend = <<>>, c.attached, c.state # "CLOSED",
         NEW b, b = [c EXCEPT !.attached = FALSE, !.closing = TRUE, !.held = 0],
         NEW d, d = IF CloseFails(b) THEN Abort(b) ELSE TcpClose(b)
  PROVE  (\E D : Grown(g, c, D, d)) /\ d.pend = <<>>
<1>1. Pcb(c)
  BY DEF Ok
<1>2. Ending(c, b) /\ b.attached = FALSE
  <2>1. Pcb(b) /\ b.state = c.state /\ b.written = c.written /\ b.closing = TRUE /\ b.unsent = c.unsent
    BY <1>1 DEF Pcb, Fields
  <2>2. b.snd_lbb = c.snd_lbb /\ b.snd_buf = c.snd_buf /\ b.qlen = c.qlen /\ b.attached = FALSE /\ b.err = c.err
    BY <1>1 DEF Pcb, Fields
  <2>3. Rest(c, b)
    <3>1. /\ b.rcv_nxt = c.rcv_nxt /\ b.pend = c.pend /\ b.gotfin = c.gotfin /\ b.ooseq = c.ooseq
          /\ b.got = c.got /\ b.eof = c.eof /\ (c.err => b.err)
      BY <1>1 DEF Pcb, Fields
    <3>2. /\ b.lastack = c.lastack /\ b.snd_max = c.snd_max /\ b.unacked = c.unacked
          /\ b.snd_nxt = c.snd_nxt /\ b.delay = c.delay /\ b.out = c.out
      BY <1>1 DEF Pcb, Fields
    <3> QED BY <3>1, <3>2 DEF Rest
  <2> QED BY <2>1, <2>2, <2>3 DEF Ending
<1>3. b.state = c.state
  BY <1>2 DEF Ending
<1>4. CASE CloseFails(b)
  <2>1. d = Abort(b) /\ c.state # "TIME_WAIT"
    BY <1>3, <1>4 DEF CloseFails
  <2>2. Grown(g, c, g.C, d) /\ d.pend = <<>>
    BY ONLY Env(g), Ok(g, c), g.C # {}, c.state # "CLOSED", <1>2, <2>1, EndingGone
  <2> QED BY <2>2
<1>5. CASE ~CloseFails(b) /\ c.state \in Open
  <2>1. d = TcpClose(b) /\ c.state # "SYN_RCVD"
    BY <1>5 DEF Ok, Life
  <2> QED BY ONLY Env(g), Ok(g, c), g.C # {}, c.pend = <<>>, <1>2, <1>5, <2>1, TcpCloseOk
<1>6. CASE ~CloseFails(b) /\ c.state \notin Open
  <2>1. d = TcpClose(b)
    BY <1>6
  <2>2. d = b
    BY <1>3, <1>6, <2>1 DEF TcpClose, Open
  <2>3. Kept(g, c, b)
    BY ONLY Env(g), Ok(g, c), c.state # "CLOSED", <1>2, <1>6, DetachedOk
  <2>4. Grown(g, c, g.C, d)
    BY ONLY Env(g), Ok(g, c), g.C # {}, <2>2, <2>3, KeptGrown
  <2>5. b.pend = c.pend
    BY <1>2 DEF Ending, Rest
  <2> QED BY <2>2, <2>4, <2>5
<1> QED BY <1>4, <1>5, <1>6

-----------------------------------------------------------------------------
(* The application reads, and the timers *)
LEMMA RecvedOk ==
  ASSUME NEW g, NEW c, Env(g), Ok(g, c), c.state # "CLOSED", c.held > 0, NEW rw,
         NEW d, d = Ack([c EXCEPT !.rcv_wnd = rw, !.held = 0])
  PROVE  Kept(g, c, d) /\ d.pend = c.pend
<1>1. PICK b : b = [c EXCEPT !.rcv_wnd = rw, !.held = 0]
  OBVIOUS
<1>2. Pcb(c) /\ c.state # "SYN_SENT" /\ c.delay \in BOOLEAN
  BY OkFacts DEF Ok, Life, Starting
<1>3. Pcb(b) /\ SameSnd(c, b) /\ SameRcv(c, b)
  BY <1>1, <1>2 DEF Pcb, Fields, SameSnd, SameRcv
<1>4. SameApp(c, b) /\ b.state = c.state /\ b.snd_nxt = c.snd_nxt /\ b.delay = c.delay /\ b.out = c.out
  BY <1>1, <1>2 DEF Pcb, Fields, SameApp
<1>5. Same(c, b)
  BY <1>3, <1>4 DEF Same
<1>6. Kept(g, c, b)
  BY <1>2, <1>3, <1>4, <1>5, OkSame
<1>7. Ok(g, b) /\ b.state \notin {"CLOSED", "SYN_SENT"} /\ d = Ack(b)
  BY <1>1, <1>2, <1>4, <1>6 DEF Kept
<1>8. Kept(g, b, d) /\ Same(b, d)
  BY <1>7, AckOk
<1>9. Kept(g, c, d)
  BY <1>6, <1>8, KeptTrans
<1> QED BY <1>3, <1>8, <1>9 DEF Same, SameRcv

LEMMA FastTmrOk ==
  ASSUME NEW g, NEW c, Env(g), Ok(g, c), c.state \in Active, c.delay, NEW d, d = AckNow(c)
  PROVE  Kept(g, c, d) /\ d.pend = c.pend
<1>1. c.state \notin {"CLOSED", "SYN_SENT"}
  BY StateSets DEF Ok, Life, Starting
<1>2. Kept(g, c, d) /\ Same(c, d)
  BY <1>1, AckNowOk
<1> QED BY <1>2 DEF Same, SameRcv

(* The segments after the first one go back to the unsent queue. *)
BackSent(e, C, w, k, a, u, la, lb, f, t) ==
  /\ Sending(e, C, w, k, f, t \o u, la, lb)
  /\ QueueLen(t \o u) + QueueLen(f) = QueueLen(u) + QueueLen(a)
  /\ a \in Seq(Segs) /\ f = <<a[1]>> /\ t = Tail(a) /\ t \in Seq(Segs) /\ u \in Seq(Segs)
  /\ (\A i \in 1 .. Len(t) : t[i] = a[1 + i] /\ 1 + i \in 1 .. Len(a)) /\ 1 \in 1 .. Len(a)

LEMMA BackSends ==
  ASSUME NEW e, NEW C, NEW w, NEW k, Writes(e, C, w, k), NEW a, NEW u, NEW la \in Nat, NEW lb \in Nat,
         Sending(e, C, w, k, a, u, la, lb), a # <<>>, NEW f, f = SubSeq(a, 1, 1), NEW t, t = Tail1(a, 1)
  PROVE  BackSent(e, C, w, k, a, u, la, lb, f, t)
<1>1. PICK lo, mid \in Nat : /\ Queue(e, C, w, k, a, lo, mid) /\ Queue(e, C, w, k, u, mid, lb) /\ lo <= la
                             /\ \A i \in 1 .. Len(a) : la < EndPos(e, a[i])
                             /\ \A i \in 1 .. Len(u) : la < EndPos(e, u[i])
  BY DEF Sending
<1>2. a \in Seq(Segs) /\ u \in Seq(Segs) /\ Len(a) \in Nat /\ Len(a) >= 1 /\ 1 \in 1 .. Len(a) /\ 1 \in 0 .. Len(a)
      /\ Len(u) \in Nat
  BY <1>1 DEF Queue
<1>3. PICK m \in Nat : Queue(e, C, w, k, f, lo, m) /\ Queue(e, C, w, k, t, m, mid)
                       /\ QueueLen(a) = QueueLen(f) + QueueLen(t)
  BY <1>1, <1>2, QueueSplit
<1>4. /\ f \in Seq(Segs) /\ Len(f) = 1 /\ f[1] = a[1]
      /\ t \in Seq(Segs) /\ Len(t) = Len(a) - 1 /\ \A i \in 1 .. Len(a) - 1 : t[i] = a[1 + i]
  <2>1. \A i \in 1 .. 1 : f[i] = a[i]
    BY ONLY <1>2, f = SubSeq(a, 1, 1), SplitIs
  <2> QED BY <1>2, <2>1, SplitIs
<1>5. f = <<a[1]>>
  BY ONLY <1>4
<1>6. t = Tail(a)
  BY <1>2 DEF Tail1
<1>7. PICK z : z = t \o u
  OBVIOUS
<1>8. Queue(e, C, w, k, z, m, lb) /\ QueueLen(z) = QueueLen(t) + QueueLen(u)
  BY <1>1, <1>3, <1>7, QueueJoin
<1>9. /\ Len(z) = Len(t) + Len(u) /\ (\A i \in 1 .. Len(t) : z[i] = t[i])
      /\ \A i \in 1 .. Len(u) : z[Len(t) + i] = u[i]
  <2>1. t \in Seq(Segs) /\ u \in Seq(Segs)
    BY <1>2, <1>4
  <2>2. Len(z) = Len(t) + Len(u)
    BY ONLY <2>1, <1>7
  <2>3. \A i \in 1 .. Len(t) : z[i] = t[i]
    BY ONLY <2>1, <1>7
  <2>4. \A i \in 1 .. Len(u) : z[Len(t) + i] = u[i]
    BY ONLY <2>1, <1>7
  <2> QED BY <2>2, <2>3, <2>4
<1>10. \A i \in 1 .. Len(t) : t[i] = a[1 + i] /\ 1 + i \in 1 .. Len(a)
  BY <1>2, <1>4
<1>11. ASSUME NEW i \in 1 .. Len(z) PROVE la < EndPos(e, z[i])
  <2>1. Len(t) \in Nat
    BY <1>4
  <2>2. CASE i \in 1 .. Len(t)
    BY <1>1, <1>9, <1>10, <2>2
  <2>3. CASE i \notin 1 .. Len(t)
    <3>1. i - Len(t) \in 1 .. Len(u) /\ Len(t) + (i - Len(t)) = i
      BY <1>2, <1>9, <2>1, <2>3
    <3>2. z[Len(t) + (i - Len(t))] = u[i - Len(t)]
      BY <1>9, <3>1
    <3> QED BY <1>1, <3>1, <3>2
  <2> QED BY <2>2, <2>3
<1>12. \A i \in 1 .. Len(f) : la < EndPos(e, f[i])
  BY <1>1, <1>2, <1>4
<1>13. Sending(e, C, w, k, f, z, la, lb)
  BY <1>1, <1>3, <1>8, <1>11, <1>12 DEF Sending
<1>14. QueueLen(z) + QueueLen(f) = QueueLen(u) + QueueLen(a)
  <2>1. QueueLen(f) \in Nat /\ QueueLen(t) \in Nat /\ QueueLen(u) \in Nat
    BY <1>2, <1>4, QueueLenNat DEF Counted
  <2> QED BY <1>3, <1>8, <2>1
<1> QED BY <1>2, <1>4, <1>5, <1>6, <1>7, <1>10, <1>13, <1>14 DEF BackSent

MovedBack(c) ==
  [c EXCEPT !.unacked = <<Head(@)>>, !.unsent = Tail(c.unacked) \o @,
            !.snd_nxt = IF Tail(c.unacked) = <<>> THEN @ ELSE Tail(c.unacked)[1].seq]
Back(c, d, f, z, nx) == d = [c EXCEPT !.unacked = f, !.unsent = z, !.snd_nxt = nx]

LEMMA BackOk ==
  ASSUME NEW g, NEW c, Env(g), Ok(g, c), c.state \in Active, c.unacked # <<>>,
         NEW d, d = MovedBack(c)
  PROVE  Kept(g, c, d) /\ d.pend = c.pend /\ d.state = c.state
<1>1. Snd(g, c) /\ Life(g, c) /\ Heard(g, c) /\ Pcb(c) /\ c.unacked \in Seq(Segs) /\ c.unsent \in Seq(Segs)
  BY SndFacts DEF Ok
<1>2. PICK e, C, w, k, a, u, la, lb : /\ e = g.e /\ C = g.C /\ w = c.written /\ k = c.closing /\ a = c.unacked /\ u = c.unsent
                                      /\ la = Pos(g.e, c.lastack) /\ lb = Pos(g.e, c.snd_lbb)
  OBVIOUS
<1>3. /\ Writes(e, C, w, k) /\ la \in Nat /\ lb \in Nat /\ Sending(e, C, w, k, a, u, la, lb) /\ a # <<>> /\ w \in Nat
  BY <1>1, <1>2, OkFacts, SndFacts DEF Snd
<1>4. PICK f, t : f = SubSeq(a, 1, 1) /\ t = Tail1(a, 1)
  OBVIOUS
<1>5. /\ Sending(e, C, w, k, f, t \o u, la, lb)
      /\ QueueLen(t \o u) + QueueLen(f) = QueueLen(u) + QueueLen(a)
      /\ a \in Seq(Segs) /\ f = <<a[1]>> /\ t = Tail(a) /\ t \in Seq(Segs) /\ u \in Seq(Segs)
      /\ (\A i \in 1 .. Len(t) : t[i] = a[1 + i] /\ 1 + i \in 1 .. Len(a)) /\ 1 \in 1 .. Len(a)
  <2>1. BackSent(e, C, w, k, a, u, la, lb, f, t)
    BY ONLY <1>3, <1>4, BackSends
  <2> QED BY ONLY <2>1 DEF BackSent
<1>6. PICK z, nx : z = t \o u /\ nx = IF t = <<>> THEN c.snd_nxt ELSE t[1].seq
  OBVIOUS
<1>7. Back(c, d, f, z, nx)
  <2>1. Head(c.unacked) = a[1] /\ Tail(c.unacked) = t
    BY <1>2, <1>5
  <2> QED BY <1>1, <1>2, <1>5, <1>6, <2>1 DEF Back, MovedBack, Pcb, Fields
<1>8. /\ Pcb(d) /\ d.unacked = f /\ d.unsent = z /\ d.snd_nxt = nx /\ d.state = c.state /\ d.lastack = c.lastack
      /\ d.snd_max = c.snd_max /\ d.snd_lbb = c.snd_lbb /\ d.snd_buf = c.snd_buf /\ d.qlen = c.qlen
      /\ d.written = c.written /\ d.closing = c.closing /\ SameRcv(c, d) /\ SameApp(c, d) /\ d.delay = c.delay
      /\ d.held = c.held /\ d.out = c.out
  <2>1. /\ Pcb(d) /\ d.unacked = f /\ d.unsent = z /\ d.snd_nxt = nx /\ d.state = c.state /\ d.lastack = c.lastack
    BY ONLY <1>1, <1>7 DEF Back, Pcb, Fields
  <2>2. /\ d.snd_max = c.snd_max /\ d.snd_lbb = c.snd_lbb /\ d.snd_buf = c.snd_buf /\ d.qlen = c.qlen
        /\ d.written = c.written /\ d.closing = c.closing
    BY ONLY <1>1, <1>7 DEF Back, Pcb, Fields
  <2>3. SameRcv(c, d) /\ SameApp(c, d) /\ d.delay = c.delay /\ d.held = c.held /\ d.out = c.out
    BY ONLY <1>1, <1>7 DEF Back, Pcb, Fields, SameRcv, SameApp
  <2> QED BY <2>1, <2>2, <2>3
<1>9. Snd(g, d)
  <2>1. d.qlen = QueueLen(d.unsent) + QueueLen(d.unacked)
    <3>1. c.qlen = QueueLen(c.unsent) + QueueLen(c.unacked)
      BY <1>1 DEF Snd
    <3> QED BY <1>2, <1>5, <1>6, <1>8, <3>1
  <2>2. Used(g, d) = Used(g, c)
    BY <1>8 DEF Used
  <2>3. Sending(g.e, g.C, d.written, d.closing, d.unacked, d.unsent, Pos(g.e, d.lastack), Pos(g.e, d.snd_lbb))
    BY <1>2, <1>5, <1>6, <1>8
  <2> QED BY <1>1, <1>8, <2>1, <2>2, <2>3 DEF Snd
<1>10. d.state \in Synced => Rcv(g, d)
  BY <1>8, RcvSame DEF Ok
<1>11. Heard(g, d)
  BY <1>1, <1>8, HeardSame
<1>12. Lim(g, d) = Lim(g, c) /\ Lim(g, c) \in Nat
  BY <1>8, OkFacts DEF Lim, SameRcv
<1>13. \A s \in d.out : Sends(g, d, s)
  BY <1>8, <1>12 DEF Ok, Sends
<1>14. nx \in Seqs /\ Pos(e, nx) <= w + 2
  <2>1. CASE t = <<>>
    BY <1>1, <1>2, <1>6, <2>1, StateSets DEF Life
  <2>2. CASE t # <<>>
    <3>1. 1 \in 1 .. Len(t)
      BY <1>5, <2>2
    <3>2. t[1] = a[1 + 1] /\ 1 + 1 \in 1 .. Len(a)
      BY <1>5, <3>1
    <3>3. SegOK(e, C, w, k, t[1])
      BY <1>2, <3>2, SndFacts
    <3>4. Pos(e, t[1].seq) <= w + 1 /\ t[1].seq \in Seqs /\ Pos(e, t[1].seq) \in Nat
      BY <1>3, <3>3, SegFacts
    <3> QED BY <1>3, <1>6, <2>2, <3>4
  <2> QED BY <2>1, <2>2
<1>15. c.state = "SYN_SENT" => Starting(g, d)
  <2> HAVE c.state = "SYN_SENT"
  <2>1. Starting(g, c)
    BY <1>1 DEF Life
  <2>2. f # <<>> /\ f[1] = a[1] /\ Len(f) = 1
    BY ONLY <1>5
  <2>3. \A i \in 1 .. Len(a) : ~a[i].ack
    BY <1>2, <2>1 DEF Starting
  <2>4. \A i \in 1 .. Len(f) : ~f[i].ack
    BY <1>5, <2>2, <2>3
  <2>5. \A i \in 1 .. Len(z) : ~z[i].ack
    <3> TAKE i \in 1 .. Len(z)
    <3>1. /\ Len(z) = Len(t) + Len(u) /\ (\A j \in 1 .. Len(t) : z[j] = t[j])
          /\ (\A j \in 1 .. Len(u) : z[Len(t) + j] = u[j]) /\ Len(t) \in Nat /\ Len(u) \in Nat
      BY ONLY <1>5, <1>6
    <3>2. CASE i \in 1 .. Len(t)
      BY <1>5, <2>3, <3>1, <3>2
    <3>3. CASE i \notin 1 .. Len(t)
      <4>1. i - Len(t) \in 1 .. Len(u) /\ Len(t) + (i - Len(t)) = i
        BY <3>1, <3>3
      <4>2. z[Len(t) + (i - Len(t))] = u[i - Len(t)]
        BY <3>1, <4>1
      <4> QED BY <1>2, <2>1, <4>1, <4>2 DEF Starting
    <3> QED BY <3>2, <3>3
  <2>6. a[1].syn
    BY <1>2, <2>1 DEF Starting
  <2>7. /\ d.rcv_nxt = c.rcv_nxt /\ d.gotfin = c.gotfin /\ d.ooseq = c.ooseq /\ d.pend = c.pend /\ d.got = c.got
    BY <1>8 DEF SameRcv
  <2> QED BY <1>8, <2>1, <2>2, <2>4, <2>5, <2>6, <2>7 DEF Starting
<1>16. c.state = "SYN_RCVD" => Accepting(g, d)
  BY <1>1, <1>8 DEF Life, Accepting, SameRcv
<1>17. Life(g, d)
  <2>1. d.rcv_nxt = c.rcv_nxt /\ d.gotfin = c.gotfin /\ d.attached = c.attached /\ (c.err => d.err)
    BY <1>8 DEF SameRcv, SameApp
  <2>2. d.snd_nxt \in Seqs /\ Pos(g.e, d.snd_nxt) <= d.written + 2
    BY <1>2, <1>8, <1>14
  <2> QED BY <1>1, <1>8, <1>15, <1>16, <2>1, <2>2 DEF Life
<1>18. Lim(g, c) <= Lim(g, d)
  <2>1. PICK x, y : x = Lim(g, c) /\ y = Lim(g, d)
    OBVIOUS
  <2>2. x = y /\ x \in Nat
    BY ONLY <1>12, <2>1
  <2>3. x <= y
    BY ONLY <2>2
  <2> QED BY ONLY <2>1, <2>3
<1> QED BY <1>8, <1>9, <1>10, <1>11, <1>13, <1>17, <1>18 DEF Kept, Ok, SameRcv

LEMMA RexmitOk ==
  ASSUME NEW g, NEW c, Env(g), Ok(g, c), c.state \in Active, c.unacked # <<>>,
         NEW b, b = MovedBack(c),
         NEW d, d = [RexmitSeg(b, Head(c.unacked)) EXCEPT !.cwnd = TcpMss]
  PROVE  Kept(g, c, d) /\ d.pend = c.pend
<1>1. Kept(g, c, b) /\ b.pend = c.pend /\ b.state = c.state
  BY BackOk
<1>2. Ok(g, b) /\ b.state \in Active /\ b.written = c.written /\ b.closing = c.closing
  BY <1>1 DEF Kept
<1>3. PICK x : x = Head(c.unacked)
  OBVIOUS
<1>4. SegOK(g.e, g.C, c.written, c.closing, x) /\ x.ack \in BOOLEAN /\ (c.state = "SYN_SENT" => ~x.ack)
  <2>1. c.unacked \in Seq(Segs) /\ \A i \in 1 .. Len(c.unacked) : SegOK(g.e, g.C, c.written, c.closing, c.unacked[i])
    BY SndFacts
  <2>2. x = c.unacked[1] /\ 1 \in 1 .. Len(c.unacked) /\ x \in Segs
    BY ONLY <2>1, <1>3, c.unacked # <<>>
  <2>3. c.state = "SYN_SENT" => \A i \in 1 .. Len(c.unacked) : ~c.unacked[i].ack
    BY DEF Ok, Life, Starting
  <2> QED BY <2>1, <2>2, <2>3 DEF Segs
<1>5. PICK r : r = RexmitSeg(b, x)
  OBVIOUS
<1>6. Kept(g, b, r) /\ Same(b, r)
  BY ONLY Env(g), <1>1, <1>2, <1>4, <1>5, RexmitSegOk
<1>7. Ok(g, r) /\ d = [r EXCEPT !.cwnd = TcpMss]
  BY <1>3, <1>5, <1>6 DEF Kept
<1>8. Kept(g, r, d) /\ d.state = r.state
  BY ONLY Env(g), <1>7, CwndOk
<1>9. d.pend = r.pend
  <2>1. Pcb(r)
    BY <1>7 DEF Ok
  <2> QED BY ONLY <1>7, <2>1 DEF Pcb, Fields
<1>10. Kept(g, b, d)
  BY <1>2, <1>6, <1>8, KeptTrans
<1>11. Kept(g, c, d)
  BY <1>1, <1>10, KeptTrans
<1> QED BY <1>1, <1>6, <1>9, <1>11 DEF Same, SameRcv

LEMMA ExpireOk ==
  ASSUME NEW g, NEW c, Env(g), Ok(g, c), c.state # "CLOSED",
         NEW d, d = FreedPcb(IF c.state = "TIME_WAIT" THEN c ELSE Errf(c))
  PROVE  Kept(g, c, d) /\ d.pend = <<>>
<1>1. CASE c.state = "TIME_WAIT"
  <2>1. c.closing
    BY <1>1 DEF Ok, Life, States, Open
  <2> QED BY <1>1, <2>1, FreedOk
<1>2. CASE c.state # "TIME_WAIT"
  <2>1. PICK b : b = Errf(c)
    OBVIOUS
  <2>2. Kept(g, c, b) /\ (g.e = "server" \/ b.err \/ b.closing)
    BY <2>1, ErrfOk
  <2>3. Ok(g, b) /\ d = FreedPcb(b)
    BY <1>2, <2>1, <2>2 DEF Kept
  <2>4. Kept(g, b, d) /\ d.pend = <<>>
    BY <2>2, <2>3, FreedOk
  <2> QED BY <2>2, <2>4, KeptTrans
<1> QED BY <1>1, <1>2

LEMMA DropOoseqOk ==
  ASSUME NEW g, NEW c, Env(g), Ok(g, c), c.state \in Active, c.ooseq # <<>>, NEW d, d = [c EXCEPT !.ooseq = <<>>]
  PROVE  Kept(g, c, d) /\ d.pend = c.pend
<1>1. c.state \in Synced /\ Pcb(c)
  <2>1. c.state # "SYN_SENT"
    BY DEF Ok, Life, Starting
  <2> QED BY <2>1 DEF Synced, Ok
<1>2. PICK z : z = <<>>
  OBVIOUS
<1>3. d = [c EXCEPT !.ooseq = z] /\ d.pend = c.pend /\ d.ooseq = z
  BY <1>1, <1>2 DEF Pcb, Fields
<1>4. Early(g, d, Pos(g.p, c.rcv_nxt))
  <2>1. d.ooseq \in Seq(OoSegs) /\ Len(d.ooseq) = 0
    BY <1>2, <1>3
  <2> QED BY <2>1 DEF Early
<1>5. Kept(g, c, d) /\ d.state = c.state
  BY ONLY Env(g), Ok(g, c), <1>1, <1>3, <1>4, EarlyOk
<1> QED BY <1>3, <1>5

-----------------------------------------------------------------------------
(* A connection begins *)
LEMMA OutputFirst ==
  ASSUME NEW c, Pcb(c), c.unsent \in Seq(Segs), c.unsent # <<>>, InWnd(c, c.unsent[1]), NEW d, d = Output(c)
  PROVE  \E r, sent : Outputs(c, d, r, sent)
<1>1. PICK at : at = {i \in DOMAIN c.unsent : InWnd(c, c.unsent[i])}
  OBVIOUS
<1>2. PICK r : r = Lead(c.unsent, at)
  OBVIOUS
<1>3. Len(c.unsent) \in Nat /\ Len(c.unsent) >= 1 /\ 1 \in DOMAIN c.unsent
  OBVIOUS
<1>4. 1 \in at
  BY <1>1, <1>3
<1>5. r \in 0 .. Len(c.unsent) /\ (r < Len(c.unsent) => r + 1 \notin at)
  BY ONLY c.unsent \in Seq(Segs), <1>2, LeadIs
<1>6. r # 0 /\ r \in Nat
  <2>1. r = 0 => 1 \notin at
    BY ONLY <1>3, <1>5
  <2> QED BY ONLY <1>3, <1>4, <1>5, <2>1
<1>7. d.unsent = Tail1(c.unsent, r)
  <2>1. \E ua, nx, mx, dl, oo : d = [c EXCEPT !.unsent = Tail1(@, r), !.unacked = ua, !.snd_nxt = nx,
                                              !.snd_max = mx, !.delay = dl, !.out = oo]
    BY <1>1, <1>2, <1>6 DEF Output
  <2>2. PICK ua, nx, mx, dl, oo : d = [c EXCEPT !.unsent = Tail1(@, r), !.unacked = ua, !.snd_nxt = nx,
                                              !.snd_max = mx, !.delay = dl, !.out = oo]
    BY <2>1
  <2> QED BY ONLY Pcb(c), <2>2 DEF Pcb, Fields
<1>8. Len(d.unsent) = Len(c.unsent) - r
  <2>1. Len(Tail1(c.unsent, r)) = Len(c.unsent) - r
    BY ONLY c.unsent \in Seq(Segs), <1>5, SplitIs
  <2> QED BY <1>7, <2>1
<1>9. d # c
  BY ONLY <1>3, <1>6, <1>8
<1>10. d = c \/ \E n, sent : Outputs(c, d, n, sent)
  BY ONLY Pcb(c), c.unsent \in Seq(Segs), d = Output(c), OutputIs
<1> QED BY ONLY <1>9, <1>10

(* A pcb that is set up, before its SYN is queued *)
Begins(e, c) ==
  /\ Pcb(c) /\ c.lastack = Base(e) /\ c.snd_lbb = Base(e) /\ c.snd_max = Iss[e] /\ c.snd_nxt = Iss[e]
  /\ c.snd_buf = TcpSndBuf /\ c.qlen = 0 /\ c.unsent = <<>> /\ c.unacked = <<>> /\ c.ooseq = <<>>
  /\ c.pend = <<>> /\ c.out = {} /\ c.got = <<>> /\ c.held = 0 /\ c.eof = FALSE /\ c.written = 0
  /\ c.closing = FALSE /\ c.delay = FALSE /\ c.gotfin = FALSE

(* Its SYN, queued *)
Syn(e, x) ==
  /\ x \in Segs /\ x.syn = TRUE /\ x.fin = FALSE /\ x.data = <<>> /\ x.n = 1 /\ x.seq = Base(e)

Synning(e, c, x, q) ==
  /\ Pcb(q) /\ Rest(c, q) /\ q.unsent = <<x>> /\ q.snd_lbb = Plus(Base(e), 1)
  /\ q.snd_buf = (TcpSndBuf - 1) % BufMod /\ q.qlen = 1 /\ q.state = c.state /\ q.attached = c.attached
  /\ q.held = c.held /\ q.written = c.written /\ q.closing = c.closing
  /\ q.snd_wnd = c.snd_wnd /\ q.cwnd = c.cwnd

LEMMA SynFacts ==
  ASSUME OneShortConnection, NEW e \in Ends, NEW x, Syn(e, x), NEW k \in BOOLEAN, NEW D, D = {0}
  PROVE  /\ Writes(e, D, 0, k) /\ SegOK(e, D, 0, k, x) /\ Queue(e, D, 0, k, <<x>>, 0, 1)
         /\ QueueLen(<<x>>) = 1 /\ EndPos(e, x) = 1 /\ Pos(e, x.seq) = 0 /\ TcpLen(x) = 1
         /\ SegEnd(x) \in Seqs /\ Pos(e, SegEnd(x)) = 1
         /\ Plus(Base(e), 1) \in Seqs /\ Pos(e, Plus(Base(e), 1)) = 1
         /\ Base(e) \in Seqs /\ Pos(e, Base(e)) = 0
<1>1. MaxBytes[e] \in Nat /\ SeqSpace \in Nat /\ SeqSpace > 2
  BY TcpConsts DEF OneShortConnection
<1>2. Writes(e, D, 0, k)
  BY <1>1 DEF Writes
<1>3. Base(e) \in Seqs /\ Pos(e, Base(e)) = 0
  BY BaseType, BaseIs
<1>4. x.seq \in Seqs /\ x.data = <<>> /\ x.data \in Seq(Nat) /\ Len(x.data) = 0 /\ x.syn = TRUE /\ x.fin = FALSE /\ x.n = 1
      /\ Pos(e, x.seq) = 0 /\ x \in Segs
  BY <1>3 DEF Syn
<1>5. TcpLen(x) = 1 /\ EndPos(e, x) = 1
  BY <1>4 DEF TcpLen, EndPos
<1>6. SegOK(e, D, 0, k, x)
  <2>1. x.syn \in BOOLEAN /\ x.fin \in BOOLEAN
    BY <1>4 DEF Segs
  <2>2. Pos(e, x.seq) \in D /\ (\A a \in D : a <= Pos(e, x.seq) \/ a >= EndPos(e, x)) /\ Pos(e, x.seq) + Len(x.data) <= 0 + 1
    BY <1>4, <1>5
  <2>3. \A i \in 1 .. Len(x.data) : x.data[i] = Pos(e, x.seq) - 1 + i
    BY <1>4
  <2> QED BY ONLY <1>4, <2>1, <2>2, <2>3 DEF SegOK
<1>7. Queue(e, D, 0, k, <<x>>, Pos(e, x.seq), EndPos(e, x))
  BY ONLY <1>2, <1>4, <1>6, QueueOne
<1>8. QueueLen(<<x>>) = 1
  BY <1>4, QueueLenOne
<1>9. SegEnd(x) \in Seqs /\ Pos(e, SegEnd(x)) = 1
  BY <1>2, <1>5, <1>6, SegFacts
<1>10. Plus(Base(e), 1) \in Seqs /\ Pos(e, Plus(Base(e), 1)) = 1
  <2>1. PICK n : n = 1
    OBVIOUS
  <2>2. Plus(Base(e), n) \in Seqs /\ Pos(e, Plus(Base(e), n)) = Pos(e, Base(e)) + n
    BY <1>1, <1>3, <2>1, PosPlus
  <2> QED BY <1>3, <2>1, <2>2
<1> QED BY <1>2, <1>3, <1>4, <1>5, <1>6, <1>7, <1>8, <1>9, <1>10

LEMMA SynQueued ==
  ASSUME OneShortConnection, NEW e \in Ends, NEW c, Begins(e, c), NEW ack \in BOOLEAN, NEW q,
         q = TcpEnqueue(c, <<>>, TRUE, FALSE, ack)
  PROVE  \E x : Syn(e, x) /\ x.ack = ack /\ Synning(e, c, x, q)
<1>1. PICK t, f, z : t = TRUE /\ f = FALSE /\ z = <<>>
  OBVIOUS
<1>2. PICK x : x = NewSeg(c, z, t, f, ack)
  OBVIOUS
<1>3. Pcb(c) /\ c.unsent \in Seq(Segs) /\ c.unsent = <<>> /\ c.snd_lbb = Base(e) /\ Base(e) \in Seqs
  BY BaseType DEF Begins
<1>4. /\ x \in Segs /\ x.seq = c.snd_lbb /\ x.data = z /\ x.syn = t /\ x.fin = f /\ x.ack = ack /\ x.n = 1
  <2>1. t \in BOOLEAN /\ f \in BOOLEAN
    BY ONLY <1>1, Zenon
  <2>2. z \in Seq(Nat) /\ c.snd_lbb \in Seqs
    BY ONLY <1>1, <1>3
  <2> QED BY ONLY <1>2, <2>1, <2>2, ack \in BOOLEAN, NewSegIs
<1>5. Syn(e, x)
  BY ONLY <1>1, <1>3, <1>4 DEF Syn
<1>6. TcpLen(x) = 1
  BY <1>5, SynFacts
<1>7. q = TcpEnqueue(c, z, t, f, ack)
  BY <1>1
<1>8. PICK u : /\ Placed(c, z, t, f, x, u)
               /\ q = Enqueues(c, u, Plus(c.snd_lbb, TcpLen(x)), (c.snd_buf - TcpLen(x)) % BufMod, c.qlen + 1)
  <2>1. Pcb(c) /\ c.unsent \in Seq(Segs)
    BY <1>3
  <2> QED BY ONLY <1>2, <1>7, <2>1, EnqueueIs
<1>9. u = <<x>>
  <2>1. u = Append(c.unsent, x)
    BY ONLY <1>3, <1>8 DEF Placed
  <2> QED BY ONLY <1>3, <2>1
<1>10. PICK lb, sb, ql : lb = Plus(Base(e), 1) /\ sb = (TcpSndBuf - 1) % BufMod /\ ql = 1
  OBVIOUS
<1>11. q = [c EXCEPT !.unsent = u, !.snd_lbb = lb, !.snd_buf = sb, !.qlen = ql]
  <2>1. lb = Plus(c.snd_lbb, TcpLen(x)) /\ sb = (c.snd_buf - TcpLen(x)) % BufMod /\ ql = c.qlen + 1
    BY <1>6, <1>10 DEF Begins
  <2> QED BY ONLY <1>8, <2>1 DEF Enqueues
<1>12. /\ Pcb(q) /\ q.unsent = u /\ q.snd_lbb = lb /\ q.snd_buf = sb /\ q.qlen = ql /\ q.state = c.state
       /\ q.attached = c.attached /\ q.held = c.held
  BY ONLY <1>3, <1>11 DEF Pcb, Fields
<1>13. /\ q.written = c.written /\ q.closing = c.closing /\ q.snd_wnd = c.snd_wnd /\ q.cwnd = c.cwnd
  BY ONLY <1>3, <1>11 DEF Pcb, Fields
<1>14. Rest(c, q)
  BY ONLY <1>3, <1>11 DEF Pcb, Fields, Rest
<1>15. Synning(e, c, x, q)
  BY ONLY <1>9, <1>10, <1>12, <1>13, <1>14 DEF Synning
<1> QED BY <1>4, <1>5, <1>15

(* The buffer that the SYN takes a byte of *)
LEMMA SynBuf ==
  /\ (((TcpSndBuf - 1) % BufMod) + 1) % BufMod = TcpSndBuf
  /\ (TcpSndBuf - 1) % BufMod \in Int
<1>1. TcpSndBuf \in Nat /\ TcpSndBuf >= 1 /\ BufMod \in Nat /\ BufMod > TcpSndBuf
  BY TcpConsts
<1>2. (TcpSndBuf - 1) % BufMod = TcpSndBuf - 1
  <2>1. PICK m, r, p : m = BufMod /\ r = TcpSndBuf - 1 /\ p = 0
    OBVIOUS
  <2>2. (m * p + r) % m = r
    BY <1>1, <2>1, ModIs
  <2>3. m * p + r = r
    BY ONLY <1>1, <2>1
  <2> QED BY <2>1, <2>2, <2>3
<1>3. TcpSndBuf % BufMod = TcpSndBuf
  <2>1. PICK m, r, p : m = BufMod /\ r = TcpSndBuf /\ p = 0
    OBVIOUS
  <2>2. (m * p + r) % m = r
    BY <1>1, <2>1, ModIs
  <2>3. m * p + r = r
    BY ONLY <1>1, <2>1
  <2> QED BY <2>1, <2>2, <2>3
<1>4. (TcpSndBuf - 1) + 1 = TcpSndBuf /\ TcpSndBuf - 1 \in Int
  BY ONLY <1>1
<1> QED BY ONLY <1>2, <1>3, <1>4

-----------------------------------------------------------------------------
(* What a step makes of an end: l is what the end may have acknowledged before. *)
Moves(g, c, l, D, d) ==
  /\ D \in SUBSET Nat /\ D # {} /\ Growth(g.C, c.written, c.closing, D, d.written, d.closing)
  /\ Ok(With(g, D), d) /\ l <= Lim(With(g, D), d) /\ d.pend = <<>>

LEMMA GrownMoves ==
  ASSUME NEW g, NEW c, NEW D, NEW d, Grown(g, c, D, d), d.pend = <<>>, NEW l, l = Lim(g, c)
  PROVE  Moves(g, c, l, D, d)
BY DEF Grown, Moves

(* tcp_connect *)
Asking(i) ==
  [TcpNew(Iss["client"]) EXCEPT !.lastack = i, !.snd_lbb = i, !.snd_wnd = TcpWnd,
                                !.state = "SYN_SENT", !.attached = TRUE]

NewPcb(iss, c) ==
  /\ Pcb(c) /\ c.state = "CLOSED" /\ c.written = 0 /\ c.closing = FALSE /\ c.attached = FALSE
  /\ c.got = <<>> /\ c.eof = FALSE /\ c.err = FALSE /\ c.pend = <<>> /\ c.out = {} /\ c.rcv_nxt = 0
  /\ c.lastack = iss /\ c.snd_lbb = iss /\ c.snd_max = iss /\ c.snd_nxt = iss
  /\ c.snd_buf = TcpSndBuf /\ c.qlen = 0 /\ c.unsent = <<>> /\ c.unacked = <<>> /\ c.ooseq = <<>>
  /\ c.held = 0 /\ c.delay = FALSE /\ c.gotfin = FALSE /\ c.cwnd = 1

LEMMA TcpNewIs ==
  ASSUME NEW iss, NEW c, c = TcpNew(iss)
  PROVE  NewPcb(iss, c)
<1>1. Pcb(c)
  BY DEF TcpNew, Pcb, Fields
<1>2. /\ c.state = "CLOSED" /\ c.written = 0 /\ c.closing = FALSE /\ c.attached = FALSE
      /\ c.got = <<>> /\ c.eof = FALSE /\ c.err = FALSE /\ c.pend = <<>> /\ c.out = {} /\ c.rcv_nxt = 0
  BY DEF TcpNew
<1>3. /\ c.lastack = iss /\ c.snd_lbb = iss /\ c.snd_max = iss /\ c.snd_nxt = iss
      /\ c.snd_buf = TcpSndBuf /\ c.qlen = 0 /\ c.unsent = <<>> /\ c.unacked = <<>> /\ c.ooseq = <<>>
  BY DEF TcpNew
<1>4. c.held = 0 /\ c.delay = FALSE /\ c.gotfin = FALSE /\ c.cwnd = 1
  BY DEF TcpNew
<1> QED BY ONLY <1>1, <1>2, <1>3, <1>4 DEF NewPcb

LEMMA AskingIs ==
  ASSUME NEW c, c = Asking(Base("client"))
  PROVE  Begins("client", c) /\ c.state = "SYN_SENT" /\ c.attached = TRUE /\ c.snd_wnd = TcpWnd /\ c.cwnd = 1
         /\ c.rcv_nxt = 0
<1>1. PICK b, i, w, t : b = TcpNew(Iss["client"]) /\ i = Base("client") /\ w = TcpWnd /\ t = TRUE
  OBVIOUS
<1>2. /\ Pcb(b) /\ b.written = 0 /\ b.closing = FALSE
      /\ b.got = <<>> /\ b.eof = FALSE /\ b.pend = <<>> /\ b.out = {} /\ b.rcv_nxt = 0
      /\ b.snd_max = Iss["client"] /\ b.snd_nxt = Iss["client"]
      /\ b.snd_buf = TcpSndBuf /\ b.qlen = 0 /\ b.unsent = <<>> /\ b.unacked = <<>> /\ b.ooseq = <<>>
      /\ b.held = 0 /\ b.delay = FALSE /\ b.gotfin = FALSE /\ b.cwnd = 1
  <2>1. PICK iss : iss = Iss["client"]
    OBVIOUS
  <2>2. b = TcpNew(iss)
    BY ONLY <1>1, <2>1
  <2>3. NewPcb(iss, b)
    BY ONLY <2>2, TcpNewIs
  <2> QED BY ONLY <2>1, <2>3 DEF NewPcb
<1>3. c = [b EXCEPT !.lastack = i, !.snd_lbb = i, !.snd_wnd = w, !.state = "SYN_SENT", !.attached = t]
  BY <1>1 DEF Asking
<1>4. Pcb(b)
  BY <1>2
<1>5. Pcb(c) /\ c.lastack = i /\ c.snd_lbb = i /\ c.snd_wnd = w /\ c.state = "SYN_SENT" /\ c.attached = t
      /\ c.written = b.written /\ c.closing = b.closing
  BY ONLY <1>3, <1>4 DEF Pcb, Fields
<1>6. /\ c.got = b.got /\ c.eof = b.eof /\ c.pend = b.pend /\ c.out = b.out /\ c.rcv_nxt = b.rcv_nxt
      /\ c.snd_max = b.snd_max /\ c.snd_nxt = b.snd_nxt
  BY ONLY <1>3, <1>4 DEF Pcb, Fields
<1>7. /\ c.snd_buf = b.snd_buf /\ c.qlen = b.qlen /\ c.unsent = b.unsent /\ c.unacked = b.unacked /\ c.ooseq = b.ooseq
      /\ c.held = b.held /\ c.delay = b.delay /\ c.gotfin = b.gotfin /\ c.cwnd = b.cwnd
  BY ONLY <1>3, <1>4 DEF Pcb, Fields
<1> QED BY ONLY <1>1, <1>2, <1>5, <1>6, <1>7 DEF Begins

(* The SYN fits the window. *)
LEMMA SynFits ==
  ASSUME NEW q, NEW e \in Ends, NEW x, Syn(e, x), q.lastack = Base(e), q.snd_wnd = TcpWnd, q.cwnd = 1
  PROVE  InWnd(q, x)
<1>1. TcpWnd \in Nat /\ TcpWnd >= 1 /\ SeqSpace \in Nat /\ SeqSpace >= 1
  BY TcpConsts
<1>2. EffWnd(q) >= 0
  <2>1. PICK S : S = {TcpWnd, 1}
    OBVIOUS
  <2>2. \E m \in S : \A y \in S : m <= y
    BY <1>1, <2>1
  <2>3. Min(S) \in S
    BY <2>2 DEF Min
  <2> QED BY <1>1, <2>1, <2>3 DEF EffWnd
<1>3. Diff(x.seq, q.lastack) = 0
  <2>1. Base(e) \in Seqs /\ x.seq = Base(e)
    BY BaseType DEF Syn
  <2> QED BY <2>1, DiffIs DEF Seqs
<1>4. Len(x.data) = 0
  BY DEF Syn
<1>5. (0 + 0) % SeqSpace = 0
  <2>1. PICK m, r, p : m = SeqSpace /\ r = 0 /\ p = 0
    OBVIOUS
  <2>2. (m * p + r) % m = r
    BY <1>1, <2>1, ModIs
  <2>3. m * p + r = 0 + 0
    BY ONLY <1>1, <2>1
  <2> QED BY <2>1, <2>2, <2>3
<1> QED BY <1>2, <1>3, <1>4, <1>5 DEF InWnd

(* The client's pcb after tcp_connect *)
Asks(x, y, d) ==
  /\ Syn("client", x) /\ Syn("client", y) /\ y.ack = FALSE
  /\ Pcb(d) /\ d.state = "SYN_SENT" /\ d.attached = TRUE /\ d.unsent = <<>> /\ d.unacked = <<y>>
  /\ d.lastack = Base("client") /\ d.snd_lbb = Plus(Base("client"), 1)
  /\ d.snd_buf = (TcpSndBuf - 1) % BufMod /\ d.qlen = 1 /\ d.snd_nxt = SegEnd(y)
  /\ d.snd_max \in {SegEnd(y), Iss["client"]}
  /\ d.delay = FALSE /\ d.held = 0 /\ d.written = 0 /\ d.closing = FALSE /\ d.rcv_nxt = 0
  /\ d.gotfin = FALSE /\ d.ooseq = <<>> /\ d.pend = <<>> /\ d.got = <<>> /\ d.eof = FALSE
  /\ \A s \in d.out : \E q, w : s = Wire(q, y, w) /\ q.rcv_nxt = 0

LEMMA AsksIs ==
  ASSUME OneShortConnection, NEW c, c = Asking(Base("client")), NEW q, q = TcpEnqueue(c, <<>>, TRUE, FALSE, FALSE),
         NEW d, d = Output(q)
  PROVE  \E x, y : Asks(x, y, d)
<1>0. "client" \in Ends
  BY DEF Ends
<1>1. Begins("client", c) /\ c.state = "SYN_SENT" /\ c.attached = TRUE /\ c.snd_wnd = TcpWnd /\ c.cwnd = 1
      /\ c.rcv_nxt = 0
  BY AskingIs
<1>2. PICK x : Syn("client", x) /\ x.ack = FALSE /\ Synning("client", c, x, q)
  <2>1. PICK f : f = FALSE
    OBVIOUS
  <2>2. f \in BOOLEAN
    BY ONLY <2>1, Zenon
  <2>3. q = TcpEnqueue(c, <<>>, TRUE, FALSE, f)
    BY <2>1
  <2>4. \E x : Syn("client", x) /\ x.ack = f /\ Synning("client", c, x, q)
    BY ONLY OneShortConnection, <1>0, <1>1, <2>2, <2>3, SynQueued
  <2> QED BY <2>1, <2>4
<1>3. Pcb(q) /\ q.unsent = <<x>> /\ x \in Segs /\ q.state = "SYN_SENT" /\ q.attached = TRUE
      /\ q.snd_wnd = TcpWnd /\ q.cwnd = 1 /\ q.lastack = Base("client")
  BY <1>1, <1>2 DEF Synning, Rest, Begins, Syn
<1>4. q.unsent \in Seq(Segs) /\ q.unsent # <<>> /\ q.unsent[1] = x /\ Len(q.unsent) = 1
  BY ONLY <1>3
<1>5. InWnd(q, q.unsent[1])
  BY <1>0, <1>2, <1>3, <1>4, SynFits
<1>6. PICK r, sent : Outputs(q, d, r, sent)
  BY ONLY <1>3, <1>4, <1>5, d = Output(q), OutputFirst
<1>7. r = 1 /\ sent \in Seq(Segs) /\ Len(sent) = 1 /\ sent[1] = Resent(q, x)
  BY ONLY <1>4, <1>6 DEF Outputs
<1>8. PICK y : y = Resent(q, x)
  OBVIOUS
<1>9. /\ y \in Segs /\ y.seq = x.seq /\ y.data = x.data /\ y.syn = x.syn /\ y.fin = x.fin
      /\ y.n = x.n /\ y.ack = (x.ack \/ q.state # "SYN_SENT")
  BY ONLY <1>3, <1>8, ResentIs
<1>10. Syn("client", y) /\ y.ack = FALSE
  BY ONLY <1>2, <1>3, <1>9 DEF Syn
<1>11. sent = <<y>>
  BY ONLY <1>7, <1>8
<1>12. d.unsent = <<>>
  <2>1. d.unsent = Tail1(q.unsent, 1)
    BY ONLY <1>6, <1>7 DEF Outputs
  <2>2. PICK k : k = 1
    OBVIOUS
  <2>3. Tail1(q.unsent, k) \in Seq(Segs) /\ Len(Tail1(q.unsent, k)) = Len(q.unsent) - k
    BY ONLY <1>4, <2>2, SplitIs
  <2>4. Tail1(q.unsent, 1) \in Seq(Segs) /\ Len(Tail1(q.unsent, 1)) = 0
    BY ONLY <1>4, <2>2, <2>3
  <2> QED BY ONLY <2>1, <2>4, NoLength
<1>13. q.unacked = <<>> /\ q.rcv_nxt = 0 /\ q.delay = FALSE /\ q.out = {} /\ q.snd_max = Iss["client"]
       /\ q.got = <<>> /\ q.eof = FALSE /\ q.pend = <<>> /\ q.gotfin = FALSE /\ q.ooseq = <<>>
  BY ONLY <1>1, <1>2 DEF Begins, Synning, Rest
<1>14. q.written = 0 /\ q.closing = FALSE /\ q.held = 0 /\ q.snd_lbb = Plus(Base("client"), 1)
       /\ q.snd_buf = (TcpSndBuf - 1) % BufMod /\ q.qlen = 1
  BY ONLY <1>1, <1>2 DEF Begins, Synning
<1>15. d.unacked = <<y>>
  <2>1. d.unacked = <<>> \o <<y>>
    BY ONLY <1>6, <1>11, <1>13 DEF Outputs
  <2> QED BY ONLY <2>1, <1>9
<1>16. Pcb(d) /\ d.state = "SYN_SENT" /\ d.attached = TRUE /\ d.lastack = Base("client")
       /\ d.snd_lbb = Plus(Base("client"), 1) /\ d.snd_buf = (TcpSndBuf - 1) % BufMod /\ d.qlen = 1
       /\ d.held = 0 /\ d.written = 0 /\ d.closing = FALSE
  BY ONLY <1>3, <1>6, <1>14 DEF Outputs, SameRcv
<1>17. d.rcv_nxt = 0 /\ d.gotfin = FALSE /\ d.ooseq = <<>> /\ d.pend = <<>> /\ d.got = <<>> /\ d.eof = FALSE
  BY ONLY <1>6, <1>13 DEF Outputs, SameRcv, SameApp
<1>18. sent[r] = y /\ sent[1] = y
  BY ONLY <1>7, <1>8
<1>19. d.snd_nxt = SegEnd(y) /\ d.snd_max \in {SegEnd(y), Iss["client"]} /\ d.delay = FALSE
  BY ONLY <1>6, <1>13, <1>18 DEF Outputs
<1>20. \A s \in d.out : \E b, w : s = Wire(b, y, w) /\ b.rcv_nxt = 0
  <2>1. PICK w : d.out = q.out \cup {Wire(q, sent[i], w) : i \in 1 .. r}
    BY ONLY <1>6 DEF Outputs
  <2> TAKE s \in d.out
  <2>2. PICK i \in 1 .. r : s = Wire(q, sent[i], w)
    BY ONLY <1>13, <2>1, s \in d.out
  <2>3. i = 1
    BY ONLY <1>7, <2>2
  <2> QED BY ONLY <1>13, <1>18, <2>2, <2>3
<1>21. Asks(x, y, d)
  BY ONLY <1>2, <1>10, <1>12, <1>15, <1>16, <1>17, <1>19, <1>20 DEF Asks
<1> QED BY ONLY <1>21

-----------------------------------------------------------------------------
(* Nothing is received, and nothing was written. *)
LEMMA SynSends ==
  ASSUME OneShortConnection, NEW e \in Ends, NEW x, Syn(e, x), NEW k, k = FALSE, NEW D, D = {0}, NEW z, z = <<>>,
         NEW o, o = <<x>>
  PROVE  Sending(e, D, 0, k, o, z, 0, 1) /\ Sending(e, D, 0, k, z, o, 0, 1) /\ QueueLen(z) = 0 /\ QueueLen(o) = 1
<1>1. k \in BOOLEAN
  BY ONLY k = FALSE, Zenon
<1>2. /\ Queue(e, D, 0, k, <<x>>, 0, 1) /\ QueueLen(<<x>>) = 1 /\ EndPos(e, x) = 1
  BY ONLY OneShortConnection, e \in Ends, Syn(e, x), <1>1, D = {0}, SynFacts
<1>3. Queue(e, D, 0, k, o, 0, 1) /\ QueueLen(o) = 1 /\ Len(o) = 1 /\ o[1] = x
  BY <1>2
<1>4. Queue(e, D, 0, k, z, 0, 0) /\ Queue(e, D, 0, k, z, 1, 1)
  BY QueueNone
<1>5. QueueLen(z) = 0 /\ Len(z) = 0
  BY QueueLenNone
<1>6. \A i \in 1 .. Len(o) : 0 < EndPos(e, o[i])
  BY <1>2, <1>3
<1>7. \A i \in 1 .. Len(z) : 0 < EndPos(e, z[i])
  BY <1>5
<1> QED BY ONLY <1>3, <1>4, <1>5, <1>6, <1>7 DEF Sending

LEMMA BeginHeard ==
  ASSUME NEW g, Env(g), NEW d, d.got = <<>>, d.eof = FALSE
  PROVE  Heard(g, d)
<1>1. d.got \in Seq(Nat) /\ Len(d.got) = 0 /\ g.w \in Nat
  BY EnvFacts
<1> QED BY <1>1 DEF Heard

LEMMA AsksOk ==
  ASSUME NEW g, Env(g), g.e = "client", g.C = {0}, g.lp <= 2, NEW x, NEW y, NEW d, Asks(x, y, d)
  PROVE  Ok(g, d)
<1>1. g.e = "client" /\ g.e \in Ends /\ g.w \in Nat /\ g.lp \in Nat /\ OneShortConnection /\ g.C = {0}
  BY EnvFacts DEF Env
<1>2. Syn(g.e, y) /\ y.ack = FALSE
  BY <1>1 DEF Asks
<1>3. /\ Pcb(d) /\ d.state = "SYN_SENT" /\ d.attached = TRUE /\ d.unsent = <<>> /\ d.unacked = <<y>>
      /\ d.lastack = Base(g.e) /\ d.snd_lbb = Plus(Base(g.e), 1)
      /\ d.snd_buf = (TcpSndBuf - 1) % BufMod /\ d.qlen = 1 /\ d.snd_nxt = SegEnd(y)
      /\ d.snd_max \in {SegEnd(y), Iss["client"]}
  BY ONLY <1>1, Asks(x, y, d) DEF Asks
<1>4. /\ d.delay = FALSE /\ d.held = 0 /\ d.written = 0 /\ d.closing = FALSE /\ d.rcv_nxt = 0
      /\ d.gotfin = FALSE /\ d.ooseq = <<>> /\ d.pend = <<>> /\ d.got = <<>> /\ d.eof = FALSE
  BY ONLY Asks(x, y, d) DEF Asks
<1>5. d.closing \in BOOLEAN /\ d.delay \in BOOLEAN /\ d.gotfin \in BOOLEAN /\ d.attached \in BOOLEAN
  BY ONLY <1>3, <1>4, Zenon
<1>6. /\ Writes(g.e, g.C, 0, d.closing) /\ SegOK(g.e, g.C, 0, d.closing, y)
      /\ SegEnd(y) \in Seqs /\ Pos(g.e, SegEnd(y)) = 1
      /\ Plus(Base(g.e), 1) \in Seqs /\ Pos(g.e, Plus(Base(g.e), 1)) = 1
      /\ Base(g.e) \in Seqs /\ Pos(g.e, Base(g.e)) = 0 /\ Pos(g.e, y.seq) = 0
  BY ONLY <1>1, <1>2, <1>5, SynFacts
<1>7. Sending(g.e, g.C, 0, d.closing, d.unacked, d.unsent, 0, 1)
      /\ QueueLen(d.unsent) = 0 /\ QueueLen(d.unacked) = 1
  <2>1. PICK e, D, k, z, o : e = g.e /\ D = g.C /\ k = d.closing /\ z = d.unsent /\ o = d.unacked
    OBVIOUS
  <2>2. e \in Ends /\ Syn(e, y) /\ k = FALSE /\ D = {0} /\ z = <<>> /\ o = <<y>> /\ OneShortConnection
    BY ONLY <1>1, <1>2, <1>3, <1>4, <2>1
  <2>3. Sending(e, D, 0, k, o, z, 0, 1) /\ QueueLen(z) = 0 /\ QueueLen(o) = 1
    BY ONLY <2>2, SynSends
  <2> QED BY ONLY <2>1, <2>3
<1>8. d.snd_max \in Seqs /\ Pos(g.e, d.snd_max) = 1
  <2>1. Iss["client"] \in Seqs
    BY TcpConsts DEF Ends
  <2>2. SeqSpace # 1
    BY <1>1, EnvFacts
  <2>3. Pos(g.e, Iss["client"]) = 1
    BY <1>1, <2>2, BaseIs
  <2> QED BY <1>3, <1>6, <2>1, <2>3
<1>9. Snd(g, d)
  <2>1. (d.snd_buf + (1 - 0)) % BufMod = TcpSndBuf - Used(g, d) /\ d.snd_buf \in Int
    <3>1. Used(g, d) = 0
      BY <1>3 DEF Used
    <3>2. (d.snd_buf + 1) % BufMod = TcpSndBuf /\ d.snd_buf \in Int /\ TcpSndBuf \in Nat
      BY <1>3, SynBuf, TcpConsts
    <3>3. 1 - 0 = 1 /\ TcpSndBuf - 0 = TcpSndBuf
      BY ONLY <3>2
    <3> QED BY ONLY <3>1, <3>2, <3>3
  <2>2. "SYN_SENT" \in Open
    BY DEF Open
  <2>3. Pos(g.e, d.lastack) = 0 /\ Pos(g.e, d.snd_lbb) = 1 /\ d.lastack \in Seqs /\ d.snd_lbb \in Seqs
    BY <1>3, <1>6
  <2>4. \A a \in g.C : a < 1
    BY <1>1
  <2>5. d.qlen = QueueLen(d.unsent) + QueueLen(d.unacked)
    BY <1>3, <1>7
  <2>6. Pos(g.e, d.snd_lbb) = d.written + IF d.state \in Open THEN 1 ELSE 2
    BY <1>3, <1>4, <2>2, <2>3
  <2>7. Pos(g.e, d.lastack) <= g.lp
    BY <1>1, <2>3
  <2>8. Sending(g.e, g.C, d.written, d.closing, d.unacked, d.unsent, Pos(g.e, d.lastack), Pos(g.e, d.snd_lbb))
    BY <1>4, <1>7, <2>3
  <2>9. (d.snd_buf + (Pos(g.e, d.snd_lbb) - Pos(g.e, d.lastack))) % BufMod = TcpSndBuf - Used(g, d)
    BY <2>1, <2>3
  <2>10. Pos(g.e, d.lastack) <= Pos(g.e, d.snd_max) /\ Pos(g.e, d.snd_max) <= Pos(g.e, d.snd_lbb)
         /\ \A a \in g.C : a < Pos(g.e, d.snd_lbb)
    BY <1>8, <2>3, <2>4
  <2> QED BY ONLY <1>8, <2>1, <2>3, <2>5, <2>6, <2>7, <2>8, <2>9, <2>10 DEF Snd
<1>10. Starting(g, d)
  <2>1. d.unacked # <<>> /\ d.unacked[1] = y /\ Len(d.unacked) = 1 /\ Len(d.unsent) = 0 /\ y.syn = TRUE
    BY <1>2, <1>3 DEF Syn
  <2>2. Pos(g.e, d.lastack) = 0 /\ Pos(g.e, d.snd_max) >= 1
    BY <1>3, <1>6, <1>8
  <2>3. (\A i \in 1 .. Len(d.unsent) : ~d.unsent[i].ack) /\ \A i \in 1 .. Len(d.unacked) : ~d.unacked[i].ack
    BY <1>2, <2>1
  <2> QED BY <1>1, <1>4, <2>1, <2>2, <2>3 DEF Starting
<1>11. Life(g, d)
  <2>1. d.state \in States /\ d.state \in Open /\ d.state \notin {"CLOSED", "SYN_RCVD"} /\ d.state = "SYN_SENT"
        /\ d.state \notin States \ ({"CLOSED"} \cup Open)
    BY <1>3 DEF States, Open
  <2>2. d.written \in 0 .. MaxBytes[g.e] /\ g.lp <= d.written + 2
    <3>1. MaxBytes[g.e] \in Nat
      BY <1>1, TcpConsts
    <3> QED BY <1>1, <1>4, <3>1
  <2>3. d.snd_nxt \in Seqs /\ Pos(g.e, d.snd_nxt) <= d.written + 2 /\ d.rcv_nxt \in Seqs
    <3>1. 0 \in Seqs
      BY TcpConsts DEF Seqs
    <3> QED BY <1>3, <1>4, <1>6, <3>1
  <2>4. ~d.closing /\ (d.attached <=> d.state # "SYN_RCVD")
    BY <1>3, <1>4
  <2> QED BY ONLY <1>5, <1>10, <2>1, <2>2, <2>3, <2>4 DEF Life
<1>12. Heard(g, d)
  BY <1>4, BeginHeard
<1>13. ASSUME NEW s \in d.out PROVE Sends(g, d, s)
  <2>1. PICK q, w : s = Wire(q, y, w) /\ q.rcv_nxt = 0
    BY <1>13 DEF Asks
  <2>2. s.seq = y.seq /\ s.data = y.data /\ s.syn = y.syn /\ s.fin = y.fin /\ s.rst = FALSE /\ s.ack = FALSE
        /\ s.ackno = 0 /\ WireRec(s)
    BY <1>2, <2>1 DEF Wire, WireRec
  <2>3. SegOK(g.e, g.C, 0, d.closing, s)
    BY <1>6, <2>2, SegLike
  <2>4. s.seq \in Seqs /\ s.data \in Seq(Nat) /\ s.syn \in BOOLEAN /\ s.fin \in BOOLEAN
    BY <2>3 DEF SegOK
  <2>5. s.rst \in BOOLEAN /\ s.ack \in BOOLEAN
    BY ONLY <2>2, Zenon
  <2>6. s.ackno \in Seqs
    BY <2>2, TcpConsts DEF Seqs
  <2>7. SegOK(g.e, g.C, d.written, d.closing, s)
    BY <1>4, <2>3
  <2> QED BY ONLY <2>2, <2>4, <2>5, <2>6, <2>7 DEF Sends, WireOK
<1>14. d.state \notin Synced
  BY <1>3, StateSets
<1> QED BY ONLY <1>3, <1>9, <1>11, <1>12, <1>13, <1>14 DEF Ok

LEMMA ConnectOk ==
  ASSUME NEW g, Env(g), g.e = "client", g.C = {}, g.lp <= 2, NEW i, i = Plus(Iss["client"], SeqSpace - 1),
         NEW n, n = TcpNew(Iss["client"]), NEW c, c = Asking(i), NEW d,
         d = Output(TcpEnqueue(c, <<>>, TRUE, FALSE, FALSE)), NEW D, D = {0}
  PROVE  Moves(g, n, 1, D, d)
<1>1. OneShortConnection /\ c = Asking(Base("client"))
  BY DEF Env, Base
<1>2. PICK x, y : Asks(x, y, d)
  BY ONLY <1>1, d = Output(TcpEnqueue(c, <<>>, TRUE, FALSE, FALSE)), AsksIs
<1>3. D \in SUBSET Nat /\ D # {}
  OBVIOUS
<1>4. PICK h : h = With(g, D)
  OBVIOUS
<1>5. Env(h)
  BY <1>3, <1>4, WithEnv
<1>6. h.e = "client" /\ h.C = {0} /\ h.lp <= 2
  BY <1>4, WithIs
<1>7. Ok(h, d)
  BY ONLY <1>2, <1>5, <1>6, AsksOk
<1>8. n.written = 0 /\ n.closing = FALSE
  <2>1. PICK iss : iss = Iss["client"]
    OBVIOUS
  <2>2. NewPcb(iss, n)
    BY <2>1, TcpNewIs
  <2> QED BY <2>2 DEF NewPcb
<1>9. d.written = 0 /\ d.closing = FALSE /\ d.state = "SYN_SENT" /\ d.pend = <<>>
  BY <1>2 DEF Asks
<1>10. Growth(g.C, n.written, n.closing, D, d.written, d.closing)
  <2>1. g.C \subseteq D
    OBVIOUS
  <2>2. n.written <= d.written
    BY ONLY <1>8, <1>9
  <2>3. ~n.closing
    BY ONLY <1>8, Zenon
  <2> QED BY ONLY g.C = {}, <2>1, <2>2, <2>3 DEF Growth
<1>11. Lim(h, d) = 1
  BY <1>9, StateSets DEF Lim
<1>12. PICK l : l = 1
  OBVIOUS
<1>13. l <= Lim(h, d)
  BY ONLY <1>11, <1>12
<1>14. Moves(g, n, l, D, d)
  BY ONLY <1>3, <1>4, <1>7, <1>9, <1>10, <1>13 DEF Moves
<1> QED BY ONLY <1>12, <1>14

-----------------------------------------------------------------------------
(* A SYN reaches the listening server *)
Asked(s) ==
  [TcpNew(Iss["server"]) EXCEPT !.state = "SYN_RCVD", !.rcv_nxt = Plus(s.seq, 1),
                                !.snd_wnd = s.wnd, !.snd_wl1 = s.seq]

LEMMA AskedIs ==
  ASSUME NEW s, NEW c, c = Asked(s)
  PROVE  Begins("server", c) /\ c.state = "SYN_RCVD" /\ c.attached = FALSE /\ c.rcv_nxt = Plus(s.seq, 1)
<1>1. PICK iss, a, n, w : iss = Iss["server"] /\ a = s.seq /\ n = Plus(s.seq, 1) /\ w = s.wnd
  OBVIOUS
<1>2. PICK b : b = TcpNew(iss)
  OBVIOUS
<1>3. NewPcb(iss, b)
  BY ONLY <1>2, TcpNewIs
<1>4. /\ Pcb(b) /\ b.written = 0 /\ b.closing = FALSE /\ b.attached = FALSE
      /\ b.got = <<>> /\ b.eof = FALSE /\ b.pend = <<>> /\ b.out = {} /\ b.rcv_nxt = 0
      /\ b.snd_max = iss /\ b.snd_nxt = iss /\ b.lastack = iss /\ b.snd_lbb = iss
      /\ b.snd_buf = TcpSndBuf /\ b.qlen = 0 /\ b.unsent = <<>> /\ b.unacked = <<>> /\ b.ooseq = <<>>
      /\ b.held = 0 /\ b.delay = FALSE /\ b.gotfin = FALSE
  BY ONLY <1>3 DEF NewPcb
<1>5. c = [b EXCEPT !.state = "SYN_RCVD", !.rcv_nxt = n, !.snd_wnd = w, !.snd_wl1 = a]
  BY <1>1, <1>2 DEF Asked
<1>6. Pcb(b)
  BY <1>4
<1>7. Pcb(c) /\ c.lastack = b.lastack /\ c.snd_lbb = b.snd_lbb /\ c.state = "SYN_RCVD" /\ c.attached = b.attached
      /\ c.written = b.written /\ c.closing = b.closing
  BY ONLY <1>5, <1>6 DEF Pcb, Fields
<1>8. /\ c.got = b.got /\ c.eof = b.eof /\ c.pend = b.pend /\ c.out = b.out /\ c.rcv_nxt = n
      /\ c.snd_max = b.snd_max /\ c.snd_nxt = b.snd_nxt
  BY ONLY <1>5, <1>6 DEF Pcb, Fields
<1>9. /\ c.snd_buf = b.snd_buf /\ c.qlen = b.qlen /\ c.unsent = b.unsent /\ c.unacked = b.unacked /\ c.ooseq = b.ooseq
      /\ c.held = b.held /\ c.delay = b.delay /\ c.gotfin = b.gotfin
  BY ONLY <1>5, <1>6 DEF Pcb, Fields
<1>10. iss = Base("server")
  BY <1>1 DEF Base
<1> QED BY ONLY <1>1, <1>4, <1>7, <1>8, <1>9, <1>10 DEF Begins

LEMMA SynningOk ==
  ASSUME NEW g, Env(g), g.e = "server", g.C = {0}, g.lp <= 2, NEW c, Begins("server", c), c.state = "SYN_RCVD",
         c.attached = FALSE, NEW x, Syn("server", x), NEW q, Synning("server", c, x, q),
         c.rcv_nxt \in Seqs, Pos(g.p, c.rcv_nxt) = 1
  PROVE  Ok(g, q) /\ q.state = "SYN_RCVD" /\ Lim(g, q) = 1 /\ q.pend = <<>> /\ q.written = 0 /\ q.closing = FALSE
<1>1. g.e = "server" /\ g.e \in Ends /\ g.w \in Nat /\ g.lp \in Nat /\ OneShortConnection /\ g.C = {0}
  BY EnvFacts DEF Env
<1>2. Syn(g.e, x)
  BY <1>1
<1>3. /\ Pcb(q) /\ q.state = "SYN_RCVD" /\ q.attached = FALSE /\ q.unsent = <<x>> /\ q.unacked = <<>>
      /\ q.lastack = Base(g.e) /\ q.snd_lbb = Plus(Base(g.e), 1)
      /\ q.snd_buf = (TcpSndBuf - 1) % BufMod /\ q.qlen = 1
  BY ONLY <1>1, Begins("server", c), c.state = "SYN_RCVD", c.attached = FALSE, Synning("server", c, x, q)
     DEF Begins, Synning, Rest
<1>4. /\ q.snd_nxt = Base(g.e) /\ q.snd_max = Base(g.e)
  <2>1. Iss["server"] = Base("server")
    BY DEF Base
  <2> QED BY ONLY <1>1, <2>1, Begins("server", c), Synning("server", c, x, q) DEF Begins, Synning, Rest
<1>5. /\ q.delay = FALSE /\ q.written = 0 /\ q.closing = FALSE /\ q.rcv_nxt = c.rcv_nxt
      /\ q.gotfin = FALSE /\ q.ooseq = <<>> /\ q.pend = <<>> /\ q.got = <<>> /\ q.eof = FALSE /\ q.out = {}
  BY ONLY Begins("server", c), Synning("server", c, x, q) DEF Begins, Synning, Rest
<1>6. q.closing \in BOOLEAN /\ q.delay \in BOOLEAN /\ q.gotfin \in BOOLEAN /\ q.attached \in BOOLEAN
  BY ONLY <1>3, <1>5, Zenon
<1>7. /\ Plus(Base(g.e), 1) \in Seqs /\ Pos(g.e, Plus(Base(g.e), 1)) = 1
      /\ Base(g.e) \in Seqs /\ Pos(g.e, Base(g.e)) = 0
  BY ONLY <1>1, <1>2, <1>6, SynFacts
<1>8. Sending(g.e, g.C, 0, q.closing, q.unacked, q.unsent, 0, 1)
      /\ QueueLen(q.unsent) = 1 /\ QueueLen(q.unacked) = 0
  <2>1. PICK e, D, k, z, o : e = g.e /\ D = g.C /\ k = q.closing /\ z = q.unacked /\ o = q.unsent
    OBVIOUS
  <2>2. e \in Ends /\ Syn(e, x) /\ k = FALSE /\ D = {0} /\ z = <<>> /\ o = <<x>> /\ OneShortConnection
    BY ONLY <1>1, <1>2, <1>3, <1>5, <2>1
  <2>3. Sending(e, D, 0, k, z, o, 0, 1) /\ QueueLen(z) = 0 /\ QueueLen(o) = 1
    BY ONLY <2>2, SynSends
  <2> QED BY ONLY <2>1, <2>3
<1>9. Snd(g, q)
  <2>1. (q.snd_buf + (1 - 0)) % BufMod = TcpSndBuf - Used(g, q) /\ q.snd_buf \in Int
    <3>1. Used(g, q) = 0
      BY <1>1 DEF Used
    <3>2. (q.snd_buf + 1) % BufMod = TcpSndBuf /\ q.snd_buf \in Int /\ TcpSndBuf \in Nat
      BY <1>3, SynBuf, TcpConsts
    <3>3. 1 - 0 = 1 /\ TcpSndBuf - 0 = TcpSndBuf
      BY ONLY <3>2
    <3> QED BY ONLY <3>1, <3>2, <3>3
  <2>2. "SYN_RCVD" \in Open
    BY DEF Open
  <2>3. Pos(g.e, q.lastack) = 0 /\ Pos(g.e, q.snd_lbb) = 1 /\ q.lastack \in Seqs /\ q.snd_lbb \in Seqs
        /\ q.snd_max \in Seqs /\ Pos(g.e, q.snd_max) = 0
    BY <1>3, <1>4, <1>7
  <2>4. \A a \in g.C : a < 1
    BY <1>1
  <2>5. q.qlen = QueueLen(q.unsent) + QueueLen(q.unacked)
    BY <1>3, <1>8
  <2>6. Pos(g.e, q.snd_lbb) = q.written + IF q.state \in Open THEN 1 ELSE 2
    BY <1>3, <1>5, <2>2, <2>3
  <2>7. Pos(g.e, q.lastack) <= g.lp
    BY <1>1, <2>3
  <2>8. Sending(g.e, g.C, q.written, q.closing, q.unacked, q.unsent, Pos(g.e, q.lastack), Pos(g.e, q.snd_lbb))
    BY <1>5, <1>8, <2>3
  <2>9. (q.snd_buf + (Pos(g.e, q.snd_lbb) - Pos(g.e, q.lastack))) % BufMod = TcpSndBuf - Used(g, q)
    BY <2>1, <2>3
  <2>10. Pos(g.e, q.lastack) <= Pos(g.e, q.snd_max) /\ Pos(g.e, q.snd_max) <= Pos(g.e, q.snd_lbb)
         /\ \A a \in g.C : a < Pos(g.e, q.snd_lbb)
    BY <2>3, <2>4
  <2> QED BY ONLY <2>1, <2>3, <2>5, <2>6, <2>7, <2>8, <2>9, <2>10 DEF Snd
<1>10. q.rcv_nxt \in Seqs /\ Pos(g.p, q.rcv_nxt) = 1
  BY <1>5
<1>11. Rcv(g, q)
  <2>1. q.pend \in Seq(Nat) /\ q.ooseq \in Seq(OoSegs) /\ Len(q.ooseq) = 0
    BY <1>5
  <2>2. Early(g, q, Pos(g.p, q.rcv_nxt))
    BY <2>1 DEF Early
  <2>3. Pos(g.p, q.rcv_nxt) # g.w + 2 /\ Pos(g.p, q.rcv_nxt) >= 1
    BY <1>1, <1>10
  <2>4. ~q.attached /\ ~q.gotfin
    BY ONLY <1>3, <1>5, Zenon
  <2> QED BY ONLY <2>1, <2>2, <2>3, <2>4 DEF Rcv
<1>12. Accepting(g, q)
  <2>1. ~q.gotfin
    BY ONLY <1>5, Zenon
  <2> QED BY ONLY <1>1, <1>5, <1>10, <2>1 DEF Accepting
<1>13. Life(g, q)
  <2>1. q.state \in States /\ q.state \in Open /\ q.state \notin {"CLOSED", "SYN_SENT"} /\ q.state = "SYN_RCVD"
        /\ q.state \notin States \ ({"CLOSED"} \cup Open)
    BY <1>3 DEF States, Open
  <2>2. q.written \in 0 .. MaxBytes[g.e] /\ g.lp <= q.written + 2
    <3>1. MaxBytes[g.e] \in Nat
      BY <1>1, TcpConsts
    <3> QED BY <1>1, <1>5, <3>1
  <2>3. q.snd_nxt \in Seqs /\ Pos(g.e, q.snd_nxt) <= q.written + 2 /\ Pos(g.p, q.rcv_nxt) <= g.w + 2
    BY <1>1, <1>4, <1>5, <1>7, <1>10
  <2>4. ~q.closing /\ (q.attached <=> q.state # "SYN_RCVD")
    BY <1>3, <1>5
  <2> QED BY ONLY <1>6, <1>10, <1>12, <2>1, <2>2, <2>3, <2>4 DEF Life
<1>14. Heard(g, q)
  BY <1>5, BeginHeard
<1>15. \A s \in q.out : Sends(g, q, s)
  BY <1>5
<1>16. Ok(g, q)
  BY ONLY <1>3, <1>9, <1>11, <1>13, <1>14, <1>15 DEF Ok
<1>17. Lim(g, q) = 1
  <2>1. q.state \in Synced
    BY <1>3 DEF Synced, Active, States
  <2> QED BY <1>10, <2>1 DEF Lim
<1> QED BY <1>3, <1>5, <1>16, <1>17

LEMMA SynAckOk ==
  ASSUME NEW g, Env(g), g.e = "server", g.C = {}, g.lp <= 2, NEW s, WireOK(g.p, g.Cp, g.w, g.k, g.lp, s),
         ~s.rst, s.syn, NEW n, n = TcpNew(Iss["server"]), NEW d, d = SynAck(s), NEW D, D = {0}
  PROVE  Moves(g, n, 1, D, d)
<1>1. OneShortConnection /\ "server" \in Ends
  BY DEF Env, Ends
<1>2. PICK c : c = Asked(s)
  OBVIOUS
<1>3. Begins("server", c) /\ c.state = "SYN_RCVD" /\ c.attached = FALSE /\ c.rcv_nxt = Plus(s.seq, 1)
  BY ONLY <1>2, AskedIs
<1>4. PICK q : q = TcpEnqueue(c, <<>>, TRUE, FALSE, TRUE)
  OBVIOUS
<1>5. d = Output(q)
  BY <1>2, <1>4 DEF SynAck, Asked
<1>6. PICK x : Syn("server", x) /\ Synning("server", c, x, q)
  <2>1. PICK t : t = TRUE
    OBVIOUS
  <2>2. t \in BOOLEAN
    BY ONLY <2>1, Zenon
  <2>3. q = TcpEnqueue(c, <<>>, TRUE, FALSE, t)
    BY <1>4, <2>1
  <2>4. \E x : Syn("server", x) /\ x.ack = t /\ Synning("server", c, x, q)
    BY ONLY <1>1, <1>3, <2>2, <2>3, SynQueued
  <2> QED BY <2>4
<1>7. c.rcv_nxt \in Seqs /\ Pos(g.p, c.rcv_nxt) = 1
  <2>1. SegOK(g.p, g.Cp, g.w, g.k, s)
    BY DEF WireOK
  <2>2. s.seq \in Seqs /\ Pos(g.p, s.seq) = 0
    BY <2>1 DEF SegOK
  <2>3. PICK k : k = 1
    OBVIOUS
  <2>4. g.p \in Ends /\ SeqSpace > 1 /\ SeqSpace \in Nat
    BY EnvFacts
  <2>5. Plus(s.seq, k) \in Seqs /\ Pos(g.p, Plus(s.seq, k)) = Pos(g.p, s.seq) + k
    BY <2>2, <2>3, <2>4, PosPlus
  <2> QED BY <1>3, <2>2, <2>3, <2>5
<1>8. D \in SUBSET Nat /\ D # {}
  OBVIOUS
<1>9. PICK h : h = With(g, D)
  OBVIOUS
<1>10. Env(h)
  BY <1>8, <1>9, WithEnv
<1>11. h.e = "server" /\ h.C = {0} /\ h.lp <= 2 /\ h.p = g.p
  BY <1>9, WithIs
<1>12. Ok(h, q) /\ q.state = "SYN_RCVD" /\ Lim(h, q) = 1 /\ q.pend = <<>> /\ q.written = 0 /\ q.closing = FALSE
  <2>1. c.rcv_nxt \in Seqs /\ Pos(h.p, c.rcv_nxt) = 1
    BY <1>7, <1>11
  <2> QED BY ONLY <1>3, <1>6, <1>10, <1>11, <2>1, SynningOk
<1>13. q.state \in Active
  BY <1>12 DEF Active, States
<1>14. Kept(h, q, d) /\ SameRcv(q, d)
  BY ONLY <1>5, <1>10, <1>12, <1>13, OutputOk
<1>15. Ok(h, d) /\ Lim(h, q) <= Lim(h, d) /\ d.written = 0 /\ d.closing = FALSE /\ d.pend = <<>>
  BY ONLY <1>12, <1>14 DEF Kept, SameRcv
<1>16. n.written = 0 /\ n.closing = FALSE
  <2>1. PICK iss : iss = Iss["server"]
    OBVIOUS
  <2>2. NewPcb(iss, n)
    BY <2>1, TcpNewIs
  <2> QED BY <2>2 DEF NewPcb
<1>17. Growth(g.C, n.written, n.closing, D, d.written, d.closing)
  <2>1. g.C \subseteq D
    OBVIOUS
  <2>2. n.written <= d.written
    BY ONLY <1>15, <1>16
  <2>3. ~n.closing
    BY ONLY <1>16, Zenon
  <2> QED BY ONLY g.C = {}, <2>1, <2>2, <2>3 DEF Growth
<1>18. PICK l : l = 1
  OBVIOUS
<1>19. l <= Lim(h, d)
  BY ONLY <1>12, <1>15, <1>18
<1>20. Moves(g, n, l, D, d)
  BY ONLY <1>8, <1>9, <1>15, <1>17, <1>19 DEF Moves
<1> QED BY ONLY <1>18, <1>20

-----------------------------------------------------------------------------
(* The system: cn are the two ends, cuts the places where each began a segment *)
LimOf(cn, cuts, e) ==
  IF cuts[e] = {} THEN 1 ELSE Lim([p |-> Peer(e), w |-> cn[Peer(e)].written], cn[e])
Where(cn, cuts, e) ==
  [e |-> e, p |-> Peer(e), C |-> cuts[e], Cp |-> cuts[Peer(e)], w |-> cn[Peer(e)].written,
   k |-> cn[Peer(e)].closing, lp |-> LimOf(cn, cuts, Peer(e))]

EndOk(cn, cuts, e) ==
  /\ Env(Where(cn, cuts, e))
  /\ IF cuts[e] = {} THEN cn[e] = TcpNew(Iss[e]) ELSE Ok(Where(cn, cuts, e), cn[e])
  /\ cn[e].pend = <<>> /\ cn[e].out = {}
Carried(cn, cuts, e, s) == WireOK(e, cuts[e], cn[e].written, cn[e].closing, LimOf(cn, cuts, e), s)
NetOk(cn, cuts, nt) == \A m \in nt : m.to \in Ends /\ Carried(cn, cuts, Peer(m.to), m.seg)
Cuts(cn, cuts) == cn = [e \in Ends |-> cn[e]] /\ cuts \in [Ends -> SUBSET Nat]

Sys(cn, cuts, nt, sp) ==
  /\ Cuts(cn, cuts) /\ sp \in Nat /\ (cuts["server"] # {} => sp > 0)
  /\ (\A e \in Ends : EndOk(cn, cuts, e)) /\ NetOk(cn, cuts, nt)

LEMMA WhereIs ==
  ASSUME NEW cn, NEW cuts, NEW e, NEW g, g = Where(cn, cuts, e)
  PROVE  /\ g.e = e /\ g.p = Peer(e) /\ g.C = cuts[e] /\ g.Cp = cuts[Peer(e)] /\ g.w = cn[Peer(e)].written
         /\ g.k = cn[Peer(e)].closing /\ g.lp = LimOf(cn, cuts, Peer(e))
BY DEF Where

LEMMA LimOfIs ==
  ASSUME NEW cn, NEW cuts, NEW e, cuts[e] # {}, NEW g, g.p = Peer(e), g.w = cn[Peer(e)].written
  PROVE  LimOf(cn, cuts, e) = Lim(g, cn[e])
BY DEF LimOf, Lim

LEMMA FreshIs ==
  ASSUME NEW cn, NEW cuts, NEW e \in Ends, EndOk(cn, cuts, e), cuts[e] = {}
  PROVE  cn[e].written = 0 /\ cn[e].closing = FALSE /\ cn[e].state = "CLOSED" /\ Pcb(cn[e]) /\ cn[e].got = <<>>
         /\ cn[e].eof = FALSE /\ cn[e].attached = FALSE
<1>1. PICK iss, c : iss = Iss[e] /\ c = cn[e]
  OBVIOUS
<1>2. c = TcpNew(iss)
  BY <1>1 DEF EndOk
<1>3. NewPcb(iss, c)
  BY ONLY <1>2, TcpNewIs
<1> QED BY <1>1, <1>3 DEF NewPcb

(* What holds of both ends *)
LEMMA EndFacts ==
  ASSUME NEW cn, NEW cuts, Cuts(cn, cuts), \A e \in Ends : EndOk(cn, cuts, e), NEW e \in Ends
  PROVE  /\ OneShortConnection /\ cn[e].written \in 0 .. MaxBytes[e] /\ cn[e].closing \in BOOLEAN
         /\ cn[e].written \in Nat /\ cuts[e] \in SUBSET Nat /\ LimOf(cn, cuts, e) \in Nat
         /\ Writes(e, cuts[e], cn[e].written, cn[e].closing)
         /\ LimOf(cn, cuts, e) <= cn[Peer(e)].written + 2
<1>1. Peer(e) \in Ends /\ Peer(Peer(e)) = e
  BY PeerIs
<1>2. PICK g : g = Where(cn, cuts, Peer(e))
  OBVIOUS
<1>3. Env(g)
  BY <1>1, <1>2 DEF EndOk
<1>4. g.p = e /\ g.w = cn[e].written /\ g.k = cn[e].closing /\ g.lp = LimOf(cn, cuts, e) /\ g.Cp = cuts[e]
  BY <1>1, <1>2, WhereIs
<1>5. OneShortConnection /\ cn[e].written \in 0 .. MaxBytes[e] /\ cn[e].closing \in BOOLEAN
      /\ cuts[e] \in SUBSET Nat /\ LimOf(cn, cuts, e) \in Nat
  BY <1>3, <1>4 DEF Env
<1>6. Writes(e, cuts[e], cn[e].written, cn[e].closing) /\ cn[e].written \in Nat
  BY <1>3, <1>4, EnvFacts
<1>7. LimOf(cn, cuts, e) <= cn[Peer(e)].written + 2
  <2>1. PICK h : h = Where(cn, cuts, e)
    OBVIOUS
  <2>2. Env(h) /\ h.p = Peer(e) /\ h.w = cn[Peer(e)].written
    BY <2>1, WhereIs DEF EndOk
  <2>3. h.w \in Nat
    BY <2>2, EnvFacts
  <2>4. CASE cuts[e] = {}
    BY <2>2, <2>3, <2>4 DEF LimOf
  <2>5. CASE cuts[e] # {}
    <3>1. Ok(h, cn[e])
      BY <2>1, <2>5 DEF EndOk
    <3>2. Lim(h, cn[e]) <= h.w + 2
      BY <2>2, <3>1, LimMost
    <3>3. LimOf(cn, cuts, e) = Lim(h, cn[e])
      BY <2>2, <2>5, LimOfIs
    <3> QED BY <2>2, <3>2, <3>3
  <2> QED BY <2>4, <2>5
<1> QED BY <1>5, <1>6, <1>7

-----------------------------------------------------------------------------
(* End e moves to d; the other one stays. *)
Steps(cn, cuts, e, D, d, n2, c2) ==
  /\ Moves(Where(cn, cuts, e), cn[e], LimOf(cn, cuts, e), D, d)
  /\ n2 = [cn EXCEPT ![e] = [d EXCEPT !.out = {}]] /\ c2 = [cuts EXCEPT ![e] = D]

(* What a step leaves: f is d without the segments it sent. *)
Stepped(cn, cuts, e, D, d, n2, c2, f) ==
  /\ n2[e] = f /\ n2[Peer(e)] = cn[Peer(e)] /\ c2[e] = D /\ c2[Peer(e)] = cuts[Peer(e)] /\ Cuts(n2, c2)
  /\ f.pend = <<>> /\ f.out = {} /\ f.written = d.written /\ f.closing = d.closing /\ f.written \in 0 .. MaxBytes[e]
  /\ f.closing \in BOOLEAN /\ f.written \in Nat
  /\ Env(With(Where(cn, cuts, e), D)) /\ Ok(With(Where(cn, cuts, e), D), f)
  /\ Lim(With(Where(cn, cuts, e), D), f) = LimOf(n2, c2, e)
  /\ Lim(With(Where(cn, cuts, e), D), d) = LimOf(n2, c2, e)
  /\ LimOf(cn, cuts, e) <= LimOf(n2, c2, e) /\ LimOf(n2, c2, e) \in Nat
  /\ D \in SUBSET Nat /\ D # {} /\ Growth(cuts[e], cn[e].written, cn[e].closing, D, f.written, f.closing)

LEMMA SteppedIs ==
  ASSUME NEW cn, NEW cuts, Cuts(cn, cuts), \A x \in Ends : EndOk(cn, cuts, x), NEW e \in Ends, NEW D, NEW d, NEW n2, NEW c2,
         Steps(cn, cuts, e, D, d, n2, c2), NEW f, f = [d EXCEPT !.out = {}]
  PROVE  Stepped(cn, cuts, e, D, d, n2, c2, f)
<1>1. PICK p : p = Peer(e)
  OBVIOUS
<1>2. p \in Ends /\ Peer(p) = e /\ p # e
  BY <1>1, PeerIs
<1>3. PICK g : g = Where(cn, cuts, e)
  OBVIOUS
<1>4. Env(g) /\ g.e = e /\ g.p = p /\ g.C = cuts[e] /\ g.w = cn[p].written
  BY <1>1, <1>3, WhereIs DEF EndOk
<1>5. /\ D \in SUBSET Nat /\ D # {} /\ Growth(g.C, cn[e].written, cn[e].closing, D, d.written, d.closing)
      /\ Ok(With(g, D), d) /\ LimOf(cn, cuts, e) <= Lim(With(g, D), d) /\ d.pend = <<>>
  BY ONLY <1>3, Steps(cn, cuts, e, D, d, n2, c2) DEF Steps, Moves
<1>6. PICK h : h = With(g, D)
  OBVIOUS
<1>7. Env(h) /\ h.e = e /\ h.p = p /\ h.C = D /\ h.w = cn[p].written
  BY <1>4, <1>5, <1>6, WithIs, WithEnv
<1>8. Ok(h, d) /\ Pcb(d)
  BY <1>5, <1>6 DEF Ok
<1>9. PICK z : z = {}
  OBVIOUS
<1>10. f = [d EXCEPT !.out = z]
  BY <1>9
<1>11. Pcb(f) /\ f.out = z /\ f.delay = d.delay /\ f.held = d.held /\ f.state = d.state /\ f.snd_nxt = d.snd_nxt
       /\ f.pend = d.pend /\ f.written = d.written /\ f.closing = d.closing
  BY ONLY <1>8, <1>10 DEF Pcb, Fields
<1>12. SameSnd(d, f) /\ SameRcv(d, f) /\ SameApp(d, f)
  BY ONLY <1>8, <1>10 DEF Pcb, Fields, SameSnd, SameRcv, SameApp
<1>13. Same(d, f)
  BY ONLY <1>11, <1>12 DEF Same
<1>14. Kept(h, d, f)
  <2>1. d.delay \in BOOLEAN /\ (d.state = "SYN_SENT" => ~d.delay)
    BY <1>8 DEF Ok, Life, Starting
  <2>2. f.delay \in BOOLEAN /\ (d.state = "SYN_SENT" => ~f.delay /\ f.held = d.held)
    BY ONLY <1>11, <2>1
  <2>3. \A s \in f.out : s \in d.out \/ Sends(h, f, s)
    BY ONLY <1>9, <1>11
  <2> QED BY ONLY <1>7, <1>8, <1>11, <1>13, <2>2, <2>3, OkSame
<1>15. Ok(h, f)
  BY <1>14 DEF Kept
<1>16. Lim(h, f) = Lim(h, d)
  BY ONLY <1>13 DEF Same, SameRcv, Lim
<1>17. f.written \in 0 .. MaxBytes[e] /\ f.closing \in BOOLEAN /\ f.written \in Nat /\ Lim(h, f) \in Nat
  <2>1. f.written \in 0 .. MaxBytes[e] /\ f.closing \in BOOLEAN
    BY <1>7, <1>15 DEF Ok, Life
  <2> QED BY <1>7, <1>15, <2>1, OkFacts
<1>18. n2 = [cn EXCEPT ![e] = f] /\ c2 = [cuts EXCEPT ![e] = D]
  BY DEF Steps
<1>19. n2[e] = f /\ n2[p] = cn[p] /\ c2[e] = D /\ c2[p] = cuts[p] /\ Cuts(n2, c2)
  BY ONLY <1>2, <1>5, <1>18, e \in Ends, Cuts(cn, cuts) DEF Cuts
<1>20. LimOf(n2, c2, e) = Lim(h, f)
  <2>1. c2[e] # {} /\ h.p = Peer(e) /\ h.w = n2[Peer(e)].written
    BY ONLY <1>1, <1>5, <1>7, <1>19
  <2>2. LimOf(n2, c2, e) = Lim(h, n2[e])
    BY ONLY <2>1, LimOfIs
  <2> QED BY ONLY <1>19, <2>2
<1>21. LimOf(cn, cuts, e) <= LimOf(n2, c2, e) /\ LimOf(n2, c2, e) \in Nat
  <2>1. LimOf(cn, cuts, e) <= Lim(h, d)
    BY ONLY <1>5, <1>6
  <2>2. LimOf(n2, c2, e) = Lim(h, d)
    BY ONLY <1>16, <1>20
  <2> QED BY ONLY <1>17, <1>20, <2>1, <2>2
<1>22. Growth(cuts[e], cn[e].written, cn[e].closing, D, f.written, f.closing)
  BY ONLY <1>4, <1>5, <1>11
<1>23. h = With(Where(cn, cuts, e), D)
  BY ONLY <1>3, <1>6
<1>24. f.pend = <<>> /\ f.out = {}
  BY ONLY <1>5, <1>9, <1>11
<1> QED BY ONLY <1>1, <1>5, <1>7, <1>11, <1>15, <1>16, <1>17, <1>19, <1>20, <1>21, <1>22, <1>23, <1>24 DEF Stepped

-----------------------------------------------------------------------------
Both(cn, cuts) == Cuts(cn, cuts) /\ \A x \in Ends : EndOk(cn, cuts, x)

(* The other end is in order still. *)
LEMMA StepPeer ==
  ASSUME NEW cn, NEW cuts, Both(cn, cuts), NEW e \in Ends, NEW D, NEW d, NEW n2, NEW c2, NEW f,
         Stepped(cn, cuts, e, D, d, n2, c2, f), NEW p, p = Peer(e)
  PROVE  EndOk(n2, c2, p)
<1>1. p \in Ends /\ Peer(p) = e /\ p # e
  BY PeerIs
<1>2. PICK g, h : g = Where(cn, cuts, p) /\ h = Where(n2, c2, p)
  OBVIOUS
<1>3. /\ g.e = p /\ g.p = e /\ g.C = cuts[p] /\ g.Cp = cuts[e] /\ g.w = cn[e].written
      /\ g.k = cn[e].closing /\ g.lp = LimOf(cn, cuts, e)
  BY <1>1, <1>2, WhereIs
<1>4. /\ h.e = p /\ h.p = e /\ h.C = c2[p] /\ h.Cp = c2[e] /\ h.w = n2[e].written
      /\ h.k = n2[e].closing /\ h.lp = LimOf(n2, c2, e)
  BY <1>1, <1>2, WhereIs
<1>5. n2[e] = f /\ n2[p] = cn[p] /\ c2[e] = D /\ c2[p] = cuts[p]
  BY DEF Stepped
<1>6. f.written \in 0 .. MaxBytes[e] /\ f.closing \in BOOLEAN /\ D \in SUBSET Nat
      /\ LimOf(cn, cuts, e) <= LimOf(n2, c2, e) /\ LimOf(n2, c2, e) \in Nat
      /\ Growth(cuts[e], cn[e].written, cn[e].closing, D, f.written, f.closing)
  BY DEF Stepped
<1>7. Env(g) /\ EndOk(cn, cuts, p)
  BY <1>1, <1>2 DEF EndOk, Both
<1>8. Env(h)
  <2>1. OneShortConnection /\ cuts[p] \in SUBSET Nat
    BY <1>3, <1>7 DEF Env
  <2> QED BY ONLY <1>1, <1>4, <1>5, <1>6, <2>1 DEF Env
<1>9. n2[p].pend = <<>> /\ n2[p].out = {}
  BY <1>5, <1>7 DEF EndOk
<1>10. CASE c2[p] = {}
  <2>1. n2[p] = TcpNew(Iss[p])
    BY <1>5, <1>7, <1>10 DEF EndOk
  <2> QED BY ONLY <1>2, <1>8, <1>9, <1>10, <2>1 DEF EndOk
<1>11. CASE c2[p] # {}
  <2>1. Ok(g, cn[p])
    BY <1>2, <1>5, <1>7, <1>11 DEF EndOk
  <2>2. PeerGrew(g, h)
    BY ONLY <1>3, <1>4, <1>5, <1>6 DEF PeerGrew
  <2>3. h.lp <= cn[p].written + 2
    <3>1. PICK s : s = With(Where(cn, cuts, e), D)
      OBVIOUS
    <3>2. Env(s) /\ Ok(s, f) /\ Lim(s, f) = LimOf(n2, c2, e)
      BY <3>1 DEF Stepped
    <3>3. Lim(s, f) <= s.w + 2
      BY ONLY <3>2, LimMost
    <3>4. s.w = cn[p].written
      <4>1. PICK b : b = Where(cn, cuts, e)
        OBVIOUS
      <4>2. b.w = cn[p].written
        BY <4>1, WhereIs
      <4>3. s.w = b.w
        BY <3>1, <4>1, WithIs
      <4> QED BY ONLY <4>2, <4>3
    <3> QED BY ONLY <1>4, <3>2, <3>3, <3>4
  <2>4. Ok(h, cn[p])
    BY ONLY <1>7, <1>8, <2>1, <2>2, <2>3, PeerGrows
  <2> QED BY ONLY <1>2, <1>5, <1>8, <1>9, <1>11, <2>4 DEF EndOk
<1> QED BY <1>10, <1>11

(* What the other end may have acknowledged grows. *)
LEMMA StepLim ==
  ASSUME NEW cn, NEW cuts, Both(cn, cuts), NEW e \in Ends, NEW D, NEW d, NEW n2, NEW c2, NEW f,
         Stepped(cn, cuts, e, D, d, n2, c2, f), NEW p, p = Peer(e)
  PROVE  LimOf(cn, cuts, p) <= LimOf(n2, c2, p) /\ LimOf(n2, c2, p) \in Nat /\ LimOf(cn, cuts, p) \in Nat
         /\ LimOf(n2, c2, p) <= f.written + 2
<1>1. p \in Ends /\ Peer(p) = e /\ p # e
  BY PeerIs
<1>2. n2[e] = f /\ n2[p] = cn[p] /\ c2[e] = D /\ c2[p] = cuts[p] /\ f.written \in Nat
      /\ Growth(cuts[e], cn[e].written, cn[e].closing, D, f.written, f.closing)
  BY DEF Stepped
<1>3. LimOf(cn, cuts, p) \in Nat /\ cn[e].written \in Nat
  BY <1>1, EndFacts DEF Both
<1>4. CASE cuts[p] = {}
  BY <1>2, <1>4 DEF LimOf
<1>5. CASE cuts[p] # {}
  <2>1. PICK g, h : g = Where(cn, cuts, p) /\ h = Where(n2, c2, p)
    OBVIOUS
  <2>2. g.p = e /\ h.p = e /\ g.w = cn[e].written /\ h.w = f.written
    BY <1>1, <1>2, <2>1, WhereIs
  <2>3. LimOf(cn, cuts, p) = Lim(g, cn[p])
    BY <1>1, <1>5, <2>2, LimOfIs
  <2>4. LimOf(n2, c2, p) = Lim(h, cn[p])
    <3>1. c2[p] # {} /\ h.p = Peer(p) /\ h.w = n2[Peer(p)].written
      BY <1>1, <1>2, <1>5, <2>2
    <3>2. LimOf(n2, c2, p) = Lim(h, n2[p])
      BY ONLY <3>1, LimOfIs
    <3> QED BY ONLY <1>2, <3>2
  <2>5. g.w \in Nat /\ h.w \in Nat /\ g.w <= h.w /\ h.p = g.p /\ Lim(g, cn[p]) \in Nat
    BY <1>2, <1>3, <2>2, <2>3 DEF Growth
  <2>6. Lim(g, cn[p]) <= Lim(h, cn[p]) /\ Lim(h, cn[p]) \in Nat
    BY ONLY <2>5, LimGrows
  <2>7. EndOk(n2, c2, p)
    BY ONLY Both(cn, cuts), e \in Ends, Stepped(cn, cuts, e, D, d, n2, c2, f), p = Peer(e), StepPeer
  <2>8. Env(h) /\ Ok(h, cn[p])
    BY <1>2, <1>5, <2>1, <2>7 DEF EndOk
  <2>9. Lim(h, cn[p]) <= h.w + 2
    BY ONLY <2>8, LimMost
  <2> QED BY ONLY <2>2, <2>3, <2>4, <2>5, <2>6, <2>9
<1> QED BY <1>4, <1>5

LEMMA StepSelf ==
  ASSUME NEW cn, NEW cuts, Both(cn, cuts), NEW e \in Ends, NEW D, NEW d, NEW n2, NEW c2, NEW f,
         Stepped(cn, cuts, e, D, d, n2, c2, f)
  PROVE  EndOk(n2, c2, e)
<1>1. PICK p : p = Peer(e)
  OBVIOUS
<1>2. p \in Ends /\ Peer(p) = e /\ p # e
  BY <1>1, PeerIs
<1>3. PICK b : b = Where(cn, cuts, e)
  OBVIOUS
<1>4. PICK g, h : g = With(b, D) /\ h = Where(n2, c2, e)
  OBVIOUS
<1>5. /\ b.e = e /\ b.p = p /\ b.C = cuts[e] /\ b.Cp = cuts[p] /\ b.w = cn[p].written
      /\ b.k = cn[p].closing /\ b.lp = LimOf(cn, cuts, p)
  BY <1>1, <1>3, WhereIs
<1>6. /\ g.e = e /\ g.p = p /\ g.C = D /\ g.Cp = cuts[p] /\ g.w = cn[p].written
      /\ g.k = cn[p].closing /\ g.lp = LimOf(cn, cuts, p)
  BY <1>4, <1>5, WithIs
<1>7. /\ h.e = e /\ h.p = p /\ h.C = c2[e] /\ h.Cp = c2[p] /\ h.w = n2[p].written
      /\ h.k = n2[p].closing /\ h.lp = LimOf(n2, c2, p)
  BY <1>1, <1>4, WhereIs
<1>8. n2[e] = f /\ n2[p] = cn[p] /\ c2[e] = D /\ c2[p] = cuts[p] /\ f.pend = <<>> /\ f.out = {} /\ D # {}
  BY <1>1 DEF Stepped
<1>9. Env(g) /\ Ok(g, f)
  BY <1>3, <1>4 DEF Stepped
<1>10. LimOf(cn, cuts, p) <= LimOf(n2, c2, p) /\ LimOf(n2, c2, p) \in Nat /\ LimOf(n2, c2, p) <= f.written + 2
  BY ONLY Both(cn, cuts), e \in Ends, Stepped(cn, cuts, e, D, d, n2, c2, f), <1>1, StepLim
<1>11. Env(h)
  BY ONLY <1>6, <1>7, <1>8, <1>9, <1>10 DEF Env
<1>12. PeerGrew(g, h)
  <2>1. cn[p].written \in Nat
    BY <1>2, EndFacts DEF Both
  <2>2. Growth(g.Cp, g.w, g.k, g.Cp, g.w, g.k)
    BY <1>6, <2>1, GrowthRefl
  <2> QED BY ONLY <1>6, <1>7, <1>8, <1>10, <2>2 DEF PeerGrew
<1>13. Ok(h, f)
  <2>1. h.lp <= f.written + 2
    BY ONLY <1>7, <1>10
  <2> QED BY ONLY <1>9, <1>11, <1>12, <2>1, PeerGrows
<1> QED BY ONLY <1>4, <1>8, <1>11, <1>13 DEF EndOk

(* The segments that e sends, d.out, and those that are on their way *)
Adds(nt, e, d, nt2) == \A m \in nt2 : m \in nt \/ (m.to = Peer(e) /\ m.seg \in d.out)

LEMMA StepNet ==
  ASSUME NEW cn, NEW cuts, Both(cn, cuts), NEW nt, NetOk(cn, cuts, nt), NEW e \in Ends, NEW D, NEW d, NEW n2, NEW c2, NEW f,
         Stepped(cn, cuts, e, D, d, n2, c2, f), Ok(With(Where(cn, cuts, e), D), d), NEW nt2, Adds(nt, e, d, nt2)
  PROVE  NetOk(n2, c2, nt2)
<1>1. PICK p : p = Peer(e)
  OBVIOUS
<1>2. p \in Ends /\ Peer(p) = e /\ p # e
  BY <1>1, PeerIs
<1>3. n2[e] = f /\ n2[p] = cn[p] /\ c2[e] = D /\ c2[p] = cuts[p]
  BY <1>1 DEF Stepped
<1>4. /\ f.written \in 0 .. MaxBytes[e] /\ f.closing \in BOOLEAN /\ D \in SUBSET Nat
      /\ LimOf(cn, cuts, e) <= LimOf(n2, c2, e) /\ LimOf(n2, c2, e) \in Nat
      /\ Growth(cuts[e], cn[e].written, cn[e].closing, D, f.written, f.closing)
      /\ f.written = d.written /\ f.closing = d.closing
      /\ Lim(With(Where(cn, cuts, e), D), d) = LimOf(n2, c2, e)
  BY DEF Stepped
<1>5. /\ Writes(e, cuts[e], cn[e].written, cn[e].closing) /\ LimOf(cn, cuts, e) \in Nat /\ OneShortConnection
  BY EndFacts DEF Both
<1>6. Writes(e, D, f.written, f.closing)
  BY ONLY e \in Ends, <1>4, <1>5 DEF Writes
<1>7. LimOf(cn, cuts, p) <= LimOf(n2, c2, p) /\ LimOf(n2, c2, p) \in Nat /\ LimOf(cn, cuts, p) \in Nat
  BY ONLY Both(cn, cuts), e \in Ends, Stepped(cn, cuts, e, D, d, n2, c2, f), <1>1, StepLim
<1>8. ASSUME NEW s, Carried(cn, cuts, e, s) PROVE Carried(n2, c2, e, s)
  <2>1. WireOK(e, cuts[e], cn[e].written, cn[e].closing, LimOf(cn, cuts, e), s)
    BY <1>8 DEF Carried
  <2>2. PICK a, b : a = LimOf(cn, cuts, e) /\ b = LimOf(n2, c2, e)
    OBVIOUS
  <2>3. a \in Nat /\ b \in Nat /\ a <= b
    BY ONLY <1>4, <1>5, <2>2
  <2>4. PICK C, w, k, v, l : C = cuts[e] /\ w = cn[e].written /\ k = cn[e].closing /\ v = f.written /\ l = f.closing
    OBVIOUS
  <2>5. /\ Writes(e, C, w, k) /\ Writes(e, D, v, l) /\ Growth(C, w, k, D, v, l) /\ WireOK(e, C, w, k, a, s)
    BY ONLY <1>4, <1>5, <1>6, <2>1, <2>2, <2>4
  <2>6. WireOK(e, D, v, l, b, s)
    BY ONLY <2>3, <2>5, WireGrows
  <2> QED BY ONLY <1>3, <2>2, <2>4, <2>6 DEF Carried
<1>9. ASSUME NEW s, Carried(cn, cuts, p, s) PROVE Carried(n2, c2, p, s)
  <2>1. WireOK(p, cuts[p], cn[p].written, cn[p].closing, LimOf(cn, cuts, p), s)
    BY <1>9 DEF Carried
  <2>2. PICK a, b : a = LimOf(cn, cuts, p) /\ b = LimOf(n2, c2, p)
    OBVIOUS
  <2>3. a \in Nat /\ b \in Nat /\ a <= b
    BY ONLY <1>7, <2>2
  <2>4. PICK C, w, k : C = cuts[p] /\ w = cn[p].written /\ k = cn[p].closing
    OBVIOUS
  <2>5. WireOK(p, C, w, k, a, s)
    BY ONLY <2>1, <2>2, <2>4
  <2>6. WireOK(p, C, w, k, b, s)
    BY ONLY <1>2, <2>3, <2>5, WireLater
  <2> QED BY ONLY <1>3, <2>2, <2>4, <2>6 DEF Carried
<1>10. ASSUME NEW s \in d.out PROVE Carried(n2, c2, e, s)
  <2>1. PICK g : g = With(Where(cn, cuts, e), D)
    OBVIOUS
  <2>2. Sends(g, d, s) /\ Lim(g, d) = LimOf(n2, c2, e)
    BY <1>4, <1>10, <2>1 DEF Ok
  <2>3. g.e = e /\ g.C = D
    <3>1. PICK b : b = Where(cn, cuts, e)
      OBVIOUS
    <3>2. b.e = e
      BY <3>1, WhereIs
    <3> QED BY <2>1, <3>1, <3>2, WithIs
  <2> QED BY ONLY <1>3, <1>4, <2>2, <2>3 DEF Sends, Carried
<1>11. ASSUME NEW m \in nt2 PROVE m.to \in Ends /\ Carried(n2, c2, Peer(m.to), m.seg)
  <2>1. CASE m \in nt
    <3>1. m.to \in Ends /\ Carried(cn, cuts, Peer(m.to), m.seg)
      BY <2>1 DEF NetOk
    <3>2. Peer(m.to) = e \/ Peer(m.to) = p
      BY <1>1, <3>1 DEF Ends, Peer
    <3> QED BY ONLY <1>8, <1>9, <3>1, <3>2
  <2>2. CASE m.to = p /\ m.seg \in d.out
    BY ONLY <1>2, <1>10, <2>2
  <2> QED BY <1>1, <1>11, <2>1, <2>2 DEF Adds
<1> QED BY <1>11 DEF NetOk

LEMMA StepMoves ==
  ASSUME NEW cn, NEW cuts, NEW nt, NEW sp, Sys(cn, cuts, nt, sp), NEW e \in Ends, NEW D, NEW d, NEW n2, NEW c2,
         Steps(cn, cuts, e, D, d, n2, c2), NEW nt2, Adds(nt, e, d, nt2), NEW sp2 \in Nat, sp <= sp2,
         e = "server" => sp2 > 0
  PROVE  Sys(n2, c2, nt2, sp2)
<1>1. Both(cn, cuts) /\ NetOk(cn, cuts, nt)
  BY DEF Sys, Both
<1>2. PICK f : f = [d EXCEPT !.out = {}]
  OBVIOUS
<1>3. Stepped(cn, cuts, e, D, d, n2, c2, f)
  BY <1>1, <1>2, SteppedIs DEF Both
<1>4. Ok(With(Where(cn, cuts, e), D), d)
  BY DEF Steps, Moves
<1>5. NetOk(n2, c2, nt2)
  BY ONLY <1>1, <1>3, <1>4, e \in Ends, Adds(nt, e, d, nt2), StepNet
<1>6. EndOk(n2, c2, e)
  BY ONLY <1>1, <1>3, e \in Ends, StepSelf
<1>7. PICK p : p = Peer(e)
  OBVIOUS
<1>8. EndOk(n2, c2, p)
  BY ONLY <1>1, <1>3, <1>7, e \in Ends, StepPeer
<1>9. \A x \in Ends : x = e \/ x = p
  BY ONLY <1>7, e \in Ends DEF Ends, Peer
<1>10. \A x \in Ends : EndOk(n2, c2, x)
  BY ONLY <1>6, <1>8, <1>9
<1>11. Cuts(n2, c2) /\ c2[p] = cuts[p]
  BY <1>3, <1>7 DEF Stepped
<1>12. c2["server"] # {} => sp2 > 0
  <2>1. CASE e = "server"
    BY <2>1
  <2>2. CASE e # "server"
    <3>1. p = "server"
      BY <1>7, <2>2 DEF Ends, Peer
    <3>2. cuts["server"] # {} => sp > 0
      BY DEF Sys
    <3>3. sp \in Nat
      BY DEF Sys
    <3> QED BY <1>11, <3>1, <3>2, <3>3
  <2> QED BY <2>1, <2>2
<1> QED BY ONLY <1>5, <1>10, <1>11, <1>12, sp2 \in Nat DEF Sys

-----------------------------------------------------------------------------
TcpInv == \E cuts : Sys(conn, cuts, net, spawned)

(* A step of an end, written as the specification does *)
LEMMA StepAction ==
  ASSUME NEW cuts, Sys(conn, cuts, net, spawned), NEW e \in Ends, NEW d, NEW gone, Step(e, d, gone), NEW D,
         Moves(Where(conn, cuts, e), conn[e], LimOf(conn, cuts, e), D, d),
         spawned' \in Nat, spawned <= spawned', e = "server" => spawned' > 0
  PROVE  TcpInv'
<1>1. PICK n2, nt2, sp2, c2 : n2 = conn' /\ nt2 = net' /\ sp2 = spawned' /\ c2 = [cuts EXCEPT ![e] = D]
  OBVIOUS
<1>2. n2 = [conn EXCEPT ![e] = [d EXCEPT !.out = {}]]
  BY <1>1 DEF Step
<1>3. Steps(conn, cuts, e, D, d, n2, c2)
  BY <1>1, <1>2 DEF Steps
<1>4. Adds(net, e, d, nt2)
  <2>1. PICK more : more = {[to |-> Peer(e), seg |-> s] : s \in d.out}
    OBVIOUS
  <2>2. nt2 = (net \ gone) \cup more \/ nt2 = net \ gone
    BY <1>1, <2>1 DEF Step
  <2>3. ASSUME NEW m \in more PROVE m.to = Peer(e) /\ m.seg \in d.out
    BY <2>1, <2>3
  <2> QED BY ONLY <2>2, <2>3 DEF Adds
<1>5. sp2 \in Nat /\ spawned <= sp2 /\ (e = "server" => sp2 > 0)
  BY <1>1
<1>6. Sys(n2, c2, nt2, sp2)
  BY ONLY Sys(conn, cuts, net, spawned), e \in Ends, <1>3, <1>4, <1>5, StepMoves
<1> QED BY <1>1, <1>6 DEF TcpInv

LEMMA StepGrown ==
  ASSUME NEW cuts, Sys(conn, cuts, net, spawned), NEW e \in Ends, NEW d, NEW gone, Step(e, d, gone), cuts[e] # {},
         \E D : Grown(Where(conn, cuts, e), conn[e], D, d), d.pend = <<>>, UNCHANGED spawned
  PROVE  TcpInv'
<1>1. PICK g, c, l : g = Where(conn, cuts, e) /\ c = conn[e] /\ l = LimOf(conn, cuts, e)
  OBVIOUS
<1>2. PICK D : Grown(g, c, D, d)
  BY <1>1
<1>3. l = Lim(g, c)
  <2>1. g.p = Peer(e) /\ g.w = conn[Peer(e)].written
    BY <1>1, WhereIs
  <2>2. LimOf(conn, cuts, e) = Lim(g, conn[e])
    BY ONLY <2>1, cuts[e] # {}, LimOfIs
  <2> QED BY ONLY <1>1, <2>2
<1>4. Moves(g, c, l, D, d)
  BY ONLY <1>2, <1>3, d.pend = <<>>, GrownMoves
<1>5. spawned' \in Nat /\ spawned <= spawned' /\ (e = "server" => spawned' > 0)
  BY DEF Sys
<1>6. Moves(Where(conn, cuts, e), conn[e], LimOf(conn, cuts, e), D, d)
  BY ONLY <1>1, <1>4
<1> QED BY ONLY Sys(conn, cuts, net, spawned), e \in Ends, Step(e, d, gone), <1>5, <1>6, StepAction

LEMMA StepKept ==
  ASSUME NEW cuts, Sys(conn, cuts, net, spawned), NEW e \in Ends, NEW d, NEW gone, Step(e, d, gone), cuts[e] # {},
         Kept(Where(conn, cuts, e), conn[e], d), d.pend = <<>>, UNCHANGED spawned
  PROVE  TcpInv'
<1>1. PICK g, c : g = Where(conn, cuts, e) /\ c = conn[e]
  OBVIOUS
<1>2. Env(g) /\ Ok(g, c) /\ g.C # {} /\ Kept(g, c, d)
  BY <1>1, WhereIs DEF Sys, EndOk
<1>3. Grown(g, c, g.C, d)
  BY ONLY <1>2, KeptGrown
<1>4. \E D : Grown(Where(conn, cuts, e), conn[e], D, d)
  BY ONLY <1>1, <1>3
<1> QED BY ONLY Sys(conn, cuts, net, spawned), e \in Ends, Step(e, d, gone), cuts[e] # {}, <1>4, d.pend = <<>>,
                UNCHANGED spawned, StepGrown

(* What is known of an end that is not closed *)
LEMMA AtEnd ==
  ASSUME NEW cuts, Sys(conn, cuts, net, spawned), NEW e \in Ends, conn[e].state # "CLOSED", NEW g, NEW c,
         g = Where(conn, cuts, e), c = conn[e]
  PROVE  Env(g) /\ Ok(g, c) /\ g.C # {} /\ g.e = e /\ c.pend = <<>> /\ cuts[e] # {}
<1>1. EndOk(conn, cuts, e)
  BY DEF Sys
<1>2. cuts[e] # {}
  BY <1>1, FreshIs
<1> QED BY <1>1, <1>2, WhereIs DEF EndOk

-----------------------------------------------------------------------------
(* An end that has no connection *)
LEMMA PlusType ==
  ASSUME NEW a \in Int, NEW b \in Int
  PROVE  Plus(a, b) \in Seqs
<1>1. SeqSpace \in Nat /\ SeqSpace >= 1 /\ a + b \in Int
  BY TcpConsts
<1> QED BY ONLY <1>1 DEF Plus, Seqs

LEMMA RstWire ==
  ASSUME NEW e, NEW C, NEW w, NEW k, NEW lim, NEW a \in Seqs, NEW b \in Seqs, NEW s, s = TcpRst(a, b)
  PROVE  WireOK(e, C, w, k, lim, s)
<1>1. s.seq = a /\ s.ackno = b /\ s.data = <<>> /\ s.syn = FALSE /\ s.fin = FALSE /\ s.rst = TRUE /\ s.ack = TRUE
      /\ WireRec(s)
  BY DEF TcpRst, WireRec
<1>2. s.syn \in BOOLEAN /\ s.fin \in BOOLEAN /\ s.rst \in BOOLEAN /\ s.ack \in BOOLEAN /\ s.rst
  BY ONLY <1>1, Zenon
<1>3. s.data \in Seq(Nat)
  BY ONLY <1>1
<1> QED BY ONLY <1>1, <1>2, <1>3, a \in Seqs, b \in Seqs DEF WireOK

LEMMA StepStill ==
  ASSUME NEW cuts, Sys(conn, cuts, net, spawned), NEW e \in Ends, NEW d, NEW gone, Step(e, d, gone),
         d = conn[e] \/ \E a, b \in Seqs : d = Send(conn[e], TcpRst(a, b)), UNCHANGED spawned
  PROVE  TcpInv'
<1>1. EndOk(conn, cuts, e) /\ Cuts(conn, cuts) /\ NetOk(conn, cuts, net)
  BY DEF Sys
<1>2. PICK c : c = conn[e]
  OBVIOUS
<1>3. Pcb(c) /\ c.out = {}
  <2>1. CASE cuts[e] = {}
    BY <1>1, <1>2, <2>1, FreshIs DEF EndOk
  <2>2. CASE cuts[e] # {}
    BY <1>1, <1>2, <2>2 DEF EndOk, Ok
  <2> QED BY <2>1, <2>2
<1>4. [d EXCEPT !.out = {}] = c /\ \A s \in d.out : \E a, b \in Seqs : s = TcpRst(a, b)
  <2>1. CASE d = conn[e]
    <3>1. [c EXCEPT !.out = {}] = c
      BY ONLY <1>3 DEF Pcb, Fields
    <3> QED BY ONLY <1>2, <1>3, <2>1, <3>1
  <2>2. CASE \E a, b \in Seqs : d = Send(conn[e], TcpRst(a, b))
    <3>1. PICK a \in Seqs, b \in Seqs : d = Send(conn[e], TcpRst(a, b))
      BY <2>2
    <3>2. PICK s : s = TcpRst(a, b)
      OBVIOUS
    <3>3. d = [c EXCEPT !.out = {s}]
      <4>1. d = [c EXCEPT !.out = @ \cup {s}]
        BY <1>2, <3>1, <3>2 DEF Send
      <4>2. c.out \cup {s} = {s}
        BY <1>3
      <4> QED BY ONLY <1>3, <4>1, <4>2 DEF Pcb, Fields
    <3>4. PICK o : o = {s}
      OBVIOUS
    <3>5. d = [c EXCEPT !.out = o]
      BY <3>3, <3>4
    <3>6. d.out = o
      BY ONLY <1>3, <3>5 DEF Pcb, Fields
    <3>7. [d EXCEPT !.out = {}] = c
      BY ONLY <1>3, <3>5 DEF Pcb, Fields
    <3> QED BY ONLY <3>2, <3>4, <3>6, <3>7, a \in Seqs, b \in Seqs
  <2> QED BY <2>1, <2>2
<1>5. conn' = conn
  <2>1. conn' = [conn EXCEPT ![e] = c]
    BY ONLY <1>4, Step(e, d, gone) DEF Step
  <2> QED BY ONLY <1>1, <1>2, <2>1, e \in Ends DEF Cuts
<1>6. NetOk(conn, cuts, net')
  <2>1. PICK more : more = {[to |-> Peer(e), seg |-> s] : s \in d.out}
    OBVIOUS
  <2>2. net' = (net \ gone) \cup more \/ net' = net \ gone
    BY <2>1 DEF Step
  <2>3. ASSUME NEW m \in more PROVE m.to \in Ends /\ Carried(conn, cuts, Peer(m.to), m.seg)
    <3>1. m.to = Peer(e) /\ m.seg \in d.out
      BY <2>1, <2>3
    <3>2. PICK a \in Seqs, b \in Seqs : m.seg = TcpRst(a, b)
      BY <1>4, <3>1
    <3>3. \A C, w, k, lim : WireOK(e, C, w, k, lim, m.seg)
      BY ONLY <3>2, RstWire
    <3>4. Carried(conn, cuts, e, m.seg)
      BY ONLY <3>3 DEF Carried
    <3>5. Peer(e) \in Ends /\ Peer(Peer(e)) = e
      BY PeerIs
    <3> QED BY ONLY <3>1, <3>4, <3>5
  <2> QED BY ONLY <1>1, <2>2, <2>3 DEF NetOk
<1>7. Sys(conn, cuts, net', spawned)
  BY <1>6 DEF Sys
<1> QED BY <1>5, <1>7 DEF TcpInv

-----------------------------------------------------------------------------
-----------------------------------------------------------------------------
(* The actions *)
LEMMA ArriveOk ==
  ASSUME NEW cuts, Sys(conn, cuts, net, spawned), NEW m \in net, NEW again, NEW takes, Arrive(m, again, takes)
  PROVE  TcpInv'
<1>1. PICK e, s, c, gone : e = m.to /\ s = m.seg /\ c = conn[m.to] /\ gone = IF again THEN {} ELSE {m}
  OBVIOUS
<1>2. e \in Ends /\ Carried(conn, cuts, Peer(e), s)
  BY <1>1 DEF Sys, NetOk
<1>3. PICK g : g = Where(conn, cuts, e)
  OBVIOUS
<1>4. Env(g) /\ g.e = e /\ WireOK(g.p, g.Cp, g.w, g.k, g.lp, s) /\ c = conn[e]
  <2>1. Env(g) /\ c = conn[e]
    BY <1>1, <1>2, <1>3 DEF Sys, EndOk
  <2>2. /\ g.e = e /\ g.p = Peer(e) /\ g.Cp = cuts[Peer(e)] /\ g.w = conn[Peer(e)].written
        /\ g.k = conn[Peer(e)].closing /\ g.lp = LimOf(conn, cuts, Peer(e))
    BY ONLY <1>3, WhereIs
  <2> QED BY ONLY <1>2, <2>1, <2>2 DEF Carried
<1>5. CASE c.state # "CLOSED"
  <2>1. Step(e, TcpInput(c, s, takes), gone) /\ UNCHANGED spawned
    BY <1>1, <1>5 DEF Arrive
  <2>2. PICK d : d = TcpInput(c, s, takes)
    OBVIOUS
  <2>3. Env(g) /\ Ok(g, c) /\ c.pend = <<>> /\ cuts[e] # {}
    BY ONLY Sys(conn, cuts, net, spawned), <1>2, <1>3, <1>4, <1>5, AtEnd
  <2>4. Input(g, c, d)
    BY ONLY <1>4, <1>5, <2>2, <2>3, TcpInputOk
  <2>5. Kept(Where(conn, cuts, e), conn[e], d) /\ d.pend = <<>>
    BY ONLY <1>3, <1>4, <2>4 DEF Input
  <2>6. Step(e, d, gone) /\ UNCHANGED spawned
    BY ONLY <2>1, <2>2
  <2> QED BY ONLY Sys(conn, cuts, net, spawned), <1>2, <2>3, <2>5, <2>6, StepKept
<1>6. CASE c.state = "CLOSED" /\ e = "server" /\ Accepts(s)
  <2>1. Step(e, SynAck(s), gone) /\ spawned' = spawned + 1
    BY <1>1, <1>6 DEF Arrive
  <2>2. spawned = 0 /\ cuts[e] = {} /\ spawned \in Nat
    <3>1. spawned < MaxConns /\ MaxConns \in Nat
      BY <1>6, TcpConsts DEF Accepts
    <3>2. MaxConns <= 1
      BY <1>4 DEF Env, OneShortConnection
    <3>3. spawned \in Nat /\ (cuts["server"] # {} => spawned > 0)
      BY DEF Sys
    <3> QED BY ONLY <1>6, <3>1, <3>2, <3>3
  <2>3. c = TcpNew(Iss[e]) /\ g.C = {} /\ LimOf(conn, cuts, e) = 1
    <3>1. EndOk(conn, cuts, e)
      BY <1>2 DEF Sys
    <3>2. g.C = cuts[e]
      BY ONLY <1>3, WhereIs
    <3>3. conn[e] = TcpNew(Iss[e])
      BY ONLY <2>2, <3>1 DEF EndOk
    <3>4. LimOf(conn, cuts, e) = 1
      BY ONLY <2>2 DEF LimOf
    <3> QED BY ONLY <1>4, <2>2, <3>2, <3>3, <3>4
  <2>4. g.lp <= 2
    <3>1. PICK p : p = Peer(e)
      OBVIOUS
    <3>2. p \in Ends /\ Peer(p) = e
      BY <1>2, <3>1, PeerIs
    <3>3. Cuts(conn, cuts) /\ \A x \in Ends : EndOk(conn, cuts, x)
      BY DEF Sys
    <3>4. LimOf(conn, cuts, p) <= conn[e].written + 2
      BY ONLY <3>2, <3>3, EndFacts
    <3>5. conn[e].written = 0
      BY ONLY <1>2, <2>2, <3>3, FreshIs
    <3>6. g.lp = LimOf(conn, cuts, p)
      BY <1>3, <3>1, WhereIs
    <3>7. LimOf(conn, cuts, p) \in Nat
      BY ONLY <3>2, <3>3, EndFacts
    <3> QED BY ONLY <3>4, <3>5, <3>6, <3>7
  <2>5. PICK d, D : d = SynAck(s) /\ D = {0}
    OBVIOUS
  <2>6. ~s.rst /\ s.syn /\ g.e = "server" /\ c = TcpNew(Iss["server"])
    BY <1>4, <1>6, <2>3 DEF Accepts
  <2>7. Moves(g, c, 1, D, d)
    BY ONLY <1>4, <2>3, <2>4, <2>5, <2>6, SynAckOk
  <2>8. Moves(Where(conn, cuts, e), conn[e], LimOf(conn, cuts, e), D, d)
    BY ONLY <1>3, <1>4, <2>3, <2>7
  <2>9. Step(e, d, gone) /\ spawned' \in Nat /\ spawned <= spawned' /\ spawned' > 0
    BY ONLY <2>1, <2>2, <2>5
  <2> QED BY ONLY Sys(conn, cuts, net, spawned), <1>2, <2>8, <2>9, StepAction
<1>7. CASE c.state = "CLOSED" /\ ~(e = "server" /\ Accepts(s))
  <2>1. PICK d : d = CASE s.rst \/ (e = "server" /\ ~s.ack) -> c
                       [] e = "server" /\ ~s.rst /\ s.ack -> Send(c, TcpRst(Plus(s.ackno, 1), SegEnd(s)))
                       [] OTHER -> Send(c, TcpRst(s.ackno, SegEnd(s)))
    OBVIOUS
  <2>2. Step(e, d, gone) /\ UNCHANGED spawned
    BY <1>1, <1>7, <2>1 DEF Arrive
  <2>3. Plus(s.ackno, 1) \in Seqs /\ SegEnd(s) \in Seqs /\ s.ackno \in Seqs
    <3>1. s.seq \in Seqs /\ s.ackno \in Seqs /\ s.data \in Seq(Nat) /\ s.syn \in BOOLEAN /\ s.fin \in BOOLEAN
      BY <1>4 DEF WireOK
    <3>2. TcpLen(s) \in Nat
      BY <3>1, TcpLenIs
    <3>3. s.seq \in Int /\ s.ackno \in Int /\ 1 \in Int /\ TcpLen(s) \in Int
      BY <3>1, <3>2, TcpConsts DEF Seqs
    <3> QED BY <3>1, <3>3, PlusType DEF SegEnd
  <2>4. d = conn[e] \/ \E a, b \in Seqs : d = Send(conn[e], TcpRst(a, b))
    <3>1. d = c \/ d = Send(c, TcpRst(Plus(s.ackno, 1), SegEnd(s))) \/ d = Send(c, TcpRst(s.ackno, SegEnd(s)))
      BY ONLY <2>1
    <3> QED BY ONLY <1>4, <2>3, <3>1
  <2> QED BY ONLY Sys(conn, cuts, net, spawned), <1>2, <2>2, <2>4, StepStill
<1> QED BY <1>5, <1>6, <1>7

LEMMA DeliverOk ==
  ASSUME NEW cuts, Sys(conn, cuts, net, spawned), Deliver
  PROVE  TcpInv'
<1>1. PICK m \in net, again \in BOOLEAN, takes \in BOOLEAN : Arrive(m, again, takes)
  BY DEF Deliver
<1> QED BY ONLY Sys(conn, cuts, net, spawned), <1>1, ArriveOk

LEMMA LoseOk ==
  ASSUME NEW cuts, Sys(conn, cuts, net, spawned), Lose
  PROVE  TcpInv'
<1>1. conn' = conn /\ spawned' = spawned /\ net' \subseteq net
  BY DEF Lose
<1>2. Sys(conn, cuts, net', spawned)
  BY <1>1 DEF Sys, NetOk
<1> QED BY <1>1, <1>2 DEF TcpInv

LEMMA ConnectStep ==
  ASSUME NEW cuts, Sys(conn, cuts, net, spawned), Connect
  PROVE  TcpInv'
<1>1. PICK e : e = "client"
  OBVIOUS
<1>2. e \in Ends /\ EndOk(conn, cuts, e) /\ Cuts(conn, cuts) /\ \A x \in Ends : EndOk(conn, cuts, x)
  BY <1>1 DEF Sys, Ends
<1>3. PICK g, n, i : g = Where(conn, cuts, e) /\ n = TcpNew(Iss["client"]) /\ i = Plus(Iss["client"], SeqSpace - 1)
  OBVIOUS
<1>4. conn[e] = n
  BY <1>1, <1>3 DEF Connect
<1>5. PICK c : c = Asking(i)
  OBVIOUS
<1>6. PICK d, D : d = Output(TcpEnqueue(c, <<>>, TRUE, FALSE, FALSE)) /\ D = {0}
  OBVIOUS
<1>7. Step(e, d, {}) /\ UNCHANGED spawned
  <2>1. c = [conn["client"] EXCEPT !.lastack = i, !.snd_lbb = i, !.snd_wnd = TcpWnd,
                                   !.state = "SYN_SENT", !.attached = TRUE]
    BY <1>1, <1>3, <1>4, <1>5 DEF Asking
  <2> QED BY ONLY <1>1, <1>3, <1>6, <2>1, Connect DEF Connect
<1>8. NewPcb(Iss["client"], n)
  <2>1. PICK iss : iss = Iss["client"]
    OBVIOUS
  <2>2. NewPcb(iss, n)
    BY ONLY <1>3, <2>1, TcpNewIs
  <2> QED BY ONLY <2>1, <2>2
<1>9. Env(g) /\ g.e = e /\ g.C = cuts[e] /\ g.lp = LimOf(conn, cuts, Peer(e))
  BY <1>2, <1>3, WhereIs DEF EndOk
<1>10. cuts[e] = {}
  <2>1. SUFFICES ASSUME cuts[e] # {} PROVE FALSE
    OBVIOUS
  <2>2. Ok(g, n)
    BY <1>2, <1>3, <1>4, <2>1 DEF EndOk
  <2>3. n.state = "CLOSED" /\ ~n.err /\ ~n.closing
    BY <1>8 DEF NewPcb
  <2>4. g.e = "server" \/ n.err \/ n.closing
    BY <2>2, <2>3 DEF Ok, Life
  <2> QED BY <1>1, <1>9, <2>3, <2>4
<1>11. LimOf(conn, cuts, e) = 1 /\ g.C = {}
  BY <1>9, <1>10 DEF LimOf
<1>12. g.lp <= 2
  <2>1. PICK p : p = Peer(e)
    OBVIOUS
  <2>2. p \in Ends /\ Peer(p) = e
    BY <1>2, <2>1, PeerIs
  <2>3. LimOf(conn, cuts, p) <= conn[e].written + 2 /\ LimOf(conn, cuts, p) \in Nat
    BY ONLY <1>2, <2>2, EndFacts
  <2>4. conn[e].written = 0
    BY ONLY <1>4, <1>8 DEF NewPcb
  <2> QED BY ONLY <1>9, <2>1, <2>3, <2>4
<1>13. g.e = "client"
  BY <1>1, <1>9
<1>14. Moves(g, n, 1, D, d)
  BY ONLY <1>3, <1>5, <1>6, <1>9, <1>11, <1>12, <1>13, ConnectOk
<1>15. Moves(Where(conn, cuts, e), conn[e], LimOf(conn, cuts, e), D, d)
  BY ONLY <1>3, <1>4, <1>11, <1>14
<1>16. spawned' \in Nat /\ spawned <= spawned' /\ (e = "server" => spawned' > 0)
  BY <1>1, <1>7 DEF Sys
<1> QED BY ONLY Sys(conn, cuts, net, spawned), <1>2, <1>7, <1>15, <1>16, StepAction

LEMMA WriteStep ==
  ASSUME NEW cuts, Sys(conn, cuts, net, spawned), NEW e \in Ends, NEW n \in 1 .. TcpMss, Write(e, n)
  PROVE  TcpInv'
<1>1. PICK g, c : g = Where(conn, cuts, e) /\ c = conn[e]
  OBVIOUS
<1>2. c.attached /\ ~c.closing /\ c.written + n <= MaxBytes[e] /\ c.state \in Open
  BY <1>1 DEF Write, Open
<1>3. c.state # "CLOSED" /\ c.state \in Active
  BY <1>2 DEF Open, Active, States
<1>4. Env(g) /\ Ok(g, c) /\ g.C # {} /\ g.e = e /\ c.pend = <<>> /\ cuts[e] # {}
  BY ONLY Sys(conn, cuts, net, spawned), e \in Ends, <1>1, <1>3, AtEnd
<1>5. PICK q : q = WriteQueued(c, n)
  OBVIOUS
<1>6. PICK d : d = IF q.unacked = <<>> THEN Output(q) ELSE q
  OBVIOUS
<1>7. Step(e, d, {}) /\ UNCHANGED spawned
  BY <1>1, <1>5, <1>6 DEF Write, WriteQueued, Bytes
<1>8. n \in Nat /\ n >= 1
  BY TcpConsts
<1>9. (\E D : Grown(g, c, D, q)) /\ q.state = c.state /\ q.pend = c.pend
  BY ONLY <1>2, <1>4, <1>5, <1>8, WriteOk
<1>10. PICK D : Grown(g, c, D, q)
  BY <1>9
<1>11. Grown(g, c, D, d) /\ d.pend = <<>>
  <2>1. CASE q.unacked = <<>>
    <3>1. d = Output(q)
      BY <1>6, <2>1
    <3>2. PICK h : h = With(g, D)
      OBVIOUS
    <3>3. Env(h) /\ Ok(h, q)
      BY <1>4, <1>10, <3>2, WithEnv DEF Grown
    <3>4. q.state \in Active
      BY <1>3, <1>9
    <3>5. Kept(h, q, d) /\ SameRcv(q, d)
      BY ONLY <3>1, <3>3, <3>4, OutputOk
    <3>6. Kept(With(g, D), q, d) /\ d.pend = <<>>
      BY <1>4, <1>9, <3>2, <3>5 DEF SameRcv
    <3> QED BY ONLY <1>4, <1>10, <3>6, GrownKept
  <2>2. CASE q.unacked # <<>>
    BY <1>4, <1>6, <1>9, <1>10, <2>2
  <2> QED BY <2>1, <2>2
<1>12. \E X : Grown(Where(conn, cuts, e), conn[e], X, d)
  BY ONLY <1>1, <1>11
<1> QED BY ONLY Sys(conn, cuts, net, spawned), e \in Ends, <1>4, <1>7, <1>11, <1>12, StepGrown

LEMMA RecvedStep ==
  ASSUME NEW cuts, Sys(conn, cuts, net, spawned), NEW e \in Ends, Recved(e)
  PROVE  TcpInv'
<1>1. PICK g, c, rw : g = Where(conn, cuts, e) /\ c = conn[e] /\ rw = Min({TcpWnd, conn[e].rcv_wnd + conn[e].held})
  OBVIOUS
<1>2. c.held > 0 /\ c.state # "CLOSED"
  BY <1>1 DEF Recved
<1>3. Env(g) /\ Ok(g, c) /\ c.pend = <<>> /\ cuts[e] # {}
  BY ONLY Sys(conn, cuts, net, spawned), e \in Ends, <1>1, <1>2, AtEnd
<1>4. PICK d : d = Ack([c EXCEPT !.rcv_wnd = rw, !.held = 0])
  OBVIOUS
<1>5. Step(e, d, {}) /\ UNCHANGED spawned
  <2>1. [conn[e] EXCEPT !.rcv_wnd = Min({TcpWnd, @ + conn[e].held}), !.held = 0] = [c EXCEPT !.rcv_wnd = rw, !.held = 0]
    BY <1>1
  <2> QED BY ONLY <1>4, <2>1, Recved(e) DEF Recved
<1>6. Kept(g, c, d) /\ d.pend = c.pend
  BY ONLY <1>2, <1>3, <1>4, RecvedOk
<1>7. Kept(Where(conn, cuts, e), conn[e], d) /\ d.pend = <<>>
  BY ONLY <1>1, <1>3, <1>6
<1> QED BY ONLY Sys(conn, cuts, net, spawned), e \in Ends, <1>3, <1>5, <1>7, StepKept

-----------------------------------------------------------------------------
LEMMA CloseStep ==
  ASSUME NEW cuts, Sys(conn, cuts, net, spawned), NEW e \in Ends, Close(e)
  PROVE  TcpInv'
<1>1. PICK g, c : g = Where(conn, cuts, e) /\ c = conn[e]
  OBVIOUS
<1>2. c.attached /\ ~c.closing /\ c.state \in Active /\ ~CloseFails(c)
  BY <1>1 DEF Close
<1>3. c.state # "CLOSED"
  BY <1>2, StateSets
<1>4. Env(g) /\ Ok(g, c) /\ g.C # {} /\ c.pend = <<>> /\ cuts[e] # {}
  BY ONLY Sys(conn, cuts, net, spawned), e \in Ends, <1>1, <1>3, AtEnd
<1>5. PICK d : d = TcpClose([c EXCEPT !.closing = TRUE])
  OBVIOUS
<1>6. Step(e, d, {}) /\ UNCHANGED spawned
  BY ONLY <1>1, <1>5, Close(e) DEF Close
<1>7. (\E D : Grown(g, c, D, d)) /\ d.pend = <<>>
  BY ONLY <1>2, <1>4, <1>5, CloseOk
<1>8. \E X : Grown(Where(conn, cuts, e), conn[e], X, d)
  BY ONLY <1>1, <1>7
<1> QED BY ONLY Sys(conn, cuts, net, spawned), e \in Ends, <1>4, <1>6, <1>7, <1>8, StepGrown

LEMMA DeleteStep ==
  ASSUME NEW cuts, Sys(conn, cuts, net, spawned), NEW e \in Ends, Delete(e)
  PROVE  TcpInv'
<1>1. PICK g, c : g = Where(conn, cuts, e) /\ c = conn[e]
  OBVIOUS
<1>2. c.attached /\ c.state # "CLOSED"
  BY <1>1 DEF Delete
<1>4. Env(g) /\ Ok(g, c) /\ g.C # {} /\ c.pend = <<>> /\ cuts[e] # {}
  BY ONLY Sys(conn, cuts, net, spawned), e \in Ends, <1>1, <1>2, AtEnd
<1>5. PICK b : b = [c EXCEPT !.attached = FALSE, !.closing = TRUE, !.held = 0]
  OBVIOUS
<1>6. PICK d : d = IF CloseFails(b) THEN Abort(b) ELSE TcpClose(b)
  OBVIOUS
<1>7. Step(e, d, {}) /\ UNCHANGED spawned
  BY ONLY <1>1, <1>5, <1>6, Delete(e) DEF Delete
<1>8. (\E D : Grown(g, c, D, d)) /\ d.pend = <<>>
  BY ONLY <1>2, <1>4, <1>5, <1>6, DeleteOk
<1>9. \E X : Grown(Where(conn, cuts, e), conn[e], X, d)
  BY ONLY <1>1, <1>8
<1> QED BY ONLY Sys(conn, cuts, net, spawned), e \in Ends, <1>4, <1>7, <1>8, <1>9, StepGrown

LEMMA TimerStep ==
  ASSUME NEW cuts, Sys(conn, cuts, net, spawned), NEW e \in Ends, Timer(e)
  PROVE  TcpInv'
<1>1. PICK g, c : g = Where(conn, cuts, e) /\ c = conn[e]
  OBVIOUS
<1>2. c.state # "CLOSED"
  <2>1. c.state \in Active \/ c.state = "TIME_WAIT"
    BY <1>1 DEF Timer, FastTmr, Rexmit, Poll, Expire, TimedOut, DropOoseq
  <2> QED BY <2>1, StateSets
<1>3. Env(g) /\ Ok(g, c) /\ c.pend = <<>> /\ cuts[e] # {}
  BY ONLY Sys(conn, cuts, net, spawned), e \in Ends, <1>1, <1>2, AtEnd
<1>4. SUFFICES \E d : Step(e, d, {}) /\ UNCHANGED spawned /\ Kept(g, c, d) /\ d.pend = <<>>
  <2>1. PICK d : Step(e, d, {}) /\ UNCHANGED spawned /\ Kept(g, c, d) /\ d.pend = <<>>
    BY <1>4
  <2>2. Kept(Where(conn, cuts, e), conn[e], d)
    BY ONLY <1>1, <2>1
  <2> QED BY ONLY Sys(conn, cuts, net, spawned), e \in Ends, <1>3, <2>1, <2>2, StepKept
<1>5. CASE FastTmr(e)
  <2>1. PICK d : d = AckNow(c)
    OBVIOUS
  <2>2. Step(e, d, {}) /\ UNCHANGED spawned /\ c.state \in Active /\ c.delay
    BY ONLY <1>1, <1>5, <2>1 DEF FastTmr
  <2>3. Kept(g, c, d) /\ d.pend = c.pend
    BY ONLY <1>3, <2>1, <2>2, FastTmrOk
  <2> QED BY ONLY <1>3, <2>2, <2>3
<1>6. CASE Rexmit(e)
  <2>1. PICK b : b = MovedBack(c)
    OBVIOUS
  <2>2. PICK d : d = [RexmitSeg(b, Head(c.unacked)) EXCEPT !.cwnd = TcpMss]
    OBVIOUS
  <2>3. Step(e, d, {}) /\ UNCHANGED spawned /\ c.state \in Active /\ c.unacked # <<>>
    BY ONLY <1>1, <1>6, <2>1, <2>2 DEF Rexmit, MovedBack
  <2>4. Kept(g, c, d) /\ d.pend = c.pend
    BY ONLY <1>3, <2>1, <2>2, <2>3, RexmitOk
  <2> QED BY ONLY <1>3, <2>3, <2>4
<1>7. CASE Poll(e)
  <2>1. PICK d : d = Output(c)
    OBVIOUS
  <2>2. Step(e, d, {}) /\ UNCHANGED spawned /\ c.state \in Active
    BY ONLY <1>1, <1>7, <2>1 DEF Poll
  <2>3. Kept(g, c, d) /\ SameRcv(c, d)
    BY ONLY <1>3, <2>1, <2>2, OutputOk
  <2>4. d.pend = c.pend
    BY ONLY <2>3 DEF SameRcv
  <2> QED BY ONLY <1>3, <2>2, <2>3, <2>4
<1>8. CASE Expire(e)
  <2>1. PICK d : d = FreedPcb(IF c.state = "TIME_WAIT" THEN c ELSE Errf(c))
    OBVIOUS
  <2>2. Step(e, d, {}) /\ UNCHANGED spawned
    BY ONLY <1>1, <1>8, <2>1 DEF Expire
  <2>3. Kept(g, c, d) /\ d.pend = <<>>
    BY ONLY <1>2, <1>3, <2>1, ExpireOk
  <2> QED BY ONLY <2>2, <2>3
<1>9. CASE DropOoseq(e)
  <2>1. PICK d : d = [c EXCEPT !.ooseq = <<>>]
    OBVIOUS
  <2>2. Step(e, d, {}) /\ UNCHANGED spawned /\ c.state \in Active /\ c.ooseq # <<>>
    BY ONLY <1>1, <1>9, <2>1 DEF DropOoseq
  <2>3. Kept(g, c, d) /\ d.pend = c.pend
    BY ONLY <1>3, <2>1, <2>2, DropOoseqOk
  <2> QED BY ONLY <1>3, <2>2, <2>3
<1> QED BY <1>5, <1>6, <1>7, <1>8, <1>9 DEF Timer

LEMMA TcpInitOk ==
  ASSUME OneShortConnection, TcpInit
  PROVE  TcpInv
<1>1. PICK cuts : cuts = [e \in Ends |-> {}]
  OBVIOUS
<1>2. Cuts(conn, cuts) /\ (\A e \in Ends : cuts[e] = {}) /\ conn = [e \in Ends |-> TcpNew(Iss[e])]
  <2>1. conn = [e \in Ends |-> TcpNew(Iss[e])]
    BY DEF TcpInit
  <2>2. cuts \in [Ends -> SUBSET Nat]
    BY <1>1
  <2>3. \A e \in Ends : conn[e] = TcpNew(Iss[e])
    BY <2>1
  <2>4. conn = [e \in Ends |-> conn[e]]
    BY ONLY <2>1, <2>3
  <2> QED BY <1>1, <2>1, <2>2, <2>4 DEF Cuts
<1>3. ASSUME NEW e \in Ends
      PROVE  conn[e].written = 0 /\ conn[e].closing = FALSE /\ conn[e].pend = <<>> /\ conn[e].out = {}
             /\ conn[e] = TcpNew(Iss[e])
  <2>1. PICK iss, c : iss = Iss[e] /\ c = conn[e]
    OBVIOUS
  <2>2. c = TcpNew(iss)
    BY <1>2, <2>1
  <2>3. NewPcb(iss, c)
    BY ONLY <2>2, TcpNewIs
  <2> QED BY <2>1, <2>2, <2>3 DEF NewPcb
<1>4. ASSUME NEW e \in Ends PROVE EndOk(conn, cuts, e)
  <2>1. PICK g, p : g = Where(conn, cuts, e) /\ p = Peer(e)
    OBVIOUS
  <2>2. p \in Ends /\ MaxBytes[p] \in Nat
    BY <2>1, PeerIs, TcpConsts
  <2>3. g.e = e /\ g.p = p /\ g.C = {} /\ g.Cp = {} /\ g.w = 0 /\ g.k = FALSE /\ g.lp = 1
    <3>1. /\ g.e = e /\ g.p = p /\ g.C = cuts[e] /\ g.Cp = cuts[p] /\ g.w = conn[p].written
          /\ g.k = conn[p].closing /\ g.lp = LimOf(conn, cuts, p)
      BY ONLY <2>1, WhereIs
    <3>2. conn[p].written = 0 /\ conn[p].closing = FALSE
      BY ONLY <1>3, <2>2
    <3>3. LimOf(conn, cuts, p) = 1
      BY ONLY <1>2, <2>2 DEF LimOf
    <3> QED BY ONLY <1>2, <2>2, <3>1, <3>2, <3>3, e \in Ends
  <2>4. g.k \in BOOLEAN
    BY ONLY <2>3, Zenon
  <2>5. g.w \in 0 .. MaxBytes[g.p] /\ g.C \in SUBSET Nat /\ g.Cp \in SUBSET Nat /\ g.lp \in Nat
    BY ONLY <2>2, <2>3
  <2>6. Env(g)
    BY ONLY OneShortConnection, e \in Ends, <2>1, <2>3, <2>4, <2>5 DEF Env
  <2>7. conn[e].pend = <<>> /\ conn[e].out = {} /\ conn[e] = TcpNew(Iss[e])
    BY ONLY <1>3, e \in Ends
  <2> QED BY ONLY <1>2, <2>1, <2>6, <2>7, e \in Ends DEF EndOk
<1>5. NetOk(conn, cuts, net)
  BY DEF TcpInit, NetOk
<1>6. cuts["server"] = {} /\ spawned \in Nat
  BY <1>2 DEF Ends, TcpInit
<1>7. Sys(conn, cuts, net, spawned)
  BY ONLY <1>2, <1>4, <1>5, <1>6 DEF Sys
<1> QED BY ONLY <1>7 DEF TcpInv

LEMMA TcpStepOk ==
  ASSUME TcpInv, [TcpNext]_tcpVars
  PROVE  TcpInv'
<1>1. PICK cuts : Sys(conn, cuts, net, spawned)
  BY DEF TcpInv
<1>2. CASE Connect
  BY ONLY <1>1, <1>2, ConnectStep
<1>3. CASE Deliver
  BY ONLY <1>1, <1>3, DeliverOk
<1>4. CASE Lose
  BY ONLY <1>1, <1>4, LoseOk
<1>5. ASSUME NEW e \in Ends, App(e) PROVE TcpInv'
  <2>1. ASSUME NEW n \in 1 .. TcpMss, Write(e, n) PROVE TcpInv'
    BY ONLY <1>1, <1>5, <2>1, WriteStep
  <2>2. CASE Recved(e)
    BY ONLY <1>1, <1>5, <2>2, RecvedStep
  <2>3. CASE Close(e)
    BY ONLY <1>1, <1>5, <2>3, CloseStep
  <2>4. CASE Delete(e)
    BY ONLY <1>1, <1>5, <2>4, DeleteStep
  <2> QED BY ONLY <1>5, <2>1, <2>2, <2>3, <2>4 DEF App
<1>6. ASSUME NEW e \in Ends, Timer(e) PROVE TcpInv'
  BY ONLY <1>1, <1>6, TimerStep
<1>7. CASE UNCHANGED tcpVars
  BY <1>7 DEF tcpVars, TcpInv
<1> QED BY ONLY <1>2, <1>3, <1>4, <1>5, <1>6, <1>7, [TcpNext]_tcpVars DEF TcpNext

LEMMA TcpInvHolds ==
  ASSUME OneShortConnection
  PROVE  TcpSpec => []TcpInv
<1>1. TcpInit => TcpInv
  BY TcpInitOk
<1>2. TcpInv /\ [TcpNext]_tcpVars => TcpInv'
  BY TcpStepOk
<1> QED BY <1>1, <1>2, PTL DEF TcpSpec

-----------------------------------------------------------------------------
(* What the application of end e was told *)
LEMMA AppHeard ==
  ASSUME NEW cuts, Sys(conn, cuts, net, spawned), NEW e \in Ends
  PROVE  /\ conn[e].got \in Seq(Nat) /\ Len(conn[e].got) <= conn[Peer(e)].written
         /\ \A i \in 1 .. Len(conn[e].got) : conn[e].got[i] = i
         /\ conn[e].eof => conn[Peer(e)].closing /\ Len(conn[e].got) = conn[Peer(e)].written
<1>1. PICK g, c, p : g = Where(conn, cuts, e) /\ c = conn[e] /\ p = Peer(e)
  OBVIOUS
<1>2. EndOk(conn, cuts, e)
  BY DEF Sys
<1>3. g.w = conn[p].written /\ g.k = conn[p].closing /\ Env(g)
  BY <1>1, <1>2, WhereIs DEF EndOk
<1>4. CASE cuts[e] = {}
  <2>1. c.got = <<>> /\ c.eof = FALSE
    BY <1>1, <1>2, <1>4, FreshIs
  <2>2. c.got \in Seq(Nat) /\ Len(c.got) = 0 /\ g.w \in Nat
    BY <1>3, <2>1, EnvFacts
  <2> QED BY ONLY <1>1, <1>3, <2>1, <2>2
<1>5. CASE cuts[e] # {}
  <2>1. Heard(g, c)
    BY <1>1, <1>2, <1>5 DEF EndOk, Ok
  <2> QED BY ONLY <1>1, <1>3, <2>1 DEF Heard
<1> QED BY <1>4, <1>5

(* Every place of the stream between the acknowledged and the written ones is queued. *)
LEMMA ByteQueued ==
  ASSUME NEW e, NEW C, NEW w, NEW k, Writes(e, C, w, k), NEW q, NEW lo, NEW hi, Queue(e, C, w, k, q, lo, hi),
         NEW b \in 1 .. w, lo <= b, b < hi
  PROVE  b \in DataOf(q)
<1>1. w \in Nat /\ b \in Nat /\ lo \in Nat /\ hi \in Nat
  BY WritesFit DEF Queue
<1>2. b \in lo .. hi - 1
  BY <1>1
<1>3. PICK i \in 1 .. Len(q) : Pos(e, q[i].seq) <= b /\ b < EndPos(e, q[i])
  BY ONLY Queue(e, C, w, k, q, lo, hi), <1>2 DEF Queue
<1>4. PICK x : x = q[i]
  OBVIOUS
<1>5. SegOK(e, C, w, k, x)
  BY <1>4 DEF Queue
<1>6. /\ Pos(e, x.seq) \in Nat /\ (x.fin => Pos(e, x.seq) = w + 1) /\ (x.syn => EndPos(e, x) = 1)
      /\ (~x.syn /\ ~x.fin => TcpLen(x) = Len(x.data)) /\ Len(x.data) \in Nat
  BY <1>5, SegFacts
<1>7. ~x.fin /\ ~x.syn /\ Pos(e, x.seq) <= b /\ b < EndPos(e, x)
  BY <1>1, <1>3, <1>4, <1>6
<1>8. EndPos(e, x) = Pos(e, x.seq) + Len(x.data)
  BY <1>6, <1>7 DEF EndPos
<1>9. PICK j : j = b - Pos(e, x.seq) + 1
  OBVIOUS
<1>10. j \in 1 .. Len(x.data) /\ Pos(e, x.seq) - 1 + j = b
  BY ONLY <1>1, <1>6, <1>7, <1>8, <1>9
<1>11. x.data[j] = b /\ x.data \in Seq(Nat)
  BY <1>5, <1>10 DEF SegOK
<1>12. b \in ToSet(x.data)
  BY <1>10, <1>11 DEF ToSet
<1> QED BY <1>3, <1>4, <1>12 DEF DataOf

LEMMA NothingForgottenAt ==
  ASSUME NEW cuts, Sys(conn, cuts, net, spawned), NEW e \in Ends, NEW c, c = conn[e], NEW p, p = conn[Peer(e)],
         c.state \in Active, ~p.closing, p.state # "CLOSED", NEW b \in Len(p.got) + 1 .. c.written
  PROVE  b \in DataOf(c.unsent) \cup DataOf(c.unacked)
<1>1. PICK g, h, y : g = Where(conn, cuts, e) /\ h = Where(conn, cuts, y) /\ y = Peer(e)
  OBVIOUS
<1>2. y \in Ends /\ Peer(y) = e /\ p = conn[y]
  BY <1>1, PeerIs
<1>3. c.state # "CLOSED"
  BY StateSets
<1>4. Env(g) /\ Ok(g, c) /\ g.e = e
  BY ONLY Sys(conn, cuts, net, spawned), e \in Ends, c = conn[e], <1>1, <1>3, AtEnd
<1>5. Env(h) /\ Ok(h, p) /\ p.pend = <<>> /\ cuts[y] # {}
  BY ONLY Sys(conn, cuts, net, spawned), <1>1, <1>2, p.state # "CLOSED", AtEnd
<1>6. h.w = c.written /\ h.p = e /\ g.lp = LimOf(conn, cuts, y)
  BY ONLY <1>1, <1>2, c = conn[e], WhereIs
<1>7. g.lp = Lim(h, p) /\ Lim(h, p) \in Nat
  <2>1. h.p = Peer(y) /\ h.w = conn[Peer(y)].written
    BY ONLY <1>2, <1>6, c = conn[e]
  <2>2. LimOf(conn, cuts, y) = Lim(h, conn[y])
    BY ONLY <1>5, <2>1, LimOfIs
  <2>3. Lim(h, p) \in Nat
    BY ONLY <1>5, OkFacts
  <2> QED BY ONLY <1>2, <1>6, <2>2, <2>3
<1>8. c.written \in Nat /\ Writes(g.e, g.C, c.written, c.closing)
  BY ONLY <1>4, OkFacts
<1>9. p.got \in Seq(Nat) /\ Len(p.got) \in Nat
  <2>1. p.got \in Seq(Nat)
    BY ONLY <1>5 DEF Ok, Heard
  <2> QED BY ONLY <2>1
<1>10. b \in 1 .. c.written /\ b \in Nat /\ b >= Len(p.got) + 1
  BY ONLY <1>8, <1>9, b \in Len(p.got) + 1 .. c.written
<1>11. Lim(h, p) <= b
  <2>1. p.state \in Open
    BY ONLY <1>5, ~p.closing, p.state # "CLOSED" DEF Ok, Life
  <2>2. CASE p.state = "SYN_SENT"
    <3>1. Lim(h, p) = 1
      BY ONLY <2>2, StateSets DEF Lim
    <3> QED BY ONLY <1>10, <3>1
  <2>3. CASE p.state = "SYN_RCVD"
    <3>1. Accepting(h, p) /\ p.state \in Synced
      BY ONLY <1>5, <2>3 DEF Ok, Life, Synced, Active, States
    <3>2. Lim(h, p) = 1
      BY ONLY <3>1 DEF Lim, Accepting
    <3> QED BY ONLY <1>10, <3>2
  <2>4. CASE p.state \in {"ESTABLISHED", "CLOSE_WAIT"}
    <3>1. p.state \in Synced
      BY ONLY <2>4 DEF Synced, Active, States
    <3>2. Rcv(h, p) /\ p.attached
      BY ONLY <1>5, <2>1, <2>4, <3>1 DEF Ok, Life
    <3>3. PICK R : R = Pos(h.p, p.rcv_nxt)
      OBVIOUS
    <3>4. Lim(h, p) = R
      BY ONLY <3>1, <3>3 DEF Lim
    <3>5. Len(p.got) + Len(p.pend) = Upto(h, R)
      BY ONLY <3>2, <3>3 DEF Rcv
    <3>6. Len(p.got) = Upto(h, R) /\ R \in Nat
      <4>1. Len(p.pend) = 0
        BY ONLY <1>5
      <4> QED BY ONLY <1>7, <1>9, <3>4, <3>5, <4>1
    <3>7. R # h.w + 2
      BY ONLY <1>6, <1>8, <1>10, <3>6 DEF Upto
    <3>8. Len(p.got) = R - 1
      BY ONLY <3>6, <3>7 DEF Upto
    <3> QED BY ONLY <1>10, <3>4, <3>6, <3>8
  <2> QED BY ONLY <2>1, <2>2, <2>3, <2>4 DEF Open
<1>12. Snd(g, c)
  BY <1>4 DEF Ok
<1>13. PICK la, lb : la = Pos(g.e, c.lastack) /\ lb = Pos(g.e, c.snd_lbb)
  OBVIOUS
<1>14. Sending(g.e, g.C, c.written, c.closing, c.unacked, c.unsent, la, lb) /\ la <= g.lp
       /\ lb = c.written + IF c.state \in Open THEN 1 ELSE 2
  BY ONLY <1>12, <1>13 DEF Snd
<1>15. la \in Nat /\ lb \in Nat
  BY ONLY <1>4, <1>13, c.state \in Active, SndFacts
<1>16. la <= b /\ b < lb
  <2>1. la <= b
    BY ONLY <1>7, <1>10, <1>11, <1>14, <1>15
  <2>2. b < lb
    BY ONLY <1>8, <1>10, <1>14
  <2> QED BY ONLY <2>1, <2>2
<1>17. PICK lo, mid \in Nat : /\ Queue(g.e, g.C, c.written, c.closing, c.unacked, lo, mid)
                              /\ Queue(g.e, g.C, c.written, c.closing, c.unsent, mid, lb) /\ lo <= la
  BY ONLY <1>14 DEF Sending
<1>18. lo \in Nat /\ lo <= b
  BY ONLY <1>10, <1>15, <1>16, <1>17
<1>19. CASE b < mid
  <2>1. b \in DataOf(c.unacked)
    BY ONLY <1>8, <1>10, <1>17, <1>18, <1>19, ByteQueued
  <2> QED BY ONLY <2>1
<1>20. CASE ~(b < mid)
  <2>1. mid <= b
    BY ONLY <1>10, <1>17, <1>20
  <2>2. b \in DataOf(c.unsent)
    BY ONLY <1>8, <1>10, <1>16, <1>17, <2>1, ByteQueued
  <2> QED BY ONLY <2>2
<1> QED BY <1>19, <1>20

LEMMA BuffersAt ==
  ASSUME NEW cuts, Sys(conn, cuts, net, spawned), NEW e \in Ends, NEW c, c = conn[e], c.state \in Active
  PROVE  /\ c.qlen = QueueLen(c.unsent) + QueueLen(c.unacked)
         /\ (c.snd_buf + Diff(c.snd_lbb, c.lastack)) % BufMod =
              TcpSndBuf - IF e = "client" /\ c.state # "SYN_SENT" THEN 1 ELSE 0
<1>1. PICK g : g = Where(conn, cuts, e)
  OBVIOUS
<1>2. c.state # "CLOSED"
  BY StateSets
<1>3. Env(g) /\ Ok(g, c) /\ g.e = e
  BY ONLY Sys(conn, cuts, net, spawned), e \in Ends, c = conn[e], <1>1, <1>2, AtEnd
<1>4. Snd(g, c)
  BY <1>3 DEF Ok
<1>5. /\ Pos(e, c.lastack) \in Nat /\ Pos(e, c.snd_max) \in Nat /\ Pos(e, c.snd_lbb) \in Nat
      /\ Pos(e, c.lastack) <= Pos(e, c.snd_max) /\ Pos(e, c.snd_max) <= Pos(e, c.snd_lbb)
      /\ c.lastack \in Seqs /\ c.snd_lbb \in Seqs
  BY ONLY <1>3, c.state \in Active, SndFacts
<1>6. Diff(c.snd_lbb, c.lastack) = Pos(e, c.snd_lbb) - Pos(e, c.lastack)
  <2>1. Pos(e, c.snd_lbb) >= Pos(e, c.lastack)
    BY ONLY <1>5
  <2> QED BY ONLY e \in Ends, <1>5, <2>1, PosDiff
<1> QED BY ONLY <1>3, <1>4, <1>6 DEF Snd, Used

-----------------------------------------------------------------------------
(* Over a network that loses, delays, reorders and duplicates segments, what  *)
(* an application receives (tcp_receive, tcp_input) is a prefix of what the   *)
(* other one wrote: on one connection, shorter than half of the sequence      *)
(* space.                                                                     *)
THEOREM TcpStreamIntact ==
  ASSUME OneShortConnection
  PROVE  TcpSpec => []StreamIntact
<1>1. TcpInv => StreamIntact
  <2> SUFFICES ASSUME TcpInv, NEW e \in Ends
               PROVE  /\ conn[e].got = [i \in 1 .. Len(conn[e].got) |-> i]
                      /\ Len(conn[e].got) <= conn[Peer(e)].written
    BY DEF StreamIntact
  <2>1. PICK cuts : Sys(conn, cuts, net, spawned)
    BY DEF TcpInv
  <2>2. /\ conn[e].got \in Seq(Nat) /\ Len(conn[e].got) <= conn[Peer(e)].written
        /\ \A i \in 1 .. Len(conn[e].got) : conn[e].got[i] = i
    BY ONLY <2>1, e \in Ends, AppHeard
  <2>3. PICK x : x = conn[e].got
    OBVIOUS
  <2>4. x \in Seq(Nat) /\ \A i \in 1 .. Len(x) : x[i] = i
    BY ONLY <2>2, <2>3
  <2>5. x = [i \in 1 .. Len(x) |-> i]
    BY ONLY <2>4
  <2> QED BY ONLY <2>2, <2>3, <2>5
<1> QED BY <1>1, TcpInvHolds, PTL

(* End of file is reported (TF_GOT_FIN, tcp_input) only after the last byte   *)
(* of a peer that has closed.                                                 *)
THEOREM TcpEofAfterData ==
  ASSUME OneShortConnection
  PROVE  TcpSpec => []EofAfterData
<1>1. TcpInv => EofAfterData
  <2> SUFFICES ASSUME TcpInv, NEW e \in Ends, conn[e].eof
               PROVE  conn[Peer(e)].closing /\ Len(conn[e].got) = conn[Peer(e)].written
    BY DEF EofAfterData
  <2>1. PICK cuts : Sys(conn, cuts, net, spawned)
    BY DEF TcpInv
  <2> QED BY ONLY <2>1, e \in Ends, conn[e].eof, AppHeard
<1> QED BY <1>1, TcpInvHolds, PTL

(* tcp_receive, tcp_output and the retransmission of tcp_slowtmr forget       *)
(* nothing: every byte the peer's application has yet to receive is in one of *)
(* the two queues of the sender.                                              *)
THEOREM TcpNothingForgotten ==
  ASSUME OneShortConnection
  PROVE  TcpSpec => []NothingForgotten
<1>1. TcpInv => NothingForgotten
  <2> SUFFICES ASSUME TcpInv, NEW e \in Ends, conn[e].state \in Active, ~conn[Peer(e)].closing,
                      conn[Peer(e)].state # "CLOSED", NEW b \in Len(conn[Peer(e)].got) + 1 .. conn[e].written
               PROVE  b \in DataOf(conn[e].unsent) \cup DataOf(conn[e].unacked)
    BY DEF NothingForgotten
  <2>1. PICK cuts : Sys(conn, cuts, net, spawned)
    BY DEF TcpInv
  <2>2. PICK c, p : c = conn[e] /\ p = conn[Peer(e)]
    OBVIOUS
  <2>3. b \in DataOf(c.unsent) \cup DataOf(c.unacked)
    BY <2>1, <2>2, NothingForgottenAt
  <2> QED BY ONLY <2>2, <2>3
<1> QED BY <1>1, TcpInvHolds, PTL

(* snd_queuelen counts the queued pbufs and snd_buf what is written and not   *)
(* acknowledged, so that tcp_enqueue accepts what there is room for.          *)
THEOREM TcpBuffersReturned ==
  ASSUME OneShortConnection
  PROVE  TcpSpec => []BuffersReturned
<1>1. TcpInv => BuffersReturned
  <2> SUFFICES ASSUME TcpInv, NEW e \in Ends, conn[e].state \in Active
               PROVE  /\ conn[e].qlen = QueueLen(conn[e].unsent) + QueueLen(conn[e].unacked)
                      /\ (conn[e].snd_buf + Diff(conn[e].snd_lbb, conn[e].lastack)) % BufMod =
                           TcpSndBuf - IF e = "client" /\ conn[e].state # "SYN_SENT" THEN 1 ELSE 0
    BY DEF BuffersReturned
  <2>1. PICK cuts : Sys(conn, cuts, net, spawned)
    BY DEF TcpInv
  <2>2. PICK c : c = conn[e]
    OBVIOUS
  <2>3. /\ c.qlen = QueueLen(c.unsent) + QueueLen(c.unacked)
        /\ (c.snd_buf + Diff(c.snd_lbb, c.lastack)) % BufMod =
             TcpSndBuf - IF e = "client" /\ c.state # "SYN_SENT" THEN 1 ELSE 0
    BY <2>1, <2>2, BuffersAt
  <2> QED BY ONLY <2>2, <2>3
<1> QED BY <1>1, TcpInvHolds, PTL
=============================================================================
