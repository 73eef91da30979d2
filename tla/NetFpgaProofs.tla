--------------------------- MODULE NetFpgaProofs ---------------------------
(***************************************************************************)
(* Proofs about the software that runs beside a NetFPGA card: the kernel   *)
(* driver (Nf2Driver) and the programs that reach the card's registers     *)
(* (RegProxy).                                                             *)
(***************************************************************************)
EXTENDS Nf2Driver, RegProxy, FiniteSetTheorems, SequenceTheorems, TLAPS

-----------------------------------------------------------------------------
(***************************************************************************)
(* Proofs about Nf2Driver, for any ring size and any ports.  nf2c_send     *)
(* takes no lock: the argument is an account of dma_tx_in_progress, which  *)
(* is the number of callers between the claim and the step back plus one   *)
(* for a transfer that the driver started and has not yet cleaned up.      *)
(* The account (Core) holds until a context takes the counter for what it  *)
(* does not stand for (misjudged); the types and the contexts (DrvBase) in *)
(* every state.                                                            *)
(***************************************************************************)

PciRec == [known : BOOLEAN, bound : BOOLEAN, held : SUBSET Everything]
Steps == {"off", "claim", "look", "back"}
IsrRec == [pc : IsrPcs, mask : SUBSET Bits, status : SUBSET Bits]
WdRec == [pc : WdPcs, iface : Ifaces \cup {Nothing}, mask : SUBSET Bits]
HwRec == [wrOwner : Slots \cup {Nothing}, rdOwner : BOOLEAN, room : SUBSET Ifaces,
          avail : 0 .. MaxAvail, flags : SUBSET Bits, mask : SUBSET Bits]

(* Who may run, and with which port. *)
Contexts ==
  /\ wd.pc # "idle" => wd.iface \in up
  /\ InTx => TxPort \in up
  /\ snd["isr"] # "off" => isr.pc \in {"run", "queued"}
  /\ snd["wd"] # "off" => wd.pc = "send"
  /\ isr.pc = "idle" => isr.status = {}
  /\ isr.pc # "idle" => up # {}
  /\ ~pci.bound => up = {}

DrvBase == DrvTypeOK /\ Contexts

(* With no port up the card is reset and nothing is under way. *)
DrvQuiet ==
  up = {} =>
    /\ txp = 0 /\ rxp = 0 /\ free = Pool
    /\ hw.wrOwner = Nothing /\ ~hw.rdOwner
    /\ "tx" \notin hw.flags /\ "rx" \notin hw.flags /\ "err" \notin hw.flags

(* Outside the handler the ends of transfers are never masked: a flag that *)
(* the handler reads and clears is one that it handles.                    *)
Unmasked(m) == "tx" \notin m /\ "rx" \notin m /\ "err" \notin m
Masks ==
  /\ hw.mask = Bits \/ Unmasked(hw.mask)
  /\ up # {} /\ isr.pc = "idle" => Unmasked(hw.mask)
  /\ isr.pc # "idle" => Unmasked(isr.mask)
  /\ wd.mask = Bits \/ Unmasked(wd.mask)

(* A context is in nf2c_clear_dma_flags, before it has looked at the       *)
(* transmit counter, or is about to give the slot at the head back.        *)
Clearing == isr.pc \in {"clear", "clearRx", "clearTx"} \/ wd.pc \in {"clear", "clearRx", "clearTx"}
Cleaning == isr.pc = "free" \/ wd.pc = "free"

(* The end of a transfer is at one place: the card does it, has flagged    *)
(* it, the handler has read the flag, or a context is cleaning up.         *)
Writes ==
  /\ Flight \in {0, 1}
  /\ hw.wrOwner # Nothing =>
       /\ Flight = 1 /\ hw.wrOwner = rd
       /\ "tx" \notin hw.flags /\ "tx" \notin isr.status /\ ~Cleaning
  /\ "tx" \in hw.flags => Flight = 1 /\ "tx" \notin isr.status /\ ~Cleaning
  /\ "tx" \in isr.status => Flight = 1 /\ ~Cleaning
  /\ Cleaning => Flight = 1
  /\ ~(isr.pc = "free" /\ wd.pc = "free")
  /\ Flight = 1 =>
       /\ free # Pool
       /\ \/ hw.wrOwner # Nothing \/ Cleaning \/ Clearing
          \/ "tx" \in hw.flags \/ "tx" \in isr.status
          \/ "err" \in hw.flags \/ "err" \in isr.status

(* At most one caller of nf2c_send looks at the ring, and none of them     *)
(* while a transfer is under way.                                          *)
Lookers ==
  /\ \A p, q \in Callers : snd[p] = "look" /\ snd[q] = "look" => p = q
  /\ \A p \in Callers : snd[p] = "look" => Flight = 0

(* The same of the receptions. *)
Resetting == isr.pc = "clear" \/ wd.pc = "clear"
Taking == isr.pc = "clearRx" \/ wd.pc = "clearRx"
Reads ==
  /\ Receipt \in {0, 1}
  /\ hw.rdOwner =>
       Receipt = 1 /\ "rx" \notin hw.flags /\ "rx" \notin isr.status /\ ~Taking
  /\ "rx" \in hw.flags => Receipt = 1 /\ "rx" \notin isr.status /\ ~Taking
  /\ "rx" \in isr.status => Receipt = 1 /\ ~Taking
  /\ Taking => Receipt = 1
  /\ ~(isr.pc = "clearRx" /\ wd.pc = "clearRx")
  /\ Receipt = 1 =>
       \/ hw.rdOwner \/ Taking \/ Resetting
       \/ "rx" \in hw.flags \/ "rx" \in isr.status
       \/ "err" \in hw.flags \/ "err" \in isr.status

(* The ring's positions, its free count and the credits. *)
Ring ==
  /\ free \in 0 .. Pool /\ wr = (rd + Pool - free) % Pool
  /\ \A i \in Ifaces : credit[i] + QueuedOf(i) <= Share

Core == DrvQuiet /\ Masks /\ Writes /\ Lookers /\ Reads /\ Ring

DrvIInv == DrvBase /\ (~misjudged => Core)

-----------------------------------------------------------------------------
LEMMA ModFacts ==
  ASSUME NEW a \in Nat, a < 2 * Pool
  PROVE  /\ a % Pool = IF a < Pool THEN a ELSE a - Pool
         /\ a % Pool \in Slots
<1> USE Nf2DriverAssumption DEF Slots
<1>1. CASE a < Pool
  BY <1>1
<1>2. CASE a >= Pool
  BY <1>2
<1> QED BY <1>1, <1>2

LEMMA ShareType == Share \in Nat
<1>1. Cardinality(Ifaces) \in Nat /\ Cardinality(Ifaces) # 0
  BY Nf2DriverAssumption, FS_CardinalityType, FS_EmptySet
<1> QED BY <1>1, Nf2DriverAssumption DEF Share

LEMMA ModSum ==
  ASSUME NEW r \in Slots, NEW k \in 0 .. Pool
  PROVE  /\ (r + k) % Pool = IF r + k < Pool THEN r + k ELSE r + k - Pool
         /\ (r + k) % Pool \in Slots
<1>1. PICK a : a = r + k
  OBVIOUS
<1>2. a \in Nat /\ a < 2 * Pool
  BY <1>1, Nf2DriverAssumption DEF Slots
<1>3. a % Pool = (IF a < Pool THEN a ELSE a - Pool) /\ a % Pool \in Slots
  BY <1>2, ModFacts
<1> QED BY <1>1, <1>2, <1>3, Nf2DriverAssumption DEF Slots

LEMMA ModSlot == ASSUME NEW r \in Slots PROVE (r + 0) % Pool = r
<1>1. r + 0 = r /\ r \in Nat /\ r < 2 * Pool /\ r < Pool
  BY Nf2DriverAssumption DEF Slots
<1> QED BY <1>1, ModFacts

(* The slots in use when the head is r and f slots are free. *)
Window(r, f) == {(r + k) % Pool : k \in 0 .. Pool - f - 1}

LEMMA WindowFinite ==
  ASSUME NEW r \in Slots, NEW f \in 0 .. Pool
  PROVE  Window(r, f) \subseteq Slots /\ IsFiniteSet(Window(r, f))
<1> USE Nf2DriverAssumption
<1>1. ASSUME NEW k \in 0 .. Pool - f - 1 PROVE (r + k) % Pool \in Slots
  <2>1. k \in 0 .. Pool
    OBVIOUS
  <2> QED BY <2>1, ModSum
<1>2. Window(r, f) \subseteq Slots
  BY <1>1 DEF Window
<1>3. IsFiniteSet(Slots)
  BY FS_Interval DEF Slots
<1> QED BY <1>2, <1>3, FS_Subset

(* nf2c_tx takes the free slot after the last one in use. *)
LEMMA WindowPush ==
  ASSUME NEW r \in Slots, NEW f \in 1 .. Pool
  PROVE  LET w == (r + Pool - f) % Pool
         IN  /\ w \in Slots /\ w \notin Window(r, f)
             /\ Window(r, f - 1) = Window(r, f) \cup {w}
             /\ (w + 1) % Pool = (r + Pool - (f - 1)) % Pool
<1> USE Nf2DriverAssumption
<1> DEFINE n == Pool - f
           w == (r + Pool - f) % Pool
<1>1. n \in 0 .. Pool - 1 /\ r + Pool - f = r + n /\ Pool - (f - 1) - 1 = n
  BY DEF Slots
<1>2. \A k \in 0 .. Pool : (r + k) % Pool = IF r + k < Pool THEN r + k ELSE r + k - Pool
  BY ModSum
<1>3. w = IF r + n < Pool THEN r + n ELSE r + n - Pool
  BY <1>1, <1>2
<1>4. w \in Slots
  BY <1>1, <1>3 DEF Slots
<1>5. w \notin Window(r, f)
  <2> SUFFICES ASSUME NEW k \in 0 .. n - 1, (r + k) % Pool = w PROVE FALSE
    BY <1>1 DEF Window
  <2>1. (r + k) % Pool = IF r + k < Pool THEN r + k ELSE r + k - Pool
    BY <1>1, <1>2
  <2> QED BY <2>1, <1>1, <1>3 DEF Slots
<1>6. Window(r, f - 1) = Window(r, f) \cup {w}
  <2>1. Window(r, f - 1) = {(r + k) % Pool : k \in 0 .. n}
    BY <1>1 DEF Window
  <2>2. Window(r, f) = {(r + k) % Pool : k \in 0 .. n - 1}
    BY <1>1 DEF Window
  <2>3. w = (r + n) % Pool
    BY <1>1
  <2> HIDE DEF n, w
  <2>4. 0 .. n = (0 .. n - 1) \cup {n}
    BY <1>1
  <2> QED BY <2>1, <2>2, <2>3, <2>4
<1>7. (w + 1) % Pool = (r + Pool - (f - 1)) % Pool
  <2>1. r + Pool - (f - 1) = r + (n + 1) /\ n + 1 \in 0 .. Pool
    BY <1>1 DEF Slots
  <2>2. (r + (n + 1)) % Pool =
          IF r + (n + 1) < Pool THEN r + (n + 1) ELSE r + (n + 1) - Pool
    BY <2>1, <1>2
  <2>3. 1 \in 0 .. Pool
    OBVIOUS
  <2>4. (w + 1) % Pool = IF w + 1 < Pool THEN w + 1 ELSE w + 1 - Pool
    <3> HIDE DEF w
    <3> QED BY <2>3, <1>4, ModSum
  <2>5. (r + (n + 1)) % Pool = (w + 1) % Pool
    <3> HIDE DEF w, n
    <3>1. CASE r + n < Pool
      BY <3>1, <1>1, <1>3, <2>2, <2>4 DEF Slots
    <3>2. CASE r + n >= Pool
      BY <3>2, <1>1, <1>3, <2>2, <2>4 DEF Slots
    <3> QED BY <3>1, <3>2, <1>1 DEF Slots
  <2> QED BY <2>1, <2>5
<1> QED BY <1>4, <1>5, <1>6, <1>7

(* Cleaning up frees the slot at the head. *)
LEMMA WindowPop ==
  ASSUME NEW r \in Slots, NEW f \in 0 .. Pool - 1
  PROVE  LET q == (r + 1) % Pool
         IN  /\ q \in Slots /\ r \in Window(r, f)
             /\ Window(q, f + 1) = Window(r, f) \ {r}
             /\ (q + Pool - (f + 1)) % Pool = (r + Pool - f) % Pool
<1> USE Nf2DriverAssumption
<1> DEFINE n == Pool - f
           q == (r + 1) % Pool
<1>1. n \in 1 .. Pool /\ Pool - f - 1 = n - 1 /\ Pool - (f + 1) - 1 = n - 2
  BY DEF Slots
<1>2. \A a \in Slots : \A k \in 0 .. Pool :
        (a + k) % Pool = IF a + k < Pool THEN a + k ELSE a + k - Pool
  BY ModSum
<1>3. q = (IF r + 1 < Pool THEN r + 1 ELSE 0) /\ q \in Slots
  <2>1. 1 \in 0 .. Pool
    OBVIOUS
  <2>2. q = IF r + 1 < Pool THEN r + 1 ELSE r + 1 - Pool
    BY <2>1, <1>2
  <2> QED BY <2>2 DEF Slots
<1>4. r \in Window(r, f)
  <2>1. 0 \in 0 .. Pool - f - 1
    OBVIOUS
  <2>2. (r + 0) % Pool = r
    BY ModSlot
  <2> QED BY <2>1, <2>2 DEF Window
<1> HIDE DEF q, n
<1>5. ASSUME NEW k \in 0 .. n - 1
      PROVE  (q + k) % Pool = (r + (k + 1)) % Pool
  <2>1. (q + k) % Pool = IF q + k < Pool THEN q + k ELSE q + k - Pool
    BY <1>1, <1>2, <1>3
  <2>2. (r + (k + 1)) % Pool = IF r + (k + 1) < Pool THEN r + (k + 1) ELSE r + (k + 1) - Pool
    <3>1. k + 1 \in 0 .. Pool
      BY <1>1
    <3> QED BY <3>1, <1>2
  <2> QED BY <2>1, <2>2, <1>1, <1>3 DEF Slots
<1>6. Window(q, f + 1) = Window(r, f) \ {r}
  <2>1. ASSUME NEW x \in Window(q, f + 1) PROVE x \in Window(r, f) \ {r}
    <3>1. PICK k \in 0 .. n - 2 : x = (q + k) % Pool
      BY <1>1 DEF Window
    <3>2. x = (r + (k + 1)) % Pool /\ k + 1 \in 0 .. Pool - f - 1
      BY <3>1, <1>1, <1>5
    <3>3. x = IF r + (k + 1) < Pool THEN r + (k + 1) ELSE r + (k + 1) - Pool
      <4>1. k + 1 \in 0 .. Pool
        BY <3>1, <1>1
      <4> QED BY <4>1, <3>2, <1>2
    <3>4. x # r
      BY <3>3, <3>1, <1>1 DEF Slots
    <3> QED BY <3>2, <3>4 DEF Window
  <2>2. ASSUME NEW x \in Window(r, f) \ {r} PROVE x \in Window(q, f + 1)
    <3>1. PICK k \in 0 .. n - 1 : x = (r + k) % Pool
      BY <1>1 DEF Window
    <3>2. k # 0
      <4>1. (r + 0) % Pool = r
        BY ModSlot
      <4> QED BY <4>1, <3>1
    <3>3. k - 1 \in 0 .. n - 1 /\ k - 1 \in 0 .. Pool - (f + 1) - 1 /\ (k - 1) + 1 = k
      BY <3>1, <3>2, <1>1
    <3>4. x = (q + (k - 1)) % Pool
      BY <3>1, <3>3, <1>5
    <3> QED BY <3>3, <3>4 DEF Window
  <2> QED BY <2>1, <2>2
<1>7. (q + Pool - (f + 1)) % Pool = (r + Pool - f) % Pool
  <2>1. /\ q + Pool - (f + 1) = q + (n - 1) /\ r + Pool - f = r + ((n - 1) + 1)
        /\ n - 1 \in 0 .. n - 1
    BY <1>1, <1>3 DEF n, Slots
  <2> QED BY <2>1, <1>5
<1> QED BY <1>3, <1>4, <1>6, <1>7 DEF q

-----------------------------------------------------------------------------
(* The packets of a port among the slots of S. *)
OfPort(S, rg, i) == {s \in S : rg[s] = i}

LEMMA QueuedIsWindow ==
  /\ Queued = Window(rd, free)
  /\ \A i : QueuedOf(i) = Cardinality(OfPort(Window(rd, free), ring, i))
  /\ Queued' = Window(rd', free')
  /\ \A i : QueuedOf(i)' = Cardinality(OfPort(Window(rd', free'), ring', i))
BY DEF Queued, QueuedOf, Window, OfPort

LEMMA OfPortFinite ==
  ASSUME DrvTypeOK, Ring, NEW i
  PROVE  /\ IsFiniteSet(OfPort(Window(rd, free), ring, i))
         /\ Cardinality(OfPort(Window(rd, free), ring, i)) \in Nat
<1>1. rd \in Slots /\ free \in 0 .. Pool
  BY DEF DrvTypeOK, Ring
<1>2. IsFiniteSet(Window(rd, free))
  BY <1>1, WindowFinite
<1>3. OfPort(Window(rd, free), ring, i) \subseteq Window(rd, free)
  BY DEF OfPort
<1>4. IsFiniteSet(OfPort(Window(rd, free), ring, i))
  BY <1>2, <1>3, FS_Subset
<1> QED BY <1>4, FS_CardinalityType

(* Queueing a packet takes one slot and one credit of its port. *)
LEMMA RingPush ==
  ASSUME DrvTypeOK, Ring, NEW i \in Ifaces, free > 0,
         ring' = [ring EXCEPT ![wr] = i], wr' = (wr + 1) % Pool, free' = free - 1,
         credit' = [credit EXCEPT ![i] = credit[i] - 1], rd' = rd
  PROVE  Ring'
<1> DEFINE W == Window(rd, free)
<1>1. rd \in Slots /\ free \in 1 .. Pool /\ wr = (rd + Pool - free) % Pool
  BY Nf2DriverAssumption DEF DrvTypeOK, Ring
<1>2. /\ wr \in Slots /\ wr \notin W
      /\ Window(rd, free - 1) = W \cup {wr}
      /\ (wr + 1) % Pool = (rd + Pool - (free - 1)) % Pool
  BY <1>1, WindowPush
<1>3. wr' \in Slots
  BY <1>2, ModSum, Nf2DriverAssumption
<1>4. wr' = (rd' + Pool - free') % Pool
  BY <1>2
<1>5. ASSUME NEW j \in Ifaces PROVE credit'[j] + QueuedOf(j)' <= Share
  <2> DEFINE A == OfPort(W, ring, j)
  <2>1. IsFiniteSet(A) /\ Cardinality(A) \in Nat
    BY OfPortFinite
  <2>2. credit[j] + Cardinality(A) <= Share /\ credit[j] \in Int
    BY QueuedIsWindow DEF Ring, DrvTypeOK
  <2>3. QueuedOf(j)' = Cardinality(OfPort(W \cup {wr}, ring', j))
    BY <1>2, QueuedIsWindow
  <2>4. W \subseteq Slots
    BY <1>1, WindowFinite DEF Ring
  <2> HIDE DEF W
  <2>5. CASE j = i
    <3>1. OfPort(W \cup {wr}, ring', j) = A \cup {wr} /\ wr \notin A
      BY <2>5, <2>4, <1>2 DEF OfPort, DrvTypeOK
    <3>2. Cardinality(A \cup {wr}) = Cardinality(A) + 1
      BY <2>1, <3>1, FS_AddElement
    <3>3. credit'[j] = credit[j] - 1
      BY <2>5 DEF DrvTypeOK
    <3>4. QueuedOf(j)' = Cardinality(A) + 1
      BY <3>1, <3>2, <2>3
    <3> HIDE DEF A
    <3> QED BY <3>3, <3>4, <2>1, <2>2, ShareType
  <2>6. CASE j # i
    <3>1. OfPort(W \cup {wr}, ring', j) = A
      BY <2>6, <2>4, <1>2 DEF OfPort, DrvTypeOK
    <3>2. credit'[j] = credit[j]
      BY <2>6 DEF DrvTypeOK
    <3> QED BY <3>1, <3>2, <2>2, <2>3
  <2> QED BY <2>5, <2>6
<1>6. free' \in 0 .. Pool
  BY <1>1, Nf2DriverAssumption
<1> QED BY <1>4, <1>5, <1>6 DEF Ring

(* Freeing the slot at the head gives its port the credit back. *)
LEMMA RingPop ==
  ASSUME DrvTypeOK, Ring, free # Pool,
         ring' = [ring EXCEPT ![rd] = Nothing], rd' = (rd + 1) % Pool, free' = free + 1,
         credit' = [credit EXCEPT ![ring[rd]] = credit[ring[rd]] + 1], wr' = wr
  PROVE  Ring'
<1> DEFINE W == Window(rd, free)
<1>1. rd \in Slots /\ free \in 0 .. Pool - 1 /\ wr = (rd + Pool - free) % Pool
  BY Nf2DriverAssumption DEF DrvTypeOK, Ring
<1>2. /\ rd' \in Slots /\ rd \in W
      /\ Window(rd', free') = W \ {rd}
      /\ (rd' + Pool - free') % Pool = (rd + Pool - free) % Pool
  BY <1>1, WindowPop
<1>3. ASSUME NEW j \in Ifaces PROVE credit'[j] + QueuedOf(j)' <= Share
  <2> DEFINE A == OfPort(W, ring, j)
  <2>1. IsFiniteSet(A) /\ Cardinality(A) \in Nat
    BY OfPortFinite
  <2>2. credit[j] + Cardinality(A) <= Share /\ credit[j] \in Int
    BY QueuedIsWindow DEF Ring, DrvTypeOK
  <2>3. QueuedOf(j)' = Cardinality(OfPort(W \ {rd}, ring', j))
    BY <1>2, QueuedIsWindow
  <2>4. W \subseteq Slots
    BY <1>1, WindowFinite DEF Ring
  <2> HIDE DEF W
  <2>5. OfPort(W \ {rd}, ring', j) = A \ {rd}
    BY <2>4, <1>1 DEF OfPort, DrvTypeOK
  <2>6. CASE j = ring[rd]
    <3>1. rd \in A
      BY <2>6, <1>2 DEF OfPort
    <3>2. Cardinality(A \ {rd}) = Cardinality(A) - 1
      BY <2>1, <3>1, FS_RemoveElement
    <3>3. credit'[j] = credit[j] + 1
      BY <2>6 DEF DrvTypeOK
    <3>4. QueuedOf(j)' = Cardinality(A) - 1
      BY <3>2, <2>3, <2>5
    <3> HIDE DEF A
    <3> QED BY <3>3, <3>4, <2>1, <2>2, ShareType
  <2>7. CASE j # ring[rd]
    <3>1. A \ {rd} = A
      BY <2>7 DEF OfPort
    <3>2. credit'[j] = credit[j]
      BY <2>7 DEF DrvTypeOK
    <3> QED BY <3>1, <3>2, <2>2, <2>3, <2>5
  <2> QED BY <2>6, <2>7
<1>4. free' \in 0 .. Pool
  BY <1>1, Nf2DriverAssumption
<1> QED BY <1>1, <1>2, <1>3, <1>4 DEF Ring

(* Dropping what is queued empties the ring; the credits stay taken. *)
LEMMA RingDrop ==
  ASSUME DrvTypeOK, Ring, rd' = (rd + Pool - free) % Pool, free' = Pool,
         UNCHANGED <<wr, credit>>
  PROVE  Ring' /\ rd' = wr
<1> USE Nf2DriverAssumption
<1>1. rd' = wr /\ wr \in Slots
  BY DEF Ring, DrvTypeOK
<1>2. wr' = (rd' + Pool - free') % Pool
  <2>1. rd' + Pool - free' = wr + 0
    BY <1>1 DEF Slots
  <2> QED BY <2>1, <1>1, ModSlot
<1>3. Window(rd', free') = {}
  BY DEF Window
<1>4. ASSUME NEW j \in Ifaces PROVE credit'[j] + QueuedOf(j)' <= Share
  <2>1. OfPort(Window(rd', free'), ring', j) = {}
    BY <1>3 DEF OfPort
  <2>2. QueuedOf(j)' = 0
    BY <2>1, QueuedIsWindow, FS_EmptySet
  <2>3. credit[j] + QueuedOf(j) <= Share /\ QueuedOf(j) \in Nat /\ credit[j] \in Int
    BY QueuedIsWindow, OfPortFinite DEF Ring, DrvTypeOK
  <2> QED BY <2>2, <2>3, ShareType
<1>5. free' \in 0 .. Pool
  BY DEF Ring
<1> QED BY <1>1, <1>2, <1>4, <1>5 DEF Ring


LEMMA SameRing ==
  ASSUME Ring, UNCHANGED <<ring, wr, rd, free, credit>>
  PROVE  Ring'
<1>1. \A i : QueuedOf(i)' = QueuedOf(i)
  BY QueuedIsWindow
<1> QED BY <1>1 DEF Ring

(* An empty ring with all credits given. *)
LEMMA FreshRing ==
  ASSUME wr' = 0, rd' = 0, free' = Pool, credit' = [i \in Ifaces |-> Share]
  PROVE  Ring'
<1> USE Nf2DriverAssumption
<1>1. Window(0, Pool) = {}
  BY DEF Window
<1>2. \A i \in Ifaces : QueuedOf(i)' = 0
  <2>1. \A i : OfPort(Window(0, Pool), ring', i) = {}
    BY <1>1 DEF OfPort
  <2> QED BY <2>1, QueuedIsWindow, FS_EmptySet
<1>3. (0 + Pool - Pool) % Pool = 0
  <2>1. 0 + Pool - Pool = 0 + 0 /\ 0 \in Slots
    BY DEF Slots
  <2> QED BY <2>1, ModSlot
<1>4. \A i \in Ifaces : credit'[i] = Share
  OBVIOUS
<1>5. free' \in 0 .. Pool
  OBVIOUS
<1> QED BY <1>2, <1>3, <1>4, <1>5, ShareType DEF Ring

LEMMA ModInt == ASSUME NEW a \in Int PROVE a % Pool \in Slots
BY Nf2DriverAssumption DEF Slots

LEMMA BackOne == ASSUME NEW w \in Slots PROVE (((w + 1) % Pool) + Pool - 1) % Pool = w
<1> USE Nf2DriverAssumption
<1> DEFINE v == (w + 1) % Pool
<1>1. 1 \in 0 .. Pool
  OBVIOUS
<1>2. v = (IF w + 1 < Pool THEN w + 1 ELSE w + 1 - Pool) /\ v \in Slots
  BY <1>1, ModSum
<1> HIDE DEF v
<1>3. v + Pool - 1 = v + (Pool - 1) /\ Pool - 1 \in 0 .. Pool
  BY <1>2 DEF Slots
<1>4. (v + (Pool - 1)) % Pool = IF v + (Pool - 1) < Pool THEN v + (Pool - 1) ELSE v + (Pool - 1) - Pool
  BY <1>2, <1>3, ModSum
<1>5. (v + (Pool - 1)) % Pool = w
  BY <1>2, <1>4 DEF Slots
<1> QED BY <1>3, <1>5 DEF v

-----------------------------------------------------------------------------
(* Types and contexts. *)
LEMMA DrvTypes ==
  DrvTypeOK <=>
    /\ pci \in PciRec
    /\ ring \in [Slots -> Ifaces \cup {Nothing}]
    /\ wr \in Slots /\ rd \in Slots /\ free \in Int
    /\ credit \in [Ifaces -> Int]
    /\ txp \in Int /\ rxp \in Int
    /\ canWr \subseteq Ifaces /\ up \subseteq Ifaces /\ stopped \subseteq Ifaces
    /\ opens \in 0 .. MaxOpens
    /\ snd \in [Callers -> Steps]
    /\ isr \in IsrRec /\ wd \in WdRec /\ hw \in HwRec
    /\ misjudged \in BOOLEAN
BY DEF DrvTypeOK, PciRec, Steps, IsrRec, WdRec, HwRec

(* What no step of the card changes. *)
Elsewhere == <<pci, ring, wr, rd, free, credit, txp, rxp, canWr, up, stopped,
               opens, snd, isr, wd, misjudged>>

(* The card's owners, and the flags that a step adds. *)
HwAdds(w, r, F) ==
  /\ hw' \in HwRec /\ hw'.mask = hw.mask /\ F \subseteq Bits
  /\ hw'.wrOwner = w /\ hw'.rdOwner = r /\ hw'.flags = hw.flags \cup F

LEMMA HwRoomShape ==
  ASSUME DrvTypeOK, NEW i \in Ifaces, HwRoom(i)
  PROVE  HwAdds(hw.wrOwner, hw.rdOwner, {"queue"}) /\ UNCHANGED Elsewhere
<1>1. hw \in HwRec
  BY DrvTypes
<1>2. hw' \in HwRec
  BY <1>1 DEF HwRoom, HwRec, Bits
<1>3. /\ hw'.mask = hw.mask /\ hw'.wrOwner = hw.wrOwner /\ hw'.rdOwner = hw.rdOwner
      /\ hw'.flags = hw.flags \cup {"queue"}
  BY <1>1 DEF HwRoom, HwRec
<1>4. UNCHANGED Elsewhere
  BY DEF HwRoom, Elsewhere
<1> QED BY <1>2, <1>3, <1>4 DEF HwAdds, Bits

LEMMA HwArriveShape ==
  ASSUME DrvTypeOK, HwArrive
  PROVE  /\ \E F : /\ HwAdds(hw.wrOwner, hw.rdOwner, F)
                   /\ "tx" \notin F /\ "rx" \notin F /\ "err" \notin F
         /\ UNCHANGED Elsewhere
<1> DEFINE F == IF hw.avail = 0 THEN {"queue", "avail"} ELSE {}
<1>1. hw \in HwRec
  BY DrvTypes
<1>2. hw' = [hw EXCEPT !.avail = hw.avail + 1, !.flags = hw.flags \cup F]
  BY DEF HwArrive
<1>3. F \subseteq Bits /\ "tx" \notin F /\ "rx" \notin F /\ "err" \notin F
  BY DEF Bits
<1> HIDE DEF F
<1>4. hw.avail + 1 \in 0 .. MaxAvail
  BY <1>1, Nf2DriverAssumption DEF HwArrive, HwRec
<1>5. hw' \in HwRec
  BY <1>1, <1>2, <1>3, <1>4 DEF HwRec
<1>6. /\ hw'.mask = hw.mask /\ hw'.wrOwner = hw.wrOwner /\ hw'.rdOwner = hw.rdOwner
      /\ hw'.flags = hw.flags \cup F
  BY <1>1, <1>2 DEF HwRec
<1>7. UNCHANGED Elsewhere
  BY DEF HwArrive, Elsewhere
<1> QED BY <1>3, <1>5, <1>6, <1>7 DEF HwAdds

(* The end of a read is flagged as the reception it is, or as an error. *)
LEMMA HwReadShape ==
  ASSUME DrvTypeOK, HwRead
  PROVE  /\ hw.rdOwner /\ UNCHANGED Elsewhere
         /\ \E F : /\ HwAdds(hw.wrOwner, FALSE, F)
                   /\ "tx" \notin F /\ ("rx" \in F \/ "err" \in F)
<1>1. hw \in HwRec /\ hw.rdOwner /\ hw.avail \in 0 .. MaxAvail /\ hw.avail > 0
  BY DrvTypes DEF HwRec, HwRead
<1>2. PICK F, a : /\ hw' = [hw EXCEPT !.rdOwner = FALSE, !.avail = a, !.flags = hw.flags \cup F]
                  /\ a \in 0 .. MaxAvail /\ F \subseteq Bits /\ "tx" \notin F
                  /\ "rx" \in F \/ "err" \in F
  <2>1. CASE hw' = [hw EXCEPT !.rdOwner = FALSE, !.avail = hw.avail - 1,
                              !.flags = hw.flags \cup {"rx"} \cup Again(hw.avail - 1)]
    <3> DEFINE F == {"rx"} \cup Again(hw.avail - 1)
    <3>1. hw.flags \cup {"rx"} \cup Again(hw.avail - 1) = hw.flags \cup F
      OBVIOUS
    <3>2. F \subseteq Bits /\ "tx" \notin F /\ "rx" \in F
      BY DEF Again, Bits
    <3>3. hw.avail - 1 \in 0 .. MaxAvail
      BY <1>1, Nf2DriverAssumption
    <3> HIDE DEF F
    <3> QED BY <2>1, <3>1, <3>2, <3>3
  <2>2. CASE hw' = [hw EXCEPT !.rdOwner = FALSE,
                              !.flags = hw.flags \cup {"err"} \cup Again(hw.avail)]
    <3> DEFINE F == {"err"} \cup Again(hw.avail)
    <3>1. hw.flags \cup {"err"} \cup Again(hw.avail) = hw.flags \cup F
      OBVIOUS
    <3>2. F \subseteq Bits /\ "tx" \notin F /\ "err" \in F
      BY DEF Again, Bits
    <3> HIDE DEF F
    <3>3. hw' = [hw EXCEPT !.rdOwner = FALSE, !.avail = hw.avail, !.flags = hw.flags \cup F]
      BY <2>2, <3>1, <1>1 DEF HwRec
    <3> QED BY <3>2, <3>3, <1>1
  <2> QED BY <2>1, <2>2 DEF HwRead
<1>3. hw' \in HwRec
  BY <1>1, <1>2 DEF HwRec
<1>4. /\ hw'.mask = hw.mask /\ hw'.wrOwner = hw.wrOwner /\ hw'.rdOwner = FALSE
      /\ hw'.flags = hw.flags \cup F
  BY <1>1, <1>2 DEF HwRec
<1>5. UNCHANGED Elsewhere
  BY DEF HwRead, Elsewhere
<1>6. HwAdds(hw.wrOwner, FALSE, F)
  BY <1>2, <1>3, <1>4 DEF HwAdds
<1> QED BY <1>1, <1>2, <1>5, <1>6

(* The end of a write is flagged as the transmission it is, or as an error. *)
LEMMA HwWriteShape ==
  ASSUME DrvTypeOK, HwWrite
  PROVE  /\ hw.wrOwner # Nothing /\ UNCHANGED Elsewhere
         /\ \E F : /\ HwAdds(Nothing, hw.rdOwner, F)
                   /\ "rx" \notin F /\ ("tx" \in F \/ "err" \in F)
<1>1. hw \in HwRec /\ hw.wrOwner # Nothing
  BY DrvTypes DEF HwWrite
<1>2. PICK F, m : /\ hw' = [hw EXCEPT !.wrOwner = Nothing, !.room = m, !.flags = hw.flags \cup F]
                  /\ m \subseteq Ifaces /\ F \subseteq Bits /\ "rx" \notin F
                  /\ "tx" \in F \/ "err" \in F
  <2> DEFINE again == IF hw.avail > 0 THEN {"avail"} ELSE {}
             i == ring[hw.wrOwner]
  <2>1. CASE hw' = [hw EXCEPT !.wrOwner = Nothing, !.flags = hw.flags \cup {"tx"} \cup again]
    <3> DEFINE F == {"tx"} \cup again
    <3>1. F \subseteq Bits /\ "rx" \notin F /\ "tx" \in F
      BY DEF Bits
    <3>2. hw' = [hw EXCEPT !.wrOwner = Nothing, !.room = hw.room, !.flags = hw.flags \cup F]
      <4>1. hw.flags \cup {"tx"} \cup again = hw.flags \cup F
        OBVIOUS
      <4> HIDE DEF F, again
      <4> QED BY <2>1, <4>1, <1>1 DEF HwRec
    <3>3. hw.room \subseteq Ifaces
      BY <1>1 DEF HwRec
    <3> HIDE DEF F
    <3> QED BY <3>1, <3>2, <3>3
  <2>2. CASE hw' = [hw EXCEPT !.wrOwner = Nothing, !.room = hw.room \ {i},
                              !.flags = hw.flags \cup {"tx", "queue"} \cup again]
    <3> DEFINE F == {"tx", "queue"} \cup again
    <3>1. F \subseteq Bits /\ "rx" \notin F /\ "tx" \in F
      BY DEF Bits
    <3>2. hw.flags \cup {"tx", "queue"} \cup again = hw.flags \cup F
      OBVIOUS
    <3>3. hw.room \ {i} \subseteq Ifaces
      BY <1>1 DEF HwRec
    <3> HIDE DEF F, again
    <3> QED BY <2>2, <3>1, <3>2, <3>3
  <2>3. CASE hw' = [hw EXCEPT !.wrOwner = Nothing, !.flags = hw.flags \cup {"err"} \cup again]
    <3> DEFINE F == {"err"} \cup again
    <3>1. F \subseteq Bits /\ "rx" \notin F /\ "err" \in F
      BY DEF Bits
    <3>2. hw' = [hw EXCEPT !.wrOwner = Nothing, !.room = hw.room, !.flags = hw.flags \cup F]
      <4>1. hw.flags \cup {"err"} \cup again = hw.flags \cup F
        OBVIOUS
      <4> HIDE DEF F, again
      <4> QED BY <2>3, <4>1, <1>1 DEF HwRec
    <3>3. hw.room \subseteq Ifaces
      BY <1>1 DEF HwRec
    <3> HIDE DEF F
    <3> QED BY <3>1, <3>2, <3>3
  <2> QED BY <2>1, <2>2, <2>3 DEF HwWrite
<1>3. hw' \in HwRec
  BY <1>1, <1>2 DEF HwRec
<1>4. /\ hw'.mask = hw.mask /\ hw'.wrOwner = Nothing /\ hw'.rdOwner = hw.rdOwner
      /\ hw'.flags = hw.flags \cup F
  BY <1>1, <1>2 DEF HwRec
<1>5. UNCHANGED Elsewhere
  BY DEF HwWrite, Elsewhere
<1>6. HwAdds(Nothing, hw.rdOwner, F)
  BY <1>2, <1>3, <1>4 DEF HwAdds
<1> QED BY <1>1, <1>2, <1>5, <1>6

LEMMA ContextsKept ==
  ASSUME Contexts, UNCHANGED <<pci, ring, wr, up, snd, isr, wd>>
  PROVE  Contexts'
BY DEF Contexts, InTx, TxPort

LEMMA HwBase ==
  ASSUME DrvBase, UNCHANGED Elsewhere, hw' \in HwRec
  PROVE  DrvBase'
<1>1. Contexts'
  BY ContextsKept DEF DrvBase, Elsewhere
<1>2. DrvTypeOK'
  BY DEF DrvBase, DrvTypeOK, Elsewhere, HwRec
<1> QED BY <1>1, <1>2 DEF DrvBase

LEMMA HardwareBase == ASSUME DrvBase, Hardware PROVE DrvBase'
<1>1. DrvTypeOK
  BY DEF DrvBase
<1>2. UNCHANGED Elsewhere /\ hw' \in HwRec
  BY <1>1, HwRoomShape, HwArriveShape, HwReadShape, HwWriteShape DEF Hardware, HwAdds
<1> QED BY <1>2, HwBase

-----------------------------------------------------------------------------
(* A card that has been reset, whatever it then reports of its queues. *)
Blank(h) ==
  /\ h \in HwRec /\ h.wrOwner = Nothing /\ h.rdOwner = FALSE
  /\ "tx" \notin h.flags /\ "rx" \notin h.flags /\ "err" \notin h.flags

LEMMA ResetFacts ==
  ASSUME NEW h, NEW m \in SUBSET Bits
  PROVE  /\ Blank(HwReset(h)) /\ HwReset(h).mask = Bits
         /\ Blank([HwReset(h) EXCEPT !.mask = m])
         /\ [HwReset(h) EXCEPT !.mask = m].mask = m
<1> DEFINE e == Edges(Ifaces, 0)
<1>1. e \subseteq Bits /\ "tx" \notin e /\ "rx" \notin e /\ "err" \notin e
  BY DEF Edges, Bits
<1>2. HwReset(h) = [wrOwner |-> Nothing, rdOwner |-> FALSE, room |-> Ifaces, avail |-> 0,
                    flags |-> e, mask |-> Bits]
  BY DEF HwReset
<1> HIDE DEF e
<1>3. HwReset(h) \in HwRec
  BY <1>1, <1>2, Nf2DriverAssumption DEF HwRec
<1>4. [HwReset(h) EXCEPT !.mask = m] \in HwRec
  BY <1>3 DEF HwRec
<1> QED BY <1>1, <1>2, <1>3, <1>4 DEF Blank

LEMMA ResetCpciFacts ==
  ASSUME hw \in HwRec
  PROVE  Blank(ResetCpci(hw)) /\ ResetCpci(hw).mask = hw.mask
<1> DEFINE e == Edges(hw.room, hw.avail)
<1>1. e \subseteq Bits /\ "tx" \notin e /\ "rx" \notin e /\ "err" \notin e
  BY DEF Edges, Bits
<1>2. ResetCpci(hw) = [hw EXCEPT !.wrOwner = Nothing, !.rdOwner = FALSE, !.flags = e]
  BY DEF ResetCpci
<1> HIDE DEF e
<1> QED BY <1>1, <1>2 DEF Blank, HwRec

LEMMA InitBase == DrvInit => DrvBase
<1> SUFFICES ASSUME DrvInit PROVE DrvBase
  OBVIOUS
<1> USE Nf2DriverAssumption
<1>1. hw \in HwRec
  BY ResetFacts, Bits \in SUBSET Bits DEF DrvInit, Blank
<1>2. credit \in [Ifaces -> Int] /\ ring \in [Slots -> Ifaces \cup {Nothing}]
  BY ShareType DEF DrvInit
<1>3. rd \in Slots /\ wr \in Slots /\ free \in Int /\ opens \in 0 .. MaxOpens
  BY DEF DrvInit, Slots
<1>4. snd \in [Callers -> Steps]
  BY DEF DrvInit, Steps
<1>5. isr \in IsrRec
  BY DEF DrvInit, IsrRec, IsrPcs
<1>6. wd \in WdRec
  BY DEF DrvInit, WdRec, WdPcs
<1>7. pci \in PciRec
  BY DEF DrvInit, PciRec
<1>8. /\ txp \in Int /\ rxp \in Int
      /\ canWr \subseteq Ifaces /\ up \subseteq Ifaces /\ stopped \subseteq Ifaces
  BY DEF DrvInit
<1>b. misjudged \in BOOLEAN
  BY DEF DrvInit
<1>9. DrvTypeOK
  BY <1>b, <1>1, <1>2, <1>3, <1>4, <1>5, <1>6, <1>7, <1>8, DrvTypes
<1>10. Contexts
  BY DEF DrvInit, Contexts, InTx, Callers
<1> QED BY <1>9, <1>10 DEF DrvBase

(* While no port is up no context runs. *)
LEMMA DownIdle ==
  ASSUME Contexts, up = {}
  PROVE  /\ isr.pc = "idle" /\ wd.pc = "idle" /\ isr.status = {} /\ ~InTx
         /\ snd["tx"] = "off" /\ snd["isr"] = "off" /\ snd["wd"] = "off"
BY DEF Contexts, InTx

LEMMA ProbeBase == ASSUME DrvBase, Probe PROVE DrvBase'
<1> USE Nf2DriverAssumption
<1>a. /\ DrvTypeOK /\ Contexts /\ ~pci.bound /\ pci \in PciRec
      /\ pci' = [pci EXCEPT !.bound = TRUE, !.held = pci.held \cup Everything]
      /\ wr' = 0 /\ rd' = 0 /\ free' = Pool /\ credit' = [i \in Ifaces |-> Share]
      /\ txp' = 0 /\ rxp' = 0 /\ canWr' = {} /\ opens' = 0
      /\ UNCHANGED <<ring, up, stopped, snd, isr, wd, hw, misjudged>>
  BY DrvTypes DEF DrvBase, Probe
<1>1. pci' \in PciRec /\ pci'.bound
  BY <1>a DEF PciRec
<1>2. credit' \in [Ifaces -> Int] /\ rd' \in Slots /\ wr' \in Slots /\ free' \in Int
      /\ opens' \in 0 .. MaxOpens
  BY <1>a, ShareType DEF Slots
<1>3. DrvTypeOK'
  BY <1>a, <1>1, <1>2, DrvTypes DEF PciRec, DrvTypeOK
<1>4. up = {}
  BY <1>a DEF Contexts
<1>5. Contexts'
  BY <1>a, <1>1, <1>4, DownIdle DEF Contexts, InTx
<1> QED BY <1>3, <1>5 DEF DrvBase

LEMMA ProbeFailsBase == ASSUME DrvBase, NEW f \in Failures, ProbeFails(f) PROVE DrvBase'
<1>a. /\ DrvTypeOK /\ Contexts /\ ~pci.bound /\ pci \in PciRec
      /\ pci' = [pci EXCEPT !.held = (pci.held \cup Before(f)) \ Unwinds(f)]
      /\ UNCHANGED <<ring, wr, rd, free, credit, txp, rxp, canWr, up, stopped,
                     opens, snd, isr, wd, hw, misjudged>>
  BY DrvTypes DEF DrvBase, ProbeFails
<1>1. Before(f) \subseteq Everything
  BY DEF Before, Failures, Acquired, Everything
<1>2. pci' \in PciRec /\ pci'.bound = pci.bound
  BY <1>a, <1>1 DEF PciRec
<1>3. DrvTypeOK'
  BY <1>a, <1>2 DEF PciRec, DrvTypeOK
<1>4. Contexts'
  BY <1>a, <1>2 DEF Contexts, InTx, TxPort
<1> QED BY <1>3, <1>4 DEF DrvBase

LEMMA RemoveBase == ASSUME DrvBase, Remove PROVE DrvBase'
<1> USE Nf2DriverAssumption
<1>a. /\ DrvTypeOK /\ Contexts /\ up = {} /\ pci \in PciRec
      /\ pci' = [pci EXCEPT !.bound = FALSE, !.held = pci.held \ Everything]
      /\ rd' = (rd + Pool - free) % Pool /\ free' = Pool
      /\ UNCHANGED <<ring, wr, credit, txp, rxp, canWr, up, stopped,
                     opens, snd, isr, wd, hw, misjudged>>
  BY DrvTypes DEF DrvBase, Remove
<1>1. pci' \in PciRec
  BY <1>a DEF PciRec
<1>2. rd' \in Slots /\ free' \in Int
  <2>1. rd + Pool - free \in Int
    BY <1>a, DrvTypes DEF Slots
  <2> QED BY <1>a, <2>1, ModInt
<1>3. DrvTypeOK'
  BY <1>a, <1>1, <1>2 DEF PciRec, DrvTypeOK
<1>4. Contexts'
  BY <1>a, DownIdle DEF Contexts, InTx
<1> QED BY <1>3, <1>4 DEF DrvBase

LEMMA OpenBase == ASSUME DrvBase, NEW i \in Ifaces, Open(i) PROVE DrvBase'
<1> USE Nf2DriverAssumption
<1>a. /\ DrvTypeOK /\ Contexts /\ pci.bound /\ i \notin up
      /\ opens < MaxOpens /\ opens' = opens + 1
      /\ hw' = (IF up = {} THEN [HwReset(hw) EXCEPT !.mask = {}] ELSE hw)
      /\ up' = up \cup {i} /\ stopped' = stopped \ {i}
      /\ UNCHANGED <<pci, ring, wr, rd, free, credit, txp, rxp, canWr, snd, isr, wd, misjudged>>
  BY DEF DrvBase, Open
<1>1. hw' \in HwRec
  <2>1. CASE up = {}
    BY <1>a, <2>1, ResetFacts DEF Blank
  <2>2. CASE up # {}
    BY <1>a, <2>2, DrvTypes
  <2> QED BY <2>1, <2>2
<1>2. opens' \in 0 .. MaxOpens
  BY <1>a, DrvTypes
<1>3. DrvTypeOK'
  BY <1>a, <1>1, <1>2 DEF HwRec, DrvTypeOK
<1>4. Contexts'
  BY <1>a DEF Contexts, InTx, TxPort
<1> QED BY <1>3, <1>4 DEF DrvBase

LEMMA OpenFailsBase == ASSUME DrvBase, NEW i \in Ifaces, OpenFails(i) PROVE DrvBase'
<1>1. UNCHANGED Elsewhere /\ hw' = HwReset(hw)
  BY DEF OpenFails, Elsewhere
<1>2. hw' \in HwRec
  BY <1>1, ResetFacts, Bits \in SUBSET Bits DEF Blank
<1> QED BY <1>1, <1>2, HwBase

LEMMA ReleaseBase == ASSUME DrvBase, NEW i \in Ifaces, Release(i) PROVE DrvBase'
<1> USE Nf2DriverAssumption
<1>a. /\ DrvTypeOK /\ Contexts /\ i \in up /\ TxPort # i /\ wd.iface # i
      /\ up' = up \ {i} /\ stopped' = stopped \cup {i}
      /\ UNCHANGED <<pci, wr, credit, canWr, opens, snd, isr, wd, misjudged>>
  BY DEF DrvBase, Release
<1>1. CASE up' = {}
  <2>a. /\ isr.pc = "idle" /\ hw' = HwReset(hw) /\ ring' = [s \in Slots |-> Nothing]
        /\ rd' = (rd + Pool - free) % Pool /\ free' = Pool /\ txp' = 0 /\ rxp' = 0
    BY <1>1 DEF Release
  <2>1. hw' \in HwRec
    BY <2>a, ResetFacts, Bits \in SUBSET Bits DEF Blank
  <2>2. rd' \in Slots /\ free' \in Int /\ ring' \in [Slots -> Ifaces \cup {Nothing}]
    <3>1. rd + Pool - free \in Int
      BY <1>a, DrvTypes DEF Slots
    <3> QED BY <2>a, <3>1, ModInt
  <2>3. DrvTypeOK'
    BY <1>a, <2>a, <2>1, <2>2 DEF DrvTypeOK, HwRec
  <2>4. ~InTx /\ wd.pc = "idle" /\ snd["wd"] = "off"
    BY <1>1, <1>a DEF Contexts
  <2>5. Contexts'
    BY <1>1, <1>a, <2>a, <2>4 DEF Contexts, InTx
  <2> QED BY <2>3, <2>5 DEF DrvBase
<1>2. CASE up' # {}
  <2>a. UNCHANGED <<hw, ring, rd, free, txp, rxp>>
    BY <1>2 DEF Release
  <2>1. DrvTypeOK'
    BY <1>a, <2>a DEF DrvTypeOK
  <2>2. TxPort' = TxPort /\ InTx' = InTx
    BY <1>a, <2>a DEF TxPort, InTx
  <2>3. Contexts'
    BY <1>2, <1>a, <2>a, <2>2 DEF Contexts
  <2> QED BY <2>1, <2>3 DEF DrvBase
<1> QED BY <1>1, <1>2

LEMMA ControlBase == ASSUME DrvBase, Control PROVE DrvBase'
BY ProbeBase, ProbeFailsBase, RemoveBase, OpenBase, OpenFailsBase, ReleaseBase DEF Control

(* A step of caller p of nf2c_send. *)
LEMMA SendBase == ASSUME DrvBase, NEW p \in Callers, Send(p) PROVE DrvBase'
<1>a. /\ DrvTypeOK /\ Contexts /\ snd \in [Callers -> Steps] /\ hw \in HwRec
      /\ rd \in Slots /\ txp \in Int
      /\ "tx" \in Callers /\ "isr" \in Callers /\ "wd" \in Callers
  BY DrvTypes DEF DrvBase, Callers
<1>1. PICK x \in Steps : snd[p] # "off" /\ snd' = [snd EXCEPT ![p] = x]
  <2>1. CASE SendClaim(p)
    BY <2>1 DEF SendClaim, Steps
  <2>2. CASE SendLook(p)
    BY <2>2 DEF SendLook, Steps
  <2>3. CASE SendBack(p)
    BY <2>3 DEF SendBack, Steps
  <2> QED BY <2>1, <2>2, <2>3 DEF Send
<1>2. txp' \in Int
  BY <1>a DEF Send, SendClaim, SendLook, SendBack
<1>3. hw' \in HwRec
  <2>1. hw' = hw \/ hw' = [hw EXCEPT !.wrOwner = rd]
    BY DEF Send, SendClaim, SendLook, SendBack
  <2> QED BY <1>a, <2>1 DEF HwRec
<1>4. UNCHANGED <<pci, ring, wr, rd, free, credit, rxp, canWr, up, stopped,
                  opens, isr, wd, misjudged>>
  BY DEF Send, SendClaim, SendLook, SendBack
<1>5. snd' \in [Callers -> Steps] /\ \A q \in Callers : snd'[q] # "off" => snd[q] # "off"
  BY <1>a, <1>1
<1>6. DrvTypeOK'
  BY <1>a, <1>2, <1>3, <1>4, <1>5 DEF DrvTypeOK, HwRec, Steps
<1>7. Contexts'
  BY <1>a, <1>4, <1>5 DEF Contexts, InTx, TxPort
<1> QED BY <1>6, <1>7 DEF DrvBase

LEMMA NfTxBase == ASSUME DrvBase, NEW i \in Ifaces, NfTx(i) PROVE DrvBase'
<1> USE Nf2DriverAssumption
<1>a. /\ i \in up /\ ring' = [ring EXCEPT ![wr] = i] /\ wr' = (wr + 1) % Pool
      /\ free' = free - 1 /\ credit' = [credit EXCEPT ![i] = credit[i] - 1]
      /\ stopped' = (IF credit[i] - 1 = 0 THEN stopped \cup {i} ELSE stopped)
      /\ snd' = [snd EXCEPT !["tx"] = "claim"]
      /\ UNCHANGED <<pci, rd, txp, rxp, canWr, up, opens, isr, wd, hw, misjudged>>
  BY DEF NfTx
<1>b. /\ DrvTypeOK /\ Contexts /\ snd \in [Callers -> Steps] /\ wr \in Slots /\ free \in Int
      /\ credit \in [Ifaces -> Int] /\ ring \in [Slots -> Ifaces \cup {Nothing}]
      /\ stopped \subseteq Ifaces
      /\ "tx" \in Callers /\ "isr" \in Callers /\ "wd" \in Callers
  BY DrvTypes DEF DrvBase, Callers
<1>1. wr' \in Slots /\ free' \in Int
  <2>1. wr + 1 \in Int
    BY <1>b DEF Slots
  <2> QED BY <1>a, <1>b, <2>1, ModInt
<1>2. /\ credit' \in [Ifaces -> Int] /\ ring' \in [Slots -> Ifaces \cup {Nothing}]
      /\ stopped' \subseteq Ifaces
  BY <1>a, <1>b
<1>3. snd' \in [Callers -> Steps] /\ snd'["isr"] = snd["isr"] /\ snd'["wd"] = snd["wd"]
  BY <1>a, <1>b DEF Steps
<1>4. DrvTypeOK'
  BY <1>a, <1>b, <1>1, <1>2, <1>3 DEF DrvTypeOK, Steps
<1>5. TxPort' \in up'
  <2>1. (wr' + Pool - 1) % Pool = wr
    BY <1>a, <1>b, BackOne
  <2>2. ring'[wr] = i
    BY <1>a, <1>b
  <2>3. snd'["tx"] = "claim"
    BY <1>a, <1>b
  <2> QED BY <1>a, <2>1, <2>2, <2>3 DEF TxPort, InTx
<1>6. Contexts'
  BY <1>a, <1>b, <1>3, <1>5 DEF Contexts
<1> QED BY <1>4, <1>6 DEF DrvBase

(* Entering nf2c_send, or not, at the end of a step of p. *)
LEMMA SendIfAnyFacts ==
  ASSUME snd \in [Callers -> Steps], NEW p \in Callers, NEW n, snd' = SendIfAny(p, n)
  PROVE  /\ snd' \in [Callers -> Steps] /\ snd'[p] \in {"off", "claim"}
         /\ \A q \in Callers \ {p} : snd'[q] = snd[q]
BY DEF SendIfAny, Steps

(* What a step of nf2c_clear_dma_flags does to the context that calls it. *)
Gone(p, l) ==
  /\ isr' \in IsrRec /\ wd' \in WdRec
  /\ isr'.status = isr.status /\ isr'.mask = isr.mask
  /\ wd'.iface = wd.iface /\ wd'.mask = wd.mask
  /\ isr'.pc = (IF p = "isr" THEN l ELSE isr.pc)
  /\ wd'.pc = (IF p = "wd" THEN l ELSE wd.pc)

LEMMA GotoFacts ==
  ASSUME isr \in IsrRec, wd \in WdRec, NEW p \in {"isr", "wd"}, NEW l, MoveTo(p, l),
         p = "isr" => l \in IsrPcs, p = "wd" => l \in WdPcs
  PROVE  Gone(p, l)
<1>1. CASE p = "isr"
  <2>1. isr' = [isr EXCEPT !.pc = l] /\ wd' = wd
    BY <1>1 DEF MoveTo
  <2> QED BY <1>1, <2>1 DEF Gone, IsrRec
<1>2. CASE p = "wd"
  <2>1. wd' = [wd EXCEPT !.pc = l] /\ isr' = isr
    BY <1>2 DEF MoveTo
  <2> QED BY <1>2, <2>1 DEF Gone, WdRec
<1> QED BY <1>1, <1>2

(* FreeSlot, for any state of the ring. *)
LEMMA FreeSlotTypes ==
  ASSUME DrvTypeOK, NEW p \in Callers, FreeSlot(p)
  PROVE  /\ rd' \in Slots /\ free' \in Int /\ txp' \in Int
         /\ ring' \in [Slots -> Ifaces \cup {Nothing}] /\ credit' \in [Ifaces -> Int]
         /\ stopped' \subseteq Ifaces /\ snd' \in [Callers -> Steps]
         /\ snd'[p] \in {"off", "claim"} /\ (\A q \in Callers \ {p} : snd'[q] = snd[q])
<1>a. /\ ring \in [Slots -> Ifaces \cup {Nothing}] /\ credit \in [Ifaces -> Int]
      /\ rd \in Slots /\ free \in Int /\ txp \in Int /\ stopped \subseteq Ifaces
      /\ snd \in [Callers -> Steps]
  BY DrvTypes
<1>b. /\ ring' = [ring EXCEPT ![rd] = Nothing] /\ rd' = (rd + 1) % Pool
      /\ free' = free + 1
      /\ credit' = [credit EXCEPT ![ring[rd]] = credit[ring[rd]] + 1]
      /\ txp' = txp - 1 /\ snd' = SendIfAny(p, free + 1)
      /\ stopped' = (IF credit[ring[rd]] + 1 = 1 THEN stopped \ {ring[rd]} ELSE stopped)
  BY DEF FreeSlot
<1>1. rd' \in Slots
  <2>1. rd + 1 \in Int
    BY <1>a, Nf2DriverAssumption DEF Slots
  <2> QED BY <1>b, <2>1, ModInt
<1>2. free' \in Int /\ txp' \in Int /\ stopped' \subseteq Ifaces
  BY <1>a, <1>b
<1>3. ring' \in [Slots -> Ifaces \cup {Nothing}]
  BY <1>a, <1>b
<1>4. credit' \in [Ifaces -> Int]
  <2>1. PICK x : x = ring[rd]
    OBVIOUS
  <2>2. credit' = [j \in Ifaces |-> IF j = x THEN credit[x] + 1 ELSE credit[j]]
    BY <1>a, <1>b, <2>1
  <2>3. ASSUME NEW j \in Ifaces PROVE (IF j = x THEN credit[x] + 1 ELSE credit[j]) \in Int
    BY <1>a
  <2> QED BY <2>2, <2>3
<1> QED BY <1>a, <1>b, <1>1, <1>2, <1>3, <1>4, SendIfAnyFacts

(* The context that clears has no call of nf2c_send under way. *)
LEMMA ClearOff ==
  ASSUME Contexts, NEW p \in {"isr", "wd"}, Pc(p) \in {"clear", "clearRx", "clearTx", "free"}
  PROVE  /\ snd[p] = "off" /\ up # {} /\ Pc(p) # "idle"
         /\ (p = "isr" => isr.pc = Pc(p)) /\ (p = "wd" => wd.pc = Pc(p))
<1>1. CASE p = "isr"
  BY <1>1 DEF Contexts, Pc
<1>2. CASE p = "wd"
  BY <1>2 DEF Contexts, Pc
<1> QED BY <1>1, <1>2

LEMMA ClearContexts ==
  ASSUME Contexts, NEW p \in {"isr", "wd"}, NEW l, Gone(p, l), l # "idle",
         Pc(p) \in {"clear", "clearRx", "clearTx", "free"},
         snd[p] = "off", snd'[p] # "off" => l = AfterClear(p),
         \A q \in Callers \ {p} : snd'[q] = snd[q],
         snd'["tx"] # "off" => UNCHANGED <<ring, wr>>,
         UNCHANGED <<pci, up>>
  PROVE  Contexts'
<1>a. "tx" \in Callers \ {p} /\ snd'["tx"] = snd["tx"]
  BY DEF Callers
<1>b. up # {} /\ (p = "isr" => isr.pc # "idle") /\ (p = "wd" => wd.pc # "idle")
  BY ClearOff
<1>1. InTx' => TxPort' \in up'
  BY <1>a DEF InTx, TxPort, Contexts
<1>2. wd'.pc # "idle" => wd'.iface \in up'
  BY <1>b DEF Gone, Contexts
<1>3. snd'["isr"] # "off" => isr'.pc \in {"run", "queued"}
  <2>1. CASE p = "isr"
    BY <2>1 DEF Gone, AfterClear
  <2>2. CASE p = "wd"
    <3>1. snd'["isr"] = snd["isr"] /\ isr'.pc = isr.pc
      BY <2>2 DEF Callers, Gone
    <3> QED BY <3>1 DEF Contexts
  <2> QED BY <2>1, <2>2
<1>4. snd'["wd"] # "off" => wd'.pc = "send"
  <2>1. CASE p = "wd"
    BY <2>1 DEF Gone, AfterClear
  <2>2. CASE p = "isr"
    <3>1. snd'["wd"] = snd["wd"] /\ wd'.pc = wd.pc
      BY <2>2 DEF Callers, Gone
    <3> QED BY <3>1 DEF Contexts
  <2> QED BY <2>1, <2>2
<1>5. isr'.pc = "idle" => isr'.status = {}
  BY DEF Gone, Contexts
<1>6. isr'.pc # "idle" => up' # {}
  BY <1>b
<1>7. ~pci'.bound => up' = {}
  BY DEF Contexts
<1> QED BY <1>1, <1>2, <1>3, <1>4, <1>5, <1>6, <1>7 DEF Contexts

LEMMA ClearBase == ASSUME DrvBase, NEW p \in {"isr", "wd"}, Clear(p) PROVE DrvBase'
<1>a. /\ DrvTypeOK /\ Contexts /\ isr \in IsrRec /\ wd \in WdRec /\ rxp \in Int
      /\ snd \in [Callers -> Steps] /\ p \in Callers
  BY DrvTypes DEF DrvBase, Callers
<1>b. Pc(p) \in {"clear", "clearRx", "clearTx", "free"}
  BY DEF Clear, ClearRxLook, ClearRx, ClearTxLook, ClearTx
<1>c. snd[p] = "off"
  BY <1>a, <1>b, ClearOff
<1>d. misjudged' \in BOOLEAN
  <2>1. CASE ClearRxLook(p)
    BY <2>1 DEF ClearRxLook
  <2>2. CASE ClearTxLook(p)
    BY <2>2 DEF ClearTxLook
  <2>3. CASE ClearRx(p) \/ ClearTx(p)
    BY <1>a, <2>3, DrvTypes DEF ClearRx, ClearTx
  <2> QED BY <2>1, <2>2, <2>3 DEF Clear
<1>1. PICK l : /\ Gone(p, l) /\ l # "idle" /\ (l = "clearRx" \/ l = "clearTx" \/ l = "free" \/ l = AfterClear(p))
               /\ snd'[p] # "off" => l = AfterClear(p)
               /\ snd' \in [Callers -> Steps]
               /\ \A q \in Callers \ {p} : snd'[q] = snd[q]
  <2>1. CASE ClearRxLook(p)
    <3> DEFINE l == IF rxp # 0 THEN "clearRx" ELSE "clearTx"
    <3>1. MoveTo(p, l) /\ snd' = snd
      BY <2>1 DEF ClearRxLook
    <3>2. l \in {"clearRx", "clearTx"}
      OBVIOUS
    <3> HIDE DEF l
    <3>3. Gone(p, l)
      BY <1>a, <3>1, <3>2, GotoFacts DEF IsrPcs, WdPcs
    <3> QED BY <1>a, <1>c, <3>1, <3>2, <3>3
  <2>2. CASE ClearRx(p)
    <3>1. MoveTo(p, "clearTx") /\ snd' = snd
      BY <2>2 DEF ClearRx
    <3>2. Gone(p, "clearTx")
      BY <1>a, <3>1, GotoFacts DEF IsrPcs, WdPcs
    <3> QED BY <1>a, <1>c, <3>1, <3>2
  <2>3. CASE ClearTxLook(p)
    <3> DEFINE l == IF txp # 0 THEN "free" ELSE AfterClear(p)
    <3>1. MoveTo(p, l) /\ snd' = IF txp = 0 THEN SendIfAny(p, free) ELSE snd
      BY <2>3 DEF ClearTxLook
    <3>2. l \in {"free", AfterClear(p)} /\ (txp = 0 => l = AfterClear(p))
      OBVIOUS
    <3> HIDE DEF l
    <3>3. Gone(p, l) /\ l # "idle"
      BY <1>a, <3>1, <3>2, GotoFacts DEF IsrPcs, WdPcs, AfterClear
    <3>4. CASE txp = 0
      BY <1>a, <3>1, <3>2, <3>3, <3>4, SendIfAnyFacts
    <3>5. CASE txp # 0
      BY <1>a, <1>c, <3>1, <3>2, <3>3, <3>5
    <3> QED BY <3>4, <3>5
  <2>4. CASE ClearTx(p)
    <3>1. MoveTo(p, AfterClear(p)) /\ FreeSlot(p)
      BY <2>4 DEF ClearTx
    <3>2. Gone(p, AfterClear(p)) /\ AfterClear(p) # "idle"
      BY <1>a, <3>1, GotoFacts DEF IsrPcs, WdPcs, AfterClear
    <3> QED BY <1>a, <3>1, <3>2, FreeSlotTypes
  <2> QED BY <2>1, <2>2, <2>3, <2>4 DEF Clear
<1>2. DrvTypeOK'
  <2>1. CASE ClearTx(p)
    <3>1. FreeSlot(p) /\ UNCHANGED <<pci, wr, rxp, canWr, up, opens, hw>>
      BY <2>1 DEF ClearTx
    <3>2. /\ rd' \in Slots /\ free' \in Int /\ txp' \in Int
          /\ ring' \in [Slots -> Ifaces \cup {Nothing}] /\ credit' \in [Ifaces -> Int]
          /\ stopped' \subseteq Ifaces
      BY <1>a, <3>1, FreeSlotTypes
    <3> QED BY <1>a, <1>d, <1>1, <3>1, <3>2 DEF DrvTypeOK, Gone, IsrRec, WdRec, Steps
  <2>2. CASE ClearRxLook(p) \/ ClearRx(p) \/ ClearTxLook(p)
    <3>1. /\ rxp' \in Int
          /\ UNCHANGED <<pci, ring, wr, rd, free, credit, txp, canWr, up, stopped, opens, hw>>
      BY <1>a, <2>2 DEF ClearRxLook, ClearRx, ClearTxLook
    <3> QED BY <1>a, <1>d, <1>1, <3>1 DEF DrvTypeOK, Gone, IsrRec, WdRec, Steps
  <2> QED BY <2>1, <2>2 DEF Clear
<1>3. snd'["tx"] # "off" => UNCHANGED <<ring, wr>>
  <2>1. snd'["tx"] = snd["tx"]
    BY <1>1 DEF Callers
  <2> QED BY <2>1 DEF Clear, ClearRxLook, ClearRx, ClearTxLook, ClearTx, FreeSlot, InTx
<1>4. UNCHANGED <<pci, up>>
  BY DEF Clear, ClearRxLook, ClearRx, ClearTxLook, ClearTx
<1>5. Contexts'
  BY <1>a, <1>b, <1>c, <1>1, <1>3, <1>4, ClearContexts
<1> QED BY <1>2, <1>5 DEF DrvBase

(* The steps of the interrupt handler and of the watchdog change little. *)
LEMMA IsrKeeps ==
  ASSUME DrvBase, isr' \in IsrRec, hw' \in HwRec, rxp' \in Int, canWr' \subseteq Ifaces,
         snd' \in [Callers -> Steps], \A q \in Callers \ {"isr"} : snd'[q] = snd[q],
         snd'["isr"] # "off" => isr'.pc \in {"run", "queued"},
         isr'.pc = "idle" => isr'.status = {}, up # {},
         UNCHANGED <<pci, ring, wr, rd, free, credit, txp, up, stopped, opens, wd, misjudged>>
  PROVE  DrvBase'
<1>a. DrvTypeOK /\ Contexts
  BY DEF DrvBase
<1>b. snd'["tx"] = snd["tx"] /\ snd'["wd"] = snd["wd"]
  BY DEF Callers
<1>1. DrvTypeOK'
  BY <1>a DEF DrvTypeOK, IsrRec, HwRec, Steps
<1>2. Contexts'
  BY <1>a, <1>b DEF Contexts, InTx, TxPort
<1> QED BY <1>1, <1>2 DEF DrvBase

LEMMA IsrEnterBase == ASSUME DrvBase, IsrEnter PROVE DrvBase'
<1>a. /\ isr \in IsrRec /\ hw \in HwRec /\ rxp \in Int /\ canWr \subseteq Ifaces
      /\ snd \in [Callers -> Steps] /\ Contexts /\ isr.pc = "idle" /\ up # {}
      /\ isr' = [pc |-> "run", mask |-> hw.mask, status |-> hw.flags \ (hw.mask \ {"avail"})]
      /\ hw' = [hw EXCEPT !.flags = {}, !.mask = Bits]
      /\ UNCHANGED <<pci, ring, wr, rd, free, credit, txp, rxp, canWr, up, stopped,
                     opens, snd, wd, misjudged>>
  BY DrvTypes DEF DrvBase, IsrEnter
<1>1. isr' \in IsrRec /\ isr'.pc = "run"
  BY <1>a DEF IsrRec, HwRec, IsrPcs
<1>2. hw' \in HwRec
  BY <1>a DEF HwRec
<1> QED BY <1>a, <1>1, <1>2, IsrKeeps

(* What holds when the handler is at a flag. *)
LEMMA AtFacts ==
  ASSUME DrvBase, NEW b \in Bits, At(b)
  PROVE  /\ isr.pc = "run" /\ snd["isr"] = "off" /\ b \in isr.status /\ up # {}
         /\ isr \in IsrRec /\ hw \in HwRec /\ rxp \in Int /\ canWr \subseteq Ifaces
         /\ snd \in [Callers -> Steps] /\ "isr" \in Callers
BY DrvTypes DEF DrvBase, At, Contexts, Callers

LEMMA IsrQueueBase == ASSUME DrvBase, IsrQueue PROVE DrvBase'
<1>a. /\ isr \in IsrRec /\ hw \in HwRec /\ rxp \in Int /\ up # {}
      /\ snd \in [Callers -> Steps] /\ snd["isr"] = "off" /\ "isr" \in Callers
  BY AtFacts DEF IsrQueue, Bits
<1>b. /\ canWr' = hw.room /\ rxp' = rxp + 1
      /\ snd' = (IF rxp + 1 = 1 THEN SendIfAny("isr", free) ELSE snd)
      /\ isr' = [isr EXCEPT !.pc = "queued", !.status = isr.status \ {"queue"}]
      /\ UNCHANGED <<pci, ring, wr, rd, free, credit, txp, up, stopped, opens,
                     wd, hw, misjudged>>
  BY DEF IsrQueue
<1>1. isr' \in IsrRec /\ isr'.pc = "queued"
  BY <1>a, <1>b DEF IsrRec, IsrPcs
<1>2. snd' \in [Callers -> Steps] /\ \A q \in Callers \ {"isr"} : snd'[q] = snd[q]
  BY <1>a, <1>b, SendIfAnyFacts
<1>3. canWr' \subseteq Ifaces /\ rxp' \in Int /\ hw' \in HwRec
  BY <1>a, <1>b DEF HwRec
<1> QED BY <1>a, <1>b, <1>1, <1>2, <1>3, IsrKeeps

LEMMA IsrQueueEndBase == ASSUME DrvBase, IsrQueueEnd PROVE DrvBase'
<1>a. /\ isr \in IsrRec /\ hw \in HwRec /\ rxp \in Int /\ canWr \subseteq Ifaces
      /\ snd \in [Callers -> Steps] /\ up # {} /\ snd["isr"] = "off"
      /\ rxp' = rxp - 1 /\ isr' = [isr EXCEPT !.pc = "run"]
      /\ UNCHANGED <<pci, ring, wr, rd, free, credit, txp, canWr, up, stopped,
                     opens, snd, wd, hw, misjudged>>
  BY DrvTypes DEF DrvBase, IsrQueueEnd, Contexts
<1>1. isr' \in IsrRec /\ isr'.pc = "run"
  BY <1>a DEF IsrRec, IsrPcs
<1> QED BY <1>a, <1>1, IsrKeeps

LEMMA IsrRxBase == ASSUME DrvBase, IsrRx PROVE DrvBase'
<1>a. /\ isr \in IsrRec /\ hw \in HwRec /\ rxp \in Int /\ canWr \subseteq Ifaces /\ up # {}
      /\ snd \in [Callers -> Steps] /\ snd["isr"] = "off" /\ isr.pc = "run"
  BY AtFacts DEF IsrRx, Bits
<1>b. /\ rxp' = rxp - 1
      /\ isr' = [isr EXCEPT !.status = isr.status \ {"rx"}, !.mask = isr.mask \ {"avail"}]
      /\ UNCHANGED <<pci, ring, wr, rd, free, credit, txp, canWr, up, stopped,
                     opens, snd, wd, hw, misjudged>>
  BY DEF IsrRx
<1>1. isr' \in IsrRec /\ isr'.pc = "run"
  BY <1>a, <1>b DEF IsrRec
<1> QED BY <1>a, <1>b, <1>1, IsrKeeps

LEMMA IsrTxBase == ASSUME DrvBase, IsrTx PROVE DrvBase'
<1>a. /\ isr \in IsrRec /\ hw \in HwRec /\ rxp \in Int /\ canWr \subseteq Ifaces /\ up # {}
      /\ snd \in [Callers -> Steps] /\ snd["isr"] = "off" /\ isr.pc = "run"
  BY AtFacts DEF IsrTx, Bits
<1>b. /\ isr' = [isr EXCEPT !.status = isr.status \ {"tx"},
                            !.pc = IF txp # 0 THEN "free" ELSE isr.pc]
      /\ UNCHANGED <<pci, ring, wr, rd, free, credit, txp, rxp, canWr, up, stopped,
                     opens, snd, wd, hw, misjudged>>
  BY DEF IsrTx
<1>1. isr' \in IsrRec /\ isr'.pc \in {"free", "run"}
  BY <1>a, <1>b DEF IsrRec, IsrPcs
<1> QED BY <1>a, <1>b, <1>1, IsrKeeps

LEMMA IsrAvailBase == ASSUME DrvBase, IsrAvail PROVE DrvBase'
<1>a. /\ isr \in IsrRec /\ hw \in HwRec /\ rxp \in Int /\ canWr \subseteq Ifaces /\ up # {}
      /\ snd \in [Callers -> Steps] /\ snd["isr"] = "off" /\ isr.pc = "run"
  BY AtFacts DEF IsrAvail, Bits
<1>b. /\ isr' = [isr EXCEPT !.status = isr.status \ {"avail"}, !.mask = isr.mask \cup {"avail"}]
      /\ UNCHANGED <<pci, ring, wr, rd, free, credit, txp, canWr, up, stopped,
                     opens, snd, wd, misjudged>>
      /\ rxp' = rxp \/ rxp' = rxp + 1
      /\ hw' = hw \/ hw' = [hw EXCEPT !.rdOwner = TRUE]
  BY DEF IsrAvail
<1>1. isr' \in IsrRec /\ isr'.pc = "run"
  BY <1>a, <1>b DEF IsrRec, Bits
<1>2. rxp' \in Int
  BY <1>a, <1>b
<1>3. hw' \in HwRec
  <2>1. [hw EXCEPT !.rdOwner = TRUE] \in HwRec
    BY <1>a DEF HwRec
  <2> QED BY <1>a, <1>b, <2>1
<1> QED BY <1>a, <1>b, <1>1, <1>2, <1>3, IsrKeeps

LEMMA IsrErrBase == ASSUME DrvBase, IsrErr PROVE DrvBase'
<1>a. /\ isr \in IsrRec /\ hw \in HwRec /\ rxp \in Int /\ canWr \subseteq Ifaces /\ up # {}
      /\ snd \in [Callers -> Steps] /\ snd["isr"] = "off" /\ isr.pc = "run"
  BY AtFacts DEF IsrErr, Bits
<1>b. /\ isr' = [isr EXCEPT !.status = isr.status \ {"err"}, !.pc = "clear"]
      /\ UNCHANGED <<pci, ring, wr, rd, free, credit, txp, rxp, canWr, up, stopped,
                     opens, snd, wd, misjudged>>
      /\ hw' = ResetCpci(hw)
  BY DEF IsrErr
<1>1. isr' \in IsrRec /\ isr'.pc = "clear"
  BY <1>a, <1>b DEF IsrRec, IsrPcs
<1>2. hw' \in HwRec
  BY <1>a, <1>b, ResetCpciFacts DEF Blank
<1> QED BY <1>a, <1>b, <1>1, <1>2, IsrKeeps

LEMMA IsrExitBase == ASSUME DrvBase, IsrExit PROVE DrvBase'
<1>a. /\ isr \in IsrRec /\ hw \in HwRec /\ rxp \in Int /\ canWr \subseteq Ifaces
      /\ snd \in [Callers -> Steps] /\ up # {} /\ snd["isr"] = "off"
      /\ hw' = [hw EXCEPT !.mask = isr.mask]
      /\ isr' = [pc |-> "idle", mask |-> {}, status |-> {}]
      /\ UNCHANGED <<pci, ring, wr, rd, free, credit, txp, rxp, canWr, up, stopped,
                     opens, snd, wd, misjudged>>
  BY DrvTypes DEF DrvBase, IsrExit, Contexts
<1>1. isr' \in IsrRec /\ isr'.status = {}
  BY <1>a DEF IsrRec, IsrPcs
<1>2. hw' \in HwRec
  BY <1>a DEF HwRec, IsrRec
<1> QED BY <1>a, <1>1, <1>2, IsrKeeps

LEMMA IsrBase == ASSUME DrvBase, Isr PROVE DrvBase'
<1>1. "isr" \in Callers /\ "isr" \in {"isr", "wd"}
  BY DEF Callers
<1> QED BY <1>1, IsrEnterBase, IsrQueueBase, IsrQueueEndBase, IsrRxBase, IsrTxBase, IsrAvailBase,
           IsrErrBase, IsrExitBase, ClearBase, SendBase DEF Isr

LEMMA WdStartBase == ASSUME DrvBase, NEW i \in Ifaces, WdStart(i) PROVE DrvBase'
<1>a. /\ wd' = [pc |-> "reset", iface |-> i, mask |-> hw.mask] /\ i \in up /\ wd.pc = "idle"
      /\ UNCHANGED <<pci, ring, wr, rd, free, credit, txp, rxp, canWr, up, stopped,
                     opens, snd, isr, hw, misjudged>>
      /\ DrvTypeOK /\ Contexts /\ hw \in HwRec
  BY DrvTypes DEF DrvBase, WdStart
<1>1. wd' \in WdRec /\ wd'.iface \in up /\ wd'.pc = "reset"
  BY <1>a DEF WdRec, WdPcs, HwRec
<1>2. DrvTypeOK'
  BY <1>a, <1>1 DEF DrvTypeOK, WdRec
<1>3. Contexts'
  BY <1>a, <1>1 DEF Contexts, InTx, TxPort
<1> QED BY <1>2, <1>3 DEF DrvBase

LEMMA WdResetBase == ASSUME DrvBase, WdReset PROVE DrvBase'
<1>a. /\ wd' = [wd EXCEPT !.pc = "clear", !.mask = {}] /\ wd.pc = "reset"
      /\ hw' = [HwReset(hw) EXCEPT !.mask = wd.mask]
      /\ UNCHANGED <<pci, ring, wr, rd, free, credit, txp, rxp, canWr, up, stopped,
                     opens, snd, isr>>
      /\ DrvTypeOK /\ Contexts /\ wd \in WdRec
  BY DrvTypes DEF DrvBase, WdReset
<1>b. misjudged' \in BOOLEAN
  BY DEF WdReset
<1>1. wd' \in WdRec /\ wd'.iface = wd.iface /\ wd'.pc = "clear"
  BY <1>a DEF WdRec, WdPcs
<1>2. hw' \in HwRec
  <2>1. wd.mask \in SUBSET Bits
    BY <1>a DEF WdRec
  <2> QED BY <1>a, <2>1, ResetFacts DEF Blank
<1>3. DrvTypeOK'
  BY <1>a, <1>b, <1>1, <1>2 DEF DrvTypeOK, WdRec, HwRec
<1>4. Contexts'
  BY <1>a, <1>1 DEF Contexts, InTx, TxPort
<1> QED BY <1>3, <1>4 DEF DrvBase

LEMMA WdEndBase == ASSUME DrvBase, WdEnd PROVE DrvBase'
<1>a. /\ wd' = [pc |-> "idle", iface |-> Nothing, mask |-> {}] /\ snd["wd"] = "off"
      /\ stopped' = stopped \ {wd.iface}
      /\ UNCHANGED <<pci, ring, wr, rd, free, credit, txp, rxp, canWr, up,
                     opens, snd, isr, hw, misjudged>>
      /\ DrvTypeOK /\ Contexts
  BY DEF DrvBase, WdEnd
<1>1. wd' \in WdRec /\ wd'.pc = "idle"
  BY <1>a DEF WdRec, WdPcs
<1>2. DrvTypeOK'
  BY <1>a, <1>1 DEF DrvTypeOK, WdRec
<1>3. Contexts'
  BY <1>a, <1>1 DEF Contexts, InTx, TxPort
<1> QED BY <1>2, <1>3 DEF DrvBase

LEMMA WdBase == ASSUME DrvBase, Wd PROVE DrvBase'
<1>1. "wd" \in Callers /\ "wd" \in {"isr", "wd"}
  BY DEF Callers
<1> QED BY <1>1, WdResetBase, WdEndBase, ClearBase, SendBase DEF Wd

LEMMA NextBase == ASSUME DrvBase, [DrvNext]_drvVars PROVE DrvBase'
<1>1. CASE UNCHANGED drvVars
  BY <1>1 DEF drvVars, DrvBase, DrvTypeOK, Contexts, InTx, TxPort
<1>2. "tx" \in Callers
  BY DEF Callers
<1>3. CASE DrvNext
  BY <1>2, <1>3, HardwareBase, ControlBase, IsrBase, WdBase, SendBase, NfTxBase, WdStartBase
     DEF DrvNext
<1> QED BY <1>1, <1>3

-----------------------------------------------------------------------------
(* The account of the transfers. *)
Sum == Claims("tx") + Claims("isr") + Claims("wd")

LEMMA SumFacts ==
  /\ \A p \in Callers : Claims(p) \in {0, 1}
  /\ Sum \in 0 .. 3
  /\ \A p \in Callers : Claims(p) <= Sum
  /\ Sum = 0 => \A p \in Callers : snd[p] \notin {"look", "back"}
  /\ Flight = txp - Sum
<1>1. \A p : Claims(p) \in {0, 1}
  BY DEF Claims
<1>2. \A p \in Callers : Claims(p) <= Sum
  BY <1>1 DEF Sum, Callers
<1>3. Sum \in 0 .. 3
  BY <1>1 DEF Sum
<1>4. Sum = 0 => \A p \in Callers : Claims(p) = 0
  BY <1>1, <1>2
<1>5. \A p : Claims(p) = 0 => snd[p] \notin {"look", "back"}
  BY DEF Claims
<1>6. Flight = txp - Sum
  BY DEF Flight, Sum
<1> QED BY <1>1, <1>2, <1>3, <1>4, <1>5, <1>6

(* A step of caller p changes the account by what p itself claims. *)
LEMMA SumStep ==
  ASSUME snd \in [Callers -> Steps], NEW p \in Callers, NEW x,
         snd' = [snd EXCEPT ![p] = x]
  PROVE  /\ Sum' = Sum - Claims(p) + (IF x \in {"look", "back"} THEN 1 ELSE 0)
         /\ \A q \in Callers : snd'[q] = IF q = p THEN x ELSE snd[q]
         /\ Flight' = txp' - Sum'
<1>1. \A q \in Callers : snd'[q] = IF q = p THEN x ELSE snd[q]
  OBVIOUS
<1> DEFINE c == IF x \in {"look", "back"} THEN 1 ELSE 0
<1>2. \A q \in Callers : Claims(q)' = IF q = p THEN c ELSE Claims(q)
  BY <1>1 DEF Claims
<1>3. c \in {0, 1} /\ \A q : Claims(q) \in {0, 1}
  BY DEF Claims
<1> HIDE DEF c
<1>4. Sum' = Claims("tx")' + Claims("isr")' + Claims("wd")'
  BY DEF Sum
<1>5. /\ Claims("tx")' = (IF "tx" = p THEN c ELSE Claims("tx"))
      /\ Claims("isr")' = (IF "isr" = p THEN c ELSE Claims("isr"))
      /\ Claims("wd")' = (IF "wd" = p THEN c ELSE Claims("wd"))
  BY <1>2 DEF Callers
<1>6. Sum' = Sum - Claims(p) + c
  <2>1. CASE p = "tx"
    BY <2>1, <1>3, <1>4, <1>5 DEF Sum
  <2>2. CASE p = "isr"
    BY <2>2, <1>3, <1>4, <1>5 DEF Sum
  <2>3. CASE p = "wd"
    BY <2>3, <1>3, <1>4, <1>5 DEF Sum
  <2> QED BY <2>1, <2>2, <2>3 DEF Callers
<1>7. Flight' = txp' - Sum'
  BY DEF Flight, Sum
<1> QED BY <1>1, <1>6, <1>7 DEF c

(* Entering nf2c_send, or not, claims nothing yet. *)
LEMMA EnterSend ==
  ASSUME snd \in [Callers -> Steps],
         NEW p \in Callers, NEW n, snd[p] = "off", snd' = SendIfAny(p, n) \/ snd' = snd
  PROVE  /\ snd' \in [Callers -> Steps]
         /\ snd'[p] \in {"off", "claim"} /\ \A q \in Callers \ {p} : snd'[q] = snd[q]
         /\ Sum' = Sum /\ Flight' = txp' - Sum'
         /\ \A q \in Callers : snd'[q] = "look" => snd[q] = "look"
<1>1. CASE snd' = snd
  BY <1>1 DEF Sum, Claims, Flight
<1>2. CASE snd' = SendIfAny(p, n)
  <2> DEFINE x == IF n # Pool THEN "claim" ELSE "off"
  <2>1. x \in {"off", "claim"} /\ x \notin {"look", "back"}
    OBVIOUS
  <2>2. snd' = [snd EXCEPT ![p] = x]
    BY <1>2 DEF SendIfAny
  <2> HIDE DEF x
  <2>3. /\ Sum' = Sum - Claims(p) + (IF x \in {"look", "back"} THEN 1 ELSE 0)
        /\ \A q \in Callers : snd'[q] = IF q = p THEN x ELSE snd[q]
        /\ Flight' = txp' - Sum'
    BY <2>2, SumStep
  <2>4. Claims(p) = 0 /\ Sum \in 0 .. 3
    BY SumFacts DEF Claims
  <2>5. Sum' = Sum
    BY <2>1, <2>3, <2>4
  <2> QED BY <2>1, <2>2, <2>3, <2>5 DEF Steps
<1> QED BY <1>1, <1>2

LEMMA LookersKept ==
  ASSUME Lookers, Flight' = Flight \/ (\A q \in Callers : snd[q] # "look"),
         \A q \in Callers : snd'[q] = "look" => snd[q] = "look"
  PROVE  Lookers'
BY DEF Lookers

(* A step that does not concern the transmissions, or the receptions. *)
ErrKept == "err" \in hw.flags \cup isr.status => "err" \in hw'.flags \cup isr'.status
TxKept ==
  /\ Flight' = Flight /\ hw'.wrOwner = hw.wrOwner /\ rd' = rd
  /\ "tx" \in hw'.flags <=> "tx" \in hw.flags
  /\ "tx" \in isr'.status <=> "tx" \in isr.status
  /\ isr'.pc = "free" <=> isr.pc = "free"
  /\ wd'.pc = "free" <=> wd.pc = "free"
  /\ Clearing => Clearing'
  /\ free # Pool => free' # Pool
RxKept ==
  /\ Receipt' = Receipt /\ hw'.rdOwner = hw.rdOwner
  /\ "rx" \in hw'.flags <=> "rx" \in hw.flags
  /\ "rx" \in isr'.status <=> "rx" \in isr.status
  /\ isr'.pc = "clearRx" <=> isr.pc = "clearRx"
  /\ wd'.pc = "clearRx" <=> wd.pc = "clearRx"
  /\ Resetting => Resetting'

LEMMA WritesKept == ASSUME Writes, TxKept, ErrKept PROVE Writes'
<1>1. Cleaning' <=> Cleaning
  BY DEF TxKept, Cleaning
<1> QED BY <1>1 DEF Writes, TxKept, ErrKept

LEMMA ReadsKept == ASSUME Reads, RxKept, ErrKept PROVE Reads'
<1>1. Taking' <=> Taking
  BY DEF RxKept, Taking
<1> QED BY <1>1 DEF Reads, RxKept, ErrKept

LEMMA SameAccount ==
  ASSUME UNCHANGED <<txp, snd>>
  PROVE  Flight' = Flight
BY DEF Flight, Claims

LEMMA SamePcs ==
  ASSUME isr'.pc = isr.pc, wd'.pc = wd.pc
  PROVE  Clearing' = Clearing /\ Cleaning' = Cleaning /\ Resetting' = Resetting /\ Taking' = Taking
BY DEF Clearing, Cleaning, Resetting, Taking

LEMMA SameReceipt ==
  ASSUME rxp' = rxp, isr'.pc = "queued" <=> isr.pc = "queued"
  PROVE  Receipt' = Receipt
BY DEF Receipt

(* The state in which nothing is under way, before and after a step. *)
Rest ==
  /\ isr.pc = "idle" /\ wd.pc = "idle" /\ isr.status = {}
  /\ snd["tx"] = "off" /\ snd["isr"] = "off" /\ snd["wd"] = "off"
  /\ txp = 0 /\ rxp = 0 /\ free = Pool /\ Blank(hw)
  /\ (hw.mask = Bits \/ Unmasked(hw.mask)) /\ (wd.mask = Bits \/ Unmasked(wd.mask))

RestUp == Rest /\ (up # {} => Unmasked(hw.mask))

LEMMA RestIsCore == RestUp /\ Ring => Core
<1> SUFFICES ASSUME RestUp, Ring PROVE Core
  OBVIOUS
<1>a. /\ isr.pc = "idle" /\ wd.pc = "idle" /\ isr.status = {}
      /\ snd["tx"] = "off" /\ snd["isr"] = "off" /\ snd["wd"] = "off"
      /\ txp = 0 /\ rxp = 0 /\ free = Pool
      /\ hw.wrOwner = Nothing /\ hw.rdOwner = FALSE
      /\ "tx" \notin hw.flags /\ "rx" \notin hw.flags /\ "err" \notin hw.flags
      /\ (hw.mask = Bits \/ Unmasked(hw.mask)) /\ (wd.mask = Bits \/ Unmasked(wd.mask))
      /\ (up # {} => Unmasked(hw.mask))
  BY DEF Rest, RestUp, Blank
<1>1. Flight = 0 /\ Receipt = 0 /\ ~Cleaning /\ ~Taking
  <2>1. Claims("tx") = 0 /\ Claims("isr") = 0 /\ Claims("wd") = 0
    BY <1>a DEF Claims
  <2>2. Flight = 0 /\ Receipt = 0
    BY <1>a, <2>1 DEF Flight, Receipt
  <2> QED BY <1>a, <2>2 DEF Cleaning, Taking
<1>2. DrvQuiet /\ Masks
  BY <1>a DEF DrvQuiet, Masks
<1>3. Writes
  BY <1>a, <1>1 DEF Writes
<1>4. Reads
  BY <1>a, <1>1 DEF Reads
<1>5. Lookers
  BY <1>a DEF Lookers, Callers
<1> QED BY <1>2, <1>3, <1>4, <1>5 DEF Core

LEMMA AtRest == RestUp' /\ Ring' => Core'
BY RestIsCore, PTL

LEMMA DownRests ==
  ASSUME DrvBase, Core, up = {}
  PROVE  Rest
<1>1. /\ isr.pc = "idle" /\ wd.pc = "idle" /\ isr.status = {}
      /\ snd["tx"] = "off" /\ snd["isr"] = "off" /\ snd["wd"] = "off"
  BY DownIdle DEF DrvBase
<1>2. /\ txp = 0 /\ rxp = 0 /\ free = Pool
      /\ hw.wrOwner = Nothing /\ ~hw.rdOwner
      /\ "tx" \notin hw.flags /\ "rx" \notin hw.flags /\ "err" \notin hw.flags
  BY DEF Core, DrvQuiet
<1>3. hw \in HwRec
  BY DrvTypes DEF DrvBase
<1>4. hw.rdOwner \in BOOLEAN
  BY <1>3 DEF HwRec
<1>5. hw.rdOwner = FALSE
  BY <1>2, <1>4
<1>6. Blank(hw)
  BY <1>2, <1>3, <1>5 DEF Blank
<1>7. (hw.mask = Bits \/ Unmasked(hw.mask)) /\ (wd.mask = Bits \/ Unmasked(wd.mask))
  BY DEF Core, Masks
<1> QED BY <1>1, <1>2, <1>6, <1>7 DEF Rest

LEMMA RestKept ==
  ASSUME Rest, UNCHANGED <<isr, wd, snd>>, txp' = 0, rxp' = 0, free' = Pool, Blank(hw'),
         hw'.mask = Bits \/ Unmasked(hw'.mask)
  PROVE  Rest'
BY DEF Rest, Blank

LEMMA InitCore == DrvInit => Core
<1> SUFFICES ASSUME DrvInit PROVE Core
  OBVIOUS
<1>1. Blank(hw) /\ hw.mask = Bits
  BY ResetFacts, Bits \in SUBSET Bits DEF DrvInit
<1>2. snd["tx"] = "off" /\ snd["isr"] = "off" /\ snd["wd"] = "off"
  BY DEF DrvInit, Callers
<1>3. Rest
  BY <1>1, <1>2 DEF DrvInit, Rest, Unmasked
<1>4. Ring
  <2> USE Nf2DriverAssumption
  <2>a. wr = 0 /\ rd = 0 /\ free = Pool /\ credit = [i \in Ifaces |-> Share]
    BY DEF DrvInit
  <2>1. Window(0, Pool) = {}
    BY DEF Window
  <2>2. \A i \in Ifaces : QueuedOf(i) = 0
    <3>1. \A i : OfPort(Window(0, Pool), ring, i) = {}
      BY <2>1 DEF OfPort
    <3> QED BY <2>a, <3>1, QueuedIsWindow, FS_EmptySet
  <2>3. (0 + Pool - Pool) % Pool = 0
    <3>1. 0 + Pool - Pool = 0 + 0 /\ 0 \in Slots
      BY DEF Slots
    <3> QED BY <3>1, ModSlot
  <2>4. \A i \in Ifaces : credit[i] = Share
    BY <2>a
  <2> QED BY <2>a, <2>2, <2>3, <2>4, ShareType DEF Ring
<1>5. up = {}
  BY DEF DrvInit
<1> QED BY <1>3, <1>4, <1>5, RestIsCore DEF RestUp

LEMMA ProbeCore == ASSUME DrvBase, Core, Probe PROVE Core'
<1>a. /\ ~pci.bound /\ wr' = 0 /\ rd' = 0 /\ free' = Pool
      /\ credit' = [i \in Ifaces |-> Share] /\ txp' = 0 /\ rxp' = 0
      /\ UNCHANGED <<up, snd, isr, wd, hw>>
  BY DEF Probe
<1>1. up = {}
  BY <1>a DEF DrvBase, Contexts
<1>2. Rest
  BY <1>1, DownRests
<1>3. Rest'
  BY <1>a, <1>2, RestKept DEF Rest
<1>4. Ring'
  BY <1>a, FreshRing
<1> QED BY <1>a, <1>1, <1>3, <1>4, AtRest DEF RestUp

LEMMA ProbeFailsCore == ASSUME DrvBase, Core, NEW f \in Failures, ProbeFails(f) PROVE Core'
<1>a. /\ ~pci.bound
      /\ UNCHANGED <<ring, wr, rd, free, credit, txp, rxp, up, snd, isr, wd, hw>>
  BY DEF ProbeFails
<1>1. up = {}
  BY <1>a DEF DrvBase, Contexts
<1>2. Rest
  BY <1>1, DownRests
<1>3. Rest'
  BY <1>a, <1>2, RestKept DEF Rest
<1>4. Ring'
  BY <1>a, SameRing DEF Core
<1> QED BY <1>a, <1>1, <1>3, <1>4, AtRest DEF RestUp

LEMMA RemoveCore == ASSUME DrvBase, Core, Remove PROVE Core'
<1>a. /\ up = {} /\ rd' = (rd + Pool - free) % Pool /\ free' = Pool
      /\ UNCHANGED <<wr, credit, txp, rxp, up, snd, isr, wd, hw>>
  BY DEF Remove
<1>1. Rest
  BY <1>a, DownRests
<1>2. Rest'
  BY <1>a, <1>1, RestKept DEF Rest
<1>3. Ring'
  BY <1>a, RingDrop DEF Core, DrvBase
<1> QED BY <1>a, <1>2, <1>3, AtRest DEF RestUp

(* The first port finds the card at rest, another one changes nothing. *)
LEMMA OpenCore == ASSUME DrvBase, Core, NEW i \in Ifaces, Open(i) PROVE Core'
<1>a. /\ hw' = (IF up = {} THEN [HwReset(hw) EXCEPT !.mask = {}] ELSE hw)
      /\ up' = up \cup {i}
      /\ UNCHANGED <<ring, wr, rd, free, credit, txp, rxp, snd, isr, wd>>
  BY DEF Open
<1>1. Ring'
  BY <1>a, SameRing DEF Core
<1>2. CASE up = {}
  <2>1. Rest
    BY <1>2, DownRests
  <2>2. Blank(hw') /\ hw'.mask = {}
    BY <1>a, <1>2, ResetFacts
  <2>3. Unmasked(hw'.mask)
    BY <2>2 DEF Unmasked
  <2>4. Rest'
    BY <1>a, <2>1, <2>2, <2>3, RestKept DEF Rest
  <2> QED BY <1>1, <2>3, <2>4, AtRest DEF RestUp
<1>3. CASE up # {}
  <2>1. hw' = hw /\ up' # {}
    BY <1>a, <1>3
  <2>2. Flight' = Flight /\ Receipt' = Receipt
    BY <1>a, SameAccount, SameReceipt
  <2>3. Clearing' = Clearing /\ Resetting' = Resetting
    BY <1>a, SamePcs
  <2>4. TxKept /\ RxKept /\ ErrKept
    BY <1>a, <2>1, <2>2, <2>3 DEF TxKept, RxKept, ErrKept
  <2>5. Writes' /\ Reads'
    BY <2>4, WritesKept, ReadsKept DEF Core
  <2>6. Lookers'
    BY <1>a, <2>2, LookersKept DEF Core
  <2>7. DrvQuiet' /\ Masks'
    BY <1>a, <1>3, <2>1 DEF DrvQuiet, Masks, Core
  <2> QED BY <1>1, <2>5, <2>6, <2>7 DEF Core
<1> QED BY <1>2, <1>3

LEMMA OpenFailsCore == ASSUME DrvBase, Core, NEW i \in Ifaces, OpenFails(i) PROVE Core'
<1>a. /\ up = {} /\ hw' = HwReset(hw)
      /\ UNCHANGED <<ring, wr, rd, free, credit, txp, rxp, up, snd, isr, wd>>
  BY DEF OpenFails
<1>1. Rest
  BY <1>a, DownRests
<1>2. Blank(hw') /\ hw'.mask = Bits
  BY <1>a, ResetFacts, Bits \in SUBSET Bits
<1>3. Rest'
  BY <1>a, <1>1, <1>2, RestKept DEF Rest
<1>4. Ring'
  BY <1>a, SameRing DEF Core
<1> QED BY <1>a, <1>3, <1>4, AtRest DEF RestUp

(* Closing the last port resets the card, empties the ring and clears the  *)
(* transfers; closing another one leaves all that runs alone.              *)
LEMMA ReleaseCore == ASSUME DrvBase, Core, NEW i \in Ifaces, Release(i) PROVE Core'
<1>a. /\ i \in up /\ TxPort # i /\ wd.iface # i /\ up' = up \ {i}
      /\ UNCHANGED <<wr, credit, snd, isr, wd>> /\ Contexts /\ DrvTypeOK
  BY DEF Release, DrvBase
<1>1. CASE up' = {}
  <2>a. /\ isr.pc = "idle" /\ hw' = HwReset(hw)
        /\ rd' = (rd + Pool - free) % Pool /\ free' = Pool /\ txp' = 0 /\ rxp' = 0
    BY <1>1 DEF Release
  <2>1. /\ wd.pc = "idle" /\ isr.status = {}
        /\ snd["tx"] = "off" /\ snd["wd"] = "off" /\ snd["isr"] = "off"
    BY <1>1, <1>a, <2>a DEF Contexts, InTx
  <2>2. Blank(hw') /\ hw'.mask = Bits
    BY <2>a, ResetFacts, Bits \in SUBSET Bits
  <2>3. Rest'
    BY <1>a, <2>a, <2>1, <2>2 DEF Rest, Core, Masks
  <2>4. Ring'
    BY <1>a, <2>a, RingDrop DEF Core
  <2> QED BY <1>1, <2>3, <2>4, AtRest DEF RestUp
<1>2. CASE up' # {}
  <2>1. UNCHANGED <<hw, ring, rd, free, txp, rxp>>
    BY <1>2 DEF Release
  <2>2. Flight' = Flight /\ Receipt' = Receipt
    BY <1>a, <2>1, SameAccount, SameReceipt
  <2>3. Clearing' = Clearing /\ Resetting' = Resetting
    BY <1>a, SamePcs
  <2>4. TxKept /\ RxKept /\ ErrKept
    BY <1>a, <2>1, <2>2, <2>3 DEF TxKept, RxKept, ErrKept
  <2>5. Writes' /\ Reads'
    BY <2>4, WritesKept, ReadsKept DEF Core
  <2>6. Lookers'
    BY <1>a, <2>2, LookersKept DEF Core
  <2>7. DrvQuiet' /\ Masks'
    BY <1>a, <1>2, <2>1 DEF DrvQuiet, Masks, Core
  <2>8. Ring'
    BY <1>a, <2>1, SameRing DEF Core
  <2> QED BY <2>5, <2>6, <2>7, <2>8 DEF Core
<1> QED BY <1>1, <1>2

LEMMA ControlCore == ASSUME DrvBase, Core, Control PROVE Core'
BY ProbeCore, ProbeFailsCore, RemoveCore, OpenCore, OpenFailsCore, ReleaseCore DEF Control

(* The card: an end of a transfer is flagged. *)
LEMMA HardwareCore == ASSUME DrvBase, Core, Hardware PROVE Core'
<1>a. DrvTypeOK /\ Contexts /\ DrvQuiet /\ Masks /\ Writes /\ Lookers /\ Reads /\ Ring
  BY DEF DrvBase, Core
<1>b. UNCHANGED Elsewhere /\ hw' \in HwRec /\ hw'.mask = hw.mask
  BY <1>a, HwRoomShape, HwArriveShape, HwReadShape, HwWriteShape DEF Hardware, HwAdds
<1>c. /\ UNCHANGED <<ring, wr, rd, free, credit, txp, rxp, up, snd, isr, wd>>
      /\ isr'.pc = isr.pc /\ wd'.pc = wd.pc /\ isr'.status = isr.status
  BY <1>b DEF Elsewhere
<1>d. /\ Flight' = Flight /\ Receipt' = Receipt
      /\ Clearing' = Clearing /\ Resetting' = Resetting /\ Cleaning' = Cleaning /\ Taking' = Taking
  BY <1>c, SameAccount, SameReceipt, SamePcs
<1>1. Ring'
  BY <1>a, <1>c, SameRing
<1>2. Lookers'
  BY <1>a, <1>c, <1>d, LookersKept
<1>3. Masks'
  BY <1>a, <1>b, <1>c DEF Masks
<1>4. DrvQuiet' /\ Writes' /\ Reads'
  <2>1. ASSUME NEW F, HwAdds(hw.wrOwner, hw.rdOwner, F),
               "tx" \notin F, "rx" \notin F, "err" \notin F
        PROVE  DrvQuiet' /\ Writes' /\ Reads'
    <3>1. TxKept /\ RxKept /\ ErrKept
      BY <1>c, <1>d, <2>1 DEF TxKept, RxKept, ErrKept, HwAdds
    <3>2. DrvQuiet'
      BY <1>a, <1>c, <2>1 DEF DrvQuiet, HwAdds
    <3> QED BY <1>a, <3>1, <3>2, WritesKept, ReadsKept
  <2>2. CASE HwArrive
    BY <1>a, <2>1, <2>2, HwArriveShape
  <2>3. ASSUME NEW i \in Ifaces, HwRoom(i) PROVE DrvQuiet' /\ Writes' /\ Reads'
    BY <1>a, <2>1, <2>3, HwRoomShape
  <2>4. CASE HwRead
    <3>1. PICK F : /\ HwAdds(hw.wrOwner, FALSE, F)
                   /\ "tx" \notin F /\ ("rx" \in F \/ "err" \in F)
      BY <1>a, <2>4, HwReadShape
    <3>2. hw.rdOwner
      BY <1>a, <2>4, HwReadShape
    <3>3. up # {}
      BY <1>a, <3>2 DEF DrvQuiet
    <3>4. TxKept /\ ErrKept
      BY <1>c, <1>d, <3>1 DEF TxKept, ErrKept, HwAdds
    <3>5. Reads'
      BY <1>a, <1>c, <1>d, <3>1, <3>2 DEF Reads, HwAdds
    <3> QED BY <1>a, <1>c, <3>3, <3>4, <3>5, WritesKept DEF DrvQuiet
  <2>5. CASE HwWrite
    <3>1. PICK F : /\ HwAdds(Nothing, hw.rdOwner, F)
                   /\ "rx" \notin F /\ ("tx" \in F \/ "err" \in F)
      BY <1>a, <2>5, HwWriteShape
    <3>2. hw.wrOwner # Nothing
      BY <1>a, <2>5, HwWriteShape
    <3>3. up # {}
      BY <1>a, <3>2 DEF DrvQuiet
    <3>4. RxKept /\ ErrKept
      BY <1>c, <1>d, <3>1 DEF RxKept, ErrKept, HwAdds
    <3>5. Writes'
      BY <1>a, <1>c, <1>d, <3>1, <3>2 DEF Writes, HwAdds
    <3> QED BY <1>a, <1>c, <3>3, <3>4, <3>5, ReadsKept DEF DrvQuiet
  <2> QED BY <2>2, <2>3, <2>4, <2>5 DEF Hardware
<1> QED BY <1>1, <1>2, <1>3, <1>4 DEF Core

-----------------------------------------------------------------------------
(* nf2c_send: what its three steps leave alone. *)
LEMMA NfSendKeeps ==
  ASSUME DrvBase, Core, NEW p \in Callers, snd[p] # "off",
         hw'.rdOwner = hw.rdOwner, hw'.flags = hw.flags, hw'.mask = hw.mask,
         UNCHANGED <<ring, wr, rd, free, credit, rxp, up, isr, wd>>, Writes', Lookers'
  PROVE  Core'
<1>1. up # {}
  <2>1. p = "tx" \/ p = "isr" \/ p = "wd"
    BY DEF Callers
  <2> QED BY <2>1 DEF DrvBase, Contexts, InTx
<1>2. DrvQuiet' /\ Masks'
  BY <1>1 DEF Core, DrvQuiet, Masks
<1>3. RxKept /\ ErrKept
  <2>1. Receipt' = Receipt
    BY SameReceipt
  <2>2. Resetting' = Resetting
    BY SamePcs
  <2> QED BY <2>1, <2>2 DEF RxKept, ErrKept
<1>4. Reads'
  BY <1>3, ReadsKept DEF Core
<1>5. Ring'
  BY SameRing DEF Core
<1> QED BY <1>2, <1>4, <1>5 DEF Core

(* A caller looks at the ring only when it is the first to claim. *)
LEMMA SendClaimCore == ASSUME DrvBase, Core, NEW p \in Callers, SendClaim(p) PROVE Core'
<1> DEFINE x == IF txp + 1 = 1 THEN "look" ELSE "back"
<1>a. /\ snd[p] = "claim" /\ txp' = txp + 1 /\ snd' = [snd EXCEPT ![p] = x]
      /\ UNCHANGED <<ring, wr, rd, free, credit, rxp, up, isr, wd, hw>>
  BY DEF SendClaim
<1>b. txp \in Int /\ snd \in [Callers -> Steps] /\ Writes /\ Lookers /\ Flight \in {0, 1}
  BY DrvTypes DEF DrvBase, Core, Writes
<1>c. x \in {"look", "back"} /\ (x = "look" => txp = 0)
  BY <1>b
<1> HIDE DEF x
<1>1. Claims(p) = 0
  BY <1>a DEF Claims
<1>2. /\ Sum' = Sum + 1 /\ Flight' = Flight
      /\ \A q \in Callers : snd'[q] = IF q = p THEN x ELSE snd[q]
  <2>1. /\ Sum' = Sum - Claims(p) + (IF x \in {"look", "back"} THEN 1 ELSE 0)
        /\ Flight' = txp' - Sum'
        /\ \A q \in Callers : snd'[q] = IF q = p THEN x ELSE snd[q]
    BY <1>a, <1>b, SumStep
  <2>2. Sum \in 0 .. 3 /\ Flight = txp - Sum
    BY SumFacts
  <2>3. Sum' = Sum + 1
    BY <1>1, <1>c, <2>1, <2>2
  <2> QED BY <1>a, <1>b, <2>1, <2>2, <2>3
<1>3. Writes'
  <2>1. Clearing' = Clearing
    BY <1>a, SamePcs
  <2>2. TxKept /\ ErrKept
    BY <1>a, <1>2, <2>1 DEF TxKept, ErrKept
  <2> QED BY <1>b, <2>2, WritesKept
<1>4. Lookers'
  <2>1. CASE x = "look"
    <3>1. Sum = 0 /\ Flight = 0
      <4>1. txp = 0 /\ Sum \in 0 .. 3 /\ Flight = txp - Sum
        BY <1>c, <2>1, SumFacts
      <4> QED BY <4>1, <1>b
    <3>2. \A q \in Callers : snd[q] # "look"
      BY <3>1, SumFacts
    <3> QED BY <1>2, <3>1, <3>2 DEF Lookers
  <2>2. CASE x # "look"
    BY <1>b, <1>2, <2>2 DEF Lookers
  <2> QED BY <2>1, <2>2
<1> QED BY <1>a, <1>3, <1>4, NfSendKeeps

(* The caller that looks starts the only transfer, of the packet at the    *)
(* head of the ring.                                                       *)
LEMMA SendLookCore == ASSUME DrvBase, Core, NEW p \in Callers, SendLook(p) PROVE Core'
<1>a. /\ snd[p] = "look"
      /\ UNCHANGED <<ring, wr, rd, free, credit, txp, rxp, up, isr, wd>>
  BY DEF SendLook
<1>b. /\ txp \in Int /\ snd \in [Callers -> Steps] /\ hw \in HwRec /\ rd \in Slots
      /\ Writes /\ Lookers /\ Flight = 0
  BY <1>a, DrvTypes DEF DrvBase, Core, Lookers
<1>1. Claims(p) = 1
  BY <1>a DEF Claims
<1>2. Sum \in 0 .. 3 /\ Flight = txp - Sum
  BY SumFacts
<1>3. Cleaning' = Cleaning /\ Clearing' = Clearing
  BY <1>a, SamePcs
<1>4. CASE free # Pool /\ ring[rd] \in canWr
  <2>a. snd' = [snd EXCEPT ![p] = "off"] /\ hw' = [hw EXCEPT !.wrOwner = rd]
    BY <1>4 DEF SendLook
  <2>1. /\ Sum' = Sum - Claims(p) + (IF "off" \in {"look", "back"} THEN 1 ELSE 0)
        /\ Flight' = txp' - Sum'
        /\ \A q \in Callers : snd'[q] = IF q = p THEN "off" ELSE snd[q]
    BY <1>b, <2>a, SumStep
  <2>2. Sum' = Sum - 1
    BY <1>1, <1>2, <2>1
  <2>3. Flight' = 1
    BY <1>a, <1>b, <1>2, <2>1, <2>2
  <2>4. /\ hw'.wrOwner = rd /\ hw'.rdOwner = hw.rdOwner
        /\ hw'.flags = hw.flags /\ hw'.mask = hw.mask
    BY <1>b, <2>a DEF HwRec
  <2>5. hw'.wrOwner # Nothing
    BY <1>b, <2>4, Nf2DriverAssumption DEF Slots
  <2>6. Writes'
    BY <1>a, <1>b, <1>3, <1>4, <2>3, <2>4, <2>5 DEF Writes
  <2>7. Lookers'
    BY <1>a, <1>b, <2>1 DEF Lookers
  <2> QED BY <1>a, <2>4, <2>6, <2>7, NfSendKeeps
<1>5. CASE ~(free # Pool /\ ring[rd] \in canWr)
  <2>a. snd' = [snd EXCEPT ![p] = "back"] /\ hw' = hw
    BY <1>5 DEF SendLook
  <2>1. /\ Sum' = Sum - Claims(p) + (IF "back" \in {"look", "back"} THEN 1 ELSE 0)
        /\ Flight' = txp' - Sum'
        /\ \A q \in Callers : snd'[q] = IF q = p THEN "back" ELSE snd[q]
    BY <1>b, <2>a, SumStep
  <2>2. Flight' = Flight
    BY <1>a, <1>1, <1>2, <2>1
  <2>3. TxKept /\ ErrKept
    BY <1>a, <1>3, <2>a, <2>2 DEF TxKept, ErrKept
  <2>4. Writes'
    BY <1>b, <2>3, WritesKept
  <2>5. Lookers'
    BY <1>b, <2>1, <2>2 DEF Lookers
  <2> QED BY <1>a, <2>a, <2>4, <2>5, NfSendKeeps
<1> QED BY <1>4, <1>5

LEMMA SendBackCore == ASSUME DrvBase, Core, NEW p \in Callers, SendBack(p) PROVE Core'
<1>a. /\ snd[p] = "back" /\ txp' = txp - 1 /\ snd' = [snd EXCEPT ![p] = "off"]
      /\ UNCHANGED <<ring, wr, rd, free, credit, rxp, up, isr, wd, hw>>
  BY DEF SendBack
<1>b. txp \in Int /\ snd \in [Callers -> Steps] /\ Writes /\ Lookers
  BY DrvTypes DEF DrvBase, Core
<1>1. Claims(p) = 1 /\ Sum \in 0 .. 3 /\ Flight = txp - Sum
  BY <1>a, SumFacts DEF Claims
<1>2. /\ Sum' = Sum - Claims(p) + (IF "off" \in {"look", "back"} THEN 1 ELSE 0)
      /\ Flight' = txp' - Sum'
      /\ \A q \in Callers : snd'[q] = IF q = p THEN "off" ELSE snd[q]
  BY <1>a, <1>b, SumStep
<1>3. Sum' = Sum - 1
  BY <1>1, <1>2
<1>4. Flight' = Flight
  BY <1>a, <1>b, <1>1, <1>2, <1>3
<1>5. Writes'
  <2>1. Clearing' = Clearing
    BY <1>a, SamePcs
  <2>2. TxKept /\ ErrKept
    BY <1>a, <1>4, <2>1 DEF TxKept, ErrKept
  <2> QED BY <1>b, <2>2, WritesKept
<1>6. Lookers'
  BY <1>b, <1>2, <1>4 DEF Lookers
<1> QED BY <1>a, <1>5, <1>6, NfSendKeeps

LEMMA SendCore == ASSUME DrvBase, Core, NEW p \in Callers, Send(p) PROVE Core'
BY SendClaimCore, SendLookCore, SendBackCore DEF Send

(* nf2c_tx queues a packet and enters nf2c_send. *)
LEMMA NfTxCore == ASSUME DrvBase, Core, NEW i \in Ifaces, NfTx(i) PROVE Core'
<1> USE Nf2DriverAssumption
<1>a. /\ ~InTx /\ i \in up /\ free > 0 /\ ring' = [ring EXCEPT ![wr] = i]
      /\ wr' = (wr + 1) % Pool /\ free' = free - 1
      /\ credit' = [credit EXCEPT ![i] = credit[i] - 1]
      /\ snd' = [snd EXCEPT !["tx"] = "claim"]
      /\ UNCHANGED <<rd, txp, rxp, up, isr, wd, hw>>
  BY DEF NfTx
<1>b. /\ DrvTypeOK /\ DrvQuiet /\ Masks /\ Writes /\ Lookers /\ Reads /\ Ring
      /\ snd \in [Callers -> Steps] /\ txp \in Int /\ free \in 0 .. Pool
      /\ "tx" \in Callers /\ snd["tx"] = "off"
  BY <1>a, DrvTypes DEF DrvBase, Core, Ring, Callers, InTx
<1>1. Ring'
  BY <1>a, <1>b, RingPush
<1>2. Flight' = Flight /\ \A q \in Callers : snd'[q] = IF q = "tx" THEN "claim" ELSE snd[q]
  <2>1. /\ Sum' = Sum - Claims("tx") + (IF "claim" \in {"look", "back"} THEN 1 ELSE 0)
        /\ Flight' = txp' - Sum'
        /\ \A q \in Callers : snd'[q] = IF q = "tx" THEN "claim" ELSE snd[q]
    BY <1>a, <1>b, SumStep
  <2>2. Claims("tx") = 0 /\ Sum \in 0 .. 3 /\ Flight = txp - Sum
    BY <1>b, SumFacts DEF Claims
  <2>3. Flight' = Flight
    BY <1>a, <2>1, <2>2
  <2> QED BY <2>1, <2>3
<1>3. Receipt' = Receipt /\ Clearing' = Clearing /\ Resetting' = Resetting
  BY <1>a, SameReceipt, SamePcs
<1>4. free' # Pool
  BY <1>a, <1>b
<1>5. TxKept /\ RxKept /\ ErrKept
  BY <1>a, <1>2, <1>3, <1>4 DEF TxKept, RxKept, ErrKept
<1>6. Writes' /\ Reads'
  BY <1>b, <1>5, WritesKept, ReadsKept
<1>7. Lookers'
  BY <1>b, <1>2, LookersKept
<1>8. DrvQuiet' /\ Masks'
  BY <1>a, <1>b DEF DrvQuiet, Masks
<1> QED BY <1>1, <1>6, <1>7, <1>8 DEF Core

-----------------------------------------------------------------------------
(* nf2c_clear_dma_flags.  A counter that is zero counts no transfer, and   *)
(* one that is not is taken for the transfer it stands for.                *)
LEMMA ClearStep ==
  ASSUME DrvBase, Core, NEW p \in {"isr", "wd"}, NEW l, Gone(p, l), l # "idle",
         Pc(p) \in {"clear", "clearRx", "clearTx", "free"},
         UNCHANGED <<up, hw>>, Ring', Lookers', Writes', Reads'
  PROVE  Core'
<1>1. up # {} /\ (p = "isr" => isr.pc # "idle")
  BY ClearOff DEF DrvBase
<1>2. DrvQuiet'
  BY <1>1 DEF DrvQuiet
<1>3. Masks'
  BY <1>1 DEF Core, Masks, Gone
<1> QED BY <1>2, <1>3 DEF Core

(* The rest of nf2c_clear_dma_flags does not concern the other transfers. *)
LEMMA ClearErr == ASSUME NEW p, NEW l, Gone(p, l), hw' = hw PROVE ErrKept
BY DEF Gone, ErrKept

LEMMA ClearRxLookCore ==
  ASSUME DrvBase, Core, NEW p \in {"isr", "wd"}, ClearRxLook(p), ~misjudged'
  PROVE  Core'
<1> DEFINE l == IF rxp # 0 THEN "clearRx" ELSE "clearTx"
<1>a. /\ Pc(p) = "clear" /\ MoveTo(p, l) /\ (rxp # 0 => RxOver)
      /\ UNCHANGED <<ring, wr, rd, free, credit, txp, rxp, up, snd, hw>>
  BY DEF ClearRxLook
<1>b. /\ isr \in IsrRec /\ wd \in WdRec /\ rxp \in Int /\ Writes /\ Reads /\ Ring /\ Lookers
  BY DrvTypes DEF DrvBase, Core
<1>c. (rxp # 0 => l = "clearRx") /\ (rxp = 0 => l = "clearTx")
  OBVIOUS
<1> HIDE DEF l
<1>1. Gone(p, l)
  BY <1>a, <1>b, <1>c, GotoFacts DEF IsrPcs, WdPcs
<1>2. Ring'
  BY <1>a, <1>b, SameRing
<1>3. Flight' = Flight
  BY <1>a, SameAccount
<1>4. Lookers'
  BY <1>a, <1>b, <1>3, LookersKept
<1>5. ErrKept
  BY <1>1, <1>a, ClearErr
<1>6. (p = "isr" => isr.pc = "clear") /\ (p = "wd" => wd.pc = "clear")
  BY <1>a DEF Pc
<1>7. Writes'
  <2>1. Clearing'
    BY <1>1, <1>c DEF Gone, Clearing
  <2>2. TxKept
    BY <1>1, <1>3, <1>a, <1>c, <1>6, <2>1 DEF TxKept, Gone
  <2> QED BY <1>b, <1>5, <2>2, WritesKept
<1>8. Receipt' = Receipt
  <2>1. isr'.pc = "queued" <=> isr.pc = "queued"
    BY <1>1, <1>c, <1>6 DEF Gone
  <2> QED BY <1>a, <2>1, SameReceipt
<1>9. Reads'
  <2>1. CASE rxp # 0
    <3>1. /\ Receipt = 1 /\ ~hw.rdOwner /\ "rx" \notin hw.flags /\ "rx" \notin isr.status
          /\ isr.pc # "clearRx" /\ wd.pc # "clearRx"
      BY <1>a, <2>1 DEF RxOver
    <3>2. Taking' /\ ~(isr'.pc = "clearRx" /\ wd'.pc = "clearRx")
      BY <1>1, <1>c, <2>1, <3>1 DEF Gone, Taking
    <3>3. isr'.status = isr.status /\ hw' = hw
      BY <1>1, <1>a DEF Gone
    <3> QED BY <1>8, <3>1, <3>2, <3>3 DEF Reads
  <2>2. CASE rxp = 0
    <3>1. Receipt = 0
      <4>1. Receipt = rxp - (IF isr.pc = "queued" THEN 1 ELSE 0) /\ Receipt \in {0, 1}
        BY <1>b DEF Receipt, Reads
      <4> QED BY <4>1, <2>2
    <3>2. ~Taking /\ ~hw.rdOwner /\ "rx" \notin hw.flags /\ "rx" \notin isr.status
      BY <1>b, <3>1 DEF Reads
    <3>3. ~Taking'
      BY <1>1, <1>c, <2>2, <3>2 DEF Gone, Taking
    <3>4. isr'.status = isr.status /\ hw' = hw
      BY <1>1, <1>a DEF Gone
    <3> QED BY <1>8, <3>1, <3>2, <3>3, <3>4 DEF Reads, Taking
  <2> QED BY <2>1, <2>2
<1> QED BY <1>1, <1>2, <1>4, <1>7, <1>9, <1>a, <1>c, ClearStep

LEMMA ClearRxCore ==
  ASSUME DrvBase, Core, NEW p \in {"isr", "wd"}, ClearRx(p)
  PROVE  Core'
<1>a. /\ Pc(p) = "clearRx" /\ rxp' = rxp - 1 /\ MoveTo(p, "clearTx")
      /\ UNCHANGED <<ring, wr, rd, free, credit, txp, up, snd, hw>>
  BY DEF ClearRx
<1>b. /\ isr \in IsrRec /\ wd \in WdRec /\ rxp \in Int /\ Writes /\ Reads /\ Ring /\ Lookers
  BY DrvTypes DEF DrvBase, Core
<1>1. Gone(p, "clearTx")
  BY <1>a, <1>b, GotoFacts DEF IsrPcs, WdPcs
<1>2. Ring'
  BY <1>a, <1>b, SameRing
<1>3. Flight' = Flight
  BY <1>a, SameAccount
<1>4. Lookers'
  BY <1>a, <1>b, <1>3, LookersKept
<1>5. ErrKept
  BY <1>1, <1>a, ClearErr
<1>6. (p = "isr" => isr.pc = "clearRx") /\ (p = "wd" => wd.pc = "clearRx")
  BY <1>a DEF Pc
<1>7. Writes'
  <2>1. Clearing'
    BY <1>1 DEF Gone, Clearing
  <2>2. TxKept
    BY <1>1, <1>3, <1>a, <1>6, <2>1 DEF TxKept, Gone
  <2> QED BY <1>b, <1>5, <2>2, WritesKept
<1>8. Taking
  BY <1>6 DEF Taking
<1>9. Receipt = 1 /\ ~hw.rdOwner /\ "rx" \notin hw.flags /\ "rx" \notin isr.status
  BY <1>b, <1>8 DEF Reads
<1>10. Receipt' = 0
  <2>1. isr'.pc = "queued" <=> isr.pc = "queued"
    BY <1>1, <1>6 DEF Gone
  <2>2. PICK c \in {0, 1} : c = IF isr.pc = "queued" THEN 1 ELSE 0
    OBVIOUS
  <2>3. Receipt = rxp - c /\ Receipt' = rxp' - c
    BY <2>1, <2>2 DEF Receipt
  <2> QED BY <1>a, <1>b, <1>9, <2>3
<1>11. ~Taking'
  BY <1>1, <1>6, <1>b DEF Gone, Taking, Reads
<1>12. Reads'
  <2>1. isr'.status = isr.status /\ hw' = hw
    BY <1>1, <1>a DEF Gone
  <2> QED BY <1>9, <1>10, <1>11, <2>1 DEF Reads, Taking
<1> QED BY <1>1, <1>2, <1>4, <1>7, <1>12, <1>a, ClearStep

LEMMA ClearTxLookCore ==
  ASSUME DrvBase, Core, NEW p \in {"isr", "wd"}, ClearTxLook(p), ~misjudged'
  PROVE  Core'
<1> DEFINE l == IF txp # 0 THEN "free" ELSE AfterClear(p)
<1>a. /\ Pc(p) = "clearTx" /\ MoveTo(p, l) /\ (txp # 0 => TxOver)
      /\ snd' = (IF txp = 0 THEN SendIfAny(p, free) ELSE snd)
      /\ UNCHANGED <<ring, wr, rd, free, credit, txp, rxp, up, hw>>
  BY DEF ClearTxLook
<1>b. /\ isr \in IsrRec /\ wd \in WdRec /\ txp \in Int /\ snd \in [Callers -> Steps]
      /\ Writes /\ Reads /\ Ring /\ Lookers /\ p \in Callers
  BY DrvTypes DEF DrvBase, Core, Callers
<1>c. (txp # 0 => l = "free") /\ (txp = 0 => l = AfterClear(p))
  OBVIOUS
<1>d. snd[p] = "off"
  BY <1>a, ClearOff DEF DrvBase
<1>e. AfterClear(p) \in {"run", "send"} /\ (p = "isr" => AfterClear(p) = "run") /\ (p = "wd" => AfterClear(p) = "send")
  BY DEF AfterClear
<1> HIDE DEF l
<1>1. Gone(p, l) /\ l # "idle"
  BY <1>a, <1>b, <1>c, <1>e, GotoFacts DEF IsrPcs, WdPcs
<1>2. Ring'
  BY <1>a, <1>b, SameRing
<1>3. /\ Sum' = Sum /\ Flight' = txp' - Sum'
      /\ \A q \in Callers : snd'[q] = "look" => snd[q] = "look"
  BY <1>a, <1>b, <1>d, EnterSend
<1>4. Flight' = Flight
  BY <1>3, <1>a, SumFacts
<1>5. Lookers'
  BY <1>b, <1>3, <1>4, LookersKept
<1>6. ErrKept
  BY <1>1, <1>a, ClearErr
<1>7. (p = "isr" => isr.pc = "clearTx") /\ (p = "wd" => wd.pc = "clearTx")
  BY <1>a DEF Pc
<1>8. l \in {"free", "run", "send"}
  BY <1>c, <1>e
<1>9. Reads'
  <2>1. isr'.pc = "queued" <=> isr.pc = "queued"
    BY <1>1, <1>7, <1>8 DEF Gone
  <2>2. Receipt' = Receipt
    BY <1>a, <2>1, SameReceipt
  <2>3. Resetting => Resetting'
    BY <1>1, <1>7 DEF Gone, Resetting
  <2>4. RxKept
    BY <1>1, <1>a, <1>7, <1>8, <2>2, <2>3 DEF RxKept, Gone
  <2> QED BY <1>b, <1>6, <2>4, ReadsKept
<1>10. isr'.status = isr.status /\ hw' = hw
  BY <1>1, <1>a DEF Gone
<1>11. Writes'
  <2>1. CASE txp # 0
    <3>1. /\ Flight = 1 /\ hw.wrOwner = Nothing /\ "tx" \notin hw.flags /\ "tx" \notin isr.status
          /\ isr.pc # "free" /\ wd.pc # "free"
      BY <1>a, <2>1 DEF TxOver
    <3>2. Cleaning' /\ ~(isr'.pc = "free" /\ wd'.pc = "free")
      BY <1>1, <1>c, <2>1, <3>1 DEF Gone, Cleaning
    <3>3. free' # Pool
      BY <1>a, <1>b, <3>1 DEF Writes
    <3> QED BY <1>4, <1>10, <3>1, <3>2, <3>3 DEF Writes
  <2>2. CASE txp = 0
    <3>1. Flight = 0
      <4>1. Flight = txp - Sum /\ Sum \in 0 .. 3 /\ Flight \in {0, 1}
        BY <1>b, SumFacts DEF Writes
      <4> QED BY <4>1, <2>2
    <3>2. ~Cleaning /\ hw.wrOwner = Nothing /\ "tx" \notin hw.flags /\ "tx" \notin isr.status
      BY <1>b, <3>1 DEF Writes
    <3>3. ~Cleaning'
      BY <1>1, <1>c, <1>e, <2>2, <3>2 DEF Gone, Cleaning
    <3> QED BY <1>4, <1>10, <3>1, <3>2, <3>3 DEF Writes, Cleaning
  <2> QED BY <2>1, <2>2
<1> QED BY <1>1, <1>2, <1>5, <1>9, <1>11, <1>a, ClearStep

(* The slot at the head is given back: the transfer under way is over. *)
LEMMA ClearTxCore ==
  ASSUME DrvBase, Core, NEW p \in {"isr", "wd"}, ClearTx(p)
  PROVE  Core'
<1> USE Nf2DriverAssumption
<1>a. /\ Pc(p) = "free" /\ FreeSlot(p) /\ MoveTo(p, AfterClear(p)) /\ UNCHANGED <<wr, rxp, up, hw>>
  BY DEF ClearTx
<1>b. /\ DrvTypeOK /\ isr \in IsrRec /\ wd \in WdRec /\ txp \in Int /\ snd \in [Callers -> Steps]
      /\ Writes /\ Reads /\ Ring /\ Lookers /\ p \in Callers
  BY DrvTypes DEF DrvBase, Core, Callers
<1>c. /\ ring' = [ring EXCEPT ![rd] = Nothing] /\ rd' = (rd + 1) % Pool
      /\ free' = free + 1
      /\ credit' = [credit EXCEPT ![ring[rd]] = credit[ring[rd]] + 1]
      /\ txp' = txp - 1 /\ snd' = SendIfAny(p, free + 1)
  BY <1>a DEF FreeSlot
<1>d. snd[p] = "off"
  BY <1>a, ClearOff DEF DrvBase
<1>e. AfterClear(p) \in {"run", "send"} /\ (p = "isr" => AfterClear(p) = "run") /\ (p = "wd" => AfterClear(p) = "send")
  BY DEF AfterClear
<1>1. Gone(p, AfterClear(p)) /\ AfterClear(p) # "idle"
  BY <1>a, <1>b, <1>e, GotoFacts DEF IsrPcs, WdPcs
<1>2. (p = "isr" => isr.pc = "free") /\ (p = "wd" => wd.pc = "free")
  BY <1>a DEF Pc
<1>3. Cleaning
  BY <1>2 DEF Cleaning
<1>4. /\ Flight = 1 /\ free # Pool /\ hw.wrOwner = Nothing
      /\ "tx" \notin hw.flags /\ "tx" \notin isr.status
  BY <1>b, <1>3 DEF Writes
<1>5. ~Cleaning'
  BY <1>1, <1>2, <1>b, <1>e DEF Gone, Cleaning, Writes
<1>6. Ring'
  BY <1>a, <1>b, <1>c, <1>4, RingPop
<1>7. /\ Sum' = Sum /\ Flight' = txp' - Sum'
      /\ \A q \in Callers : snd'[q] = "look" => snd[q] = "look"
  BY <1>b, <1>c, <1>d, EnterSend
<1>8. Flight' = 0
  <2>1. Sum \in 0 .. 3 /\ Flight = txp - Sum
    BY SumFacts
  <2> QED BY <1>b, <1>c, <1>4, <1>7, <2>1
<1>9. Lookers'
  <2>1. \A q \in Callers : snd[q] # "look"
    BY <1>b, <1>4 DEF Lookers
  <2> QED BY <1>b, <1>7, <2>1, LookersKept
<1>10. isr'.status = isr.status /\ hw' = hw
  BY <1>1, <1>a DEF Gone
<1>11. Writes'
  BY <1>4, <1>5, <1>8, <1>10 DEF Writes, Cleaning
<1>12. Reads'
  <2>1. isr'.pc = "queued" <=> isr.pc = "queued"
    BY <1>1, <1>2, <1>e DEF Gone
  <2>2. Receipt' = Receipt
    BY <1>a, <2>1, SameReceipt
  <2>3. Resetting => Resetting'
    BY <1>1, <1>2 DEF Gone, Resetting
  <2>4. RxKept
    BY <1>1, <1>a, <1>2, <1>e, <2>2, <2>3 DEF RxKept, Gone
  <2>5. ErrKept
    BY <1>1, <1>a, ClearErr
  <2> QED BY <1>b, <2>4, <2>5, ReadsKept
<1> QED BY <1>1, <1>6, <1>9, <1>11, <1>12, <1>a, ClearStep

LEMMA ClearCore ==
  ASSUME DrvBase, Core, NEW p \in {"isr", "wd"}, Clear(p), ~misjudged'
  PROVE  Core'
BY ClearRxLookCore, ClearRxCore, ClearTxLookCore, ClearTxCore DEF Clear

-----------------------------------------------------------------------------
(* The handler reads and clears the flags: none of the ends of transfers   *)
(* is masked, so each of them is among those it handles.                   *)
LEMMA IsrEnterCore == ASSUME DrvBase, Core, IsrEnter PROVE Core'
<1>a. /\ isr.pc = "idle" /\ up # {}
      /\ isr' = [pc |-> "run", mask |-> hw.mask, status |-> hw.flags \ (hw.mask \ {"avail"})]
      /\ hw' = [hw EXCEPT !.flags = {}, !.mask = Bits]
      /\ UNCHANGED <<ring, wr, rd, free, credit, txp, rxp, up, snd, wd>>
  BY DEF IsrEnter
<1>b. /\ Contexts /\ Masks /\ Writes /\ Lookers /\ Reads /\ Ring /\ hw \in HwRec
  BY DrvTypes DEF DrvBase, Core
<1>c. Unmasked(hw.mask) /\ isr.status = {}
  BY <1>a, <1>b DEF Masks, Contexts
<1>1. /\ hw'.flags = {} /\ hw'.wrOwner = hw.wrOwner /\ hw'.rdOwner = hw.rdOwner
      /\ hw'.mask = Bits /\ isr'.pc = "run" /\ isr'.mask = hw.mask
      /\ isr'.status = hw.flags \ (hw.mask \ {"avail"})
  BY <1>a, <1>b DEF HwRec
<1>2. /\ "tx" \in isr'.status <=> "tx" \in hw.flags
      /\ "rx" \in isr'.status <=> "rx" \in hw.flags
      /\ "err" \in isr'.status <=> "err" \in hw.flags
  BY <1>c, <1>1 DEF Unmasked
<1>3. DrvQuiet' /\ Masks'
  BY <1>a, <1>b, <1>c, <1>1 DEF DrvQuiet, Masks
<1>4. Flight' = Flight /\ Receipt' = Receipt
  BY <1>a, <1>1, SameAccount, SameReceipt
<1>5. Cleaning' = Cleaning /\ Clearing' = Clearing /\ Taking' = Taking /\ Resetting' = Resetting
  BY <1>a, <1>1 DEF Cleaning, Clearing, Taking, Resetting
<1>6. Writes'
  BY <1>a, <1>b, <1>c, <1>1, <1>2, <1>4, <1>5 DEF Writes
<1>7. Reads'
  BY <1>a, <1>b, <1>c, <1>1, <1>2, <1>4, <1>5 DEF Reads
<1>8. Lookers'
  BY <1>a, <1>b, <1>4, LookersKept
<1>9. Ring'
  BY <1>a, <1>b, SameRing
<1> QED BY <1>3, <1>6, <1>7, <1>8, <1>9 DEF Core

(* Steps of the handler that keep the ring. *)
LEMMA IsrStep ==
  ASSUME DrvBase, Core, isr.pc # "idle", isr'.pc # "idle",
         Unmasked(isr.mask) => Unmasked(isr'.mask), hw'.mask = hw.mask,
         UNCHANGED <<ring, wr, rd, free, credit, up, wd>>,
         Writes', Lookers', Reads'
  PROVE  Core'
<1>1. up # {}
  BY DEF DrvBase, Contexts
<1>2. DrvQuiet' /\ Masks'
  BY <1>1 DEF DrvQuiet, Masks, Core
<1>3. Ring'
  BY SameRing DEF Core
<1> QED BY <1>2, <1>3 DEF Core

LEMMA IsrQueueCore == ASSUME DrvBase, Core, IsrQueue PROVE Core'
<1>a. /\ At("queue") /\ rxp' = rxp + 1
      /\ snd' = SendIfAny("isr", free) \/ snd' = snd
      /\ isr' = [isr EXCEPT !.pc = "queued", !.status = isr.status \ {"queue"}]
      /\ UNCHANGED <<ring, wr, rd, free, credit, txp, up, wd, hw>>
  BY DEF IsrQueue
<1>b. Writes /\ Lookers /\ Reads
  BY DEF Core
<1>c. /\ isr \in IsrRec /\ isr.pc = "run" /\ snd["isr"] = "off" /\ "isr" \in Callers
      /\ rxp \in Int /\ snd \in [Callers -> Steps]
  BY <1>a, AtFacts DEF Bits
<1>1. /\ isr'.pc = "queued" /\ isr'.mask = isr.mask /\ isr'.status = isr.status \ {"queue"}
  BY <1>a, <1>c DEF IsrRec
<1>2. /\ Sum' = Sum /\ Flight' = txp' - Sum'
      /\ \A q \in Callers : snd'[q] = "look" => snd[q] = "look"
  BY <1>a, <1>c, EnterSend
<1>3. Flight' = Flight
  BY <1>a, <1>2, SumFacts
<1>4. Receipt' = Receipt
  <2>1. Receipt' = rxp' - 1
    BY <1>1 DEF Receipt
  <2>2. Receipt = rxp - 0
    BY <1>c DEF Receipt
  <2> QED BY <1>a, <1>c, <2>1, <2>2
<1>5. (Clearing => Clearing') /\ (Resetting => Resetting')
  BY <1>a, <1>c DEF Clearing, Resetting
<1>6. TxKept /\ RxKept /\ ErrKept
  BY <1>a, <1>c, <1>1, <1>3, <1>4, <1>5 DEF TxKept, RxKept, ErrKept
<1>7. Writes' /\ Reads'
  BY <1>b, <1>6, WritesKept, ReadsKept
<1>8. Lookers'
  BY <1>b, <1>2, <1>3, LookersKept
<1> QED BY <1>a, <1>c, <1>1, <1>7, <1>8, IsrStep

LEMMA IsrQueueEndCore == ASSUME DrvBase, Core, IsrQueueEnd PROVE Core'
<1>a. /\ isr.pc = "queued" /\ rxp' = rxp - 1 /\ isr' = [isr EXCEPT !.pc = "run"]
      /\ UNCHANGED <<ring, wr, rd, free, credit, txp, up, snd, wd, hw>>
  BY DEF IsrQueueEnd
<1>b. Writes /\ Lookers /\ Reads /\ rxp \in Int /\ isr \in IsrRec
  BY DrvTypes DEF DrvBase, Core
<1>1. isr'.pc = "run" /\ isr'.mask = isr.mask /\ isr'.status = isr.status
  BY <1>a, <1>b DEF IsrRec
<1>2. Flight' = Flight
  BY <1>a, SameAccount
<1>3. Receipt' = Receipt
  <2>1. Receipt' = rxp' - 0
    BY <1>1 DEF Receipt
  <2>2. Receipt = rxp - 1
    BY <1>a DEF Receipt
  <2> QED BY <1>a, <1>b, <2>1, <2>2
<1>4. (Clearing => Clearing') /\ (Resetting => Resetting')
  BY <1>a DEF Clearing, Resetting
<1>5. TxKept /\ RxKept /\ ErrKept
  BY <1>a, <1>1, <1>2, <1>3, <1>4 DEF TxKept, RxKept, ErrKept
<1>6. Writes' /\ Reads'
  BY <1>b, <1>5, WritesKept, ReadsKept
<1>7. Lookers'
  BY <1>a, <1>b, <1>2, LookersKept
<1> QED BY <1>a, <1>1, <1>6, <1>7, IsrStep

(* The flag of a reception ends the one that is counted. *)
LEMMA IsrRxCore == ASSUME DrvBase, Core, IsrRx PROVE Core'
<1>a. /\ At("rx") /\ rxp' = rxp - 1
      /\ isr' = [isr EXCEPT !.status = isr.status \ {"rx"}, !.mask = isr.mask \ {"avail"}]
      /\ UNCHANGED <<ring, wr, rd, free, credit, txp, up, snd, wd, hw>>
  BY DEF IsrRx
<1>b. Writes /\ Lookers /\ Reads
  BY DEF Core
<1>c. isr \in IsrRec /\ isr.pc = "run" /\ "rx" \in isr.status /\ rxp \in Int
  BY <1>a, AtFacts DEF Bits
<1>1. /\ isr'.pc = "run" /\ isr'.mask = isr.mask \ {"avail"}
      /\ isr'.status = isr.status \ {"rx"}
  BY <1>a, <1>c DEF IsrRec
<1>2. Flight' = Flight
  BY <1>a, SameAccount
<1>3. Receipt = 1 /\ ~hw.rdOwner /\ "rx" \notin hw.flags /\ ~Taking
  BY <1>b, <1>c DEF Reads
<1>4. Receipt' = 0
  <2>1. Receipt' = rxp' - 0
    BY <1>1 DEF Receipt
  <2>2. Receipt = rxp - 0
    BY <1>c DEF Receipt
  <2> QED BY <1>a, <1>c, <1>3, <2>1, <2>2
<1>5. Clearing' = Clearing /\ Taking' = Taking
  BY <1>a, <1>c, <1>1 DEF Clearing, Taking
<1>6. TxKept /\ ErrKept
  BY <1>a, <1>c, <1>1, <1>2, <1>5 DEF TxKept, ErrKept
<1>7. Writes'
  BY <1>b, <1>6, WritesKept
<1>8. Reads'
  BY <1>a, <1>1, <1>3, <1>4, <1>5 DEF Reads, Taking
<1>9. Lookers'
  BY <1>a, <1>b, <1>2, LookersKept
<1>10. Unmasked(isr.mask) => Unmasked(isr'.mask)
  BY <1>1 DEF Unmasked
<1> QED BY <1>a, <1>c, <1>1, <1>7, <1>8, <1>9, <1>10, IsrStep

(* The flag of a transmission is about the transfer that is counted. *)
LEMMA IsrTxCore == ASSUME DrvBase, Core, IsrTx PROVE Core'
<1>a. /\ At("tx")
      /\ isr' = [isr EXCEPT !.status = isr.status \ {"tx"},
                            !.pc = IF txp # 0 THEN "free" ELSE isr.pc]
      /\ UNCHANGED <<ring, wr, rd, free, credit, txp, rxp, up, snd, wd, hw>>
  BY DEF IsrTx
<1>b. Writes /\ Lookers /\ Reads /\ txp \in Int
  BY DrvTypes DEF DrvBase, Core
<1>c. isr \in IsrRec /\ isr.pc = "run" /\ "tx" \in isr.status
  BY <1>a, AtFacts DEF Bits
<1>1. Flight = 1 /\ hw.wrOwner = Nothing /\ "tx" \notin hw.flags /\ free # Pool /\ ~Cleaning
  BY <1>b, <1>c DEF Writes
<1>2. txp # 0
  <2>1. Sum \in 0 .. 3 /\ Flight = txp - Sum
    BY SumFacts
  <2> QED BY <1>b, <1>1, <2>1
<1>3. /\ isr'.pc = "free" /\ isr'.mask = isr.mask /\ isr'.status = isr.status \ {"tx"}
  BY <1>a, <1>c, <1>2 DEF IsrRec
<1>4. Flight' = Flight
  BY <1>a, SameAccount
<1>5. Cleaning' /\ ~(isr'.pc = "free" /\ wd'.pc = "free")
  BY <1>a, <1>1, <1>3 DEF Cleaning
<1>6. Writes'
  BY <1>a, <1>1, <1>3, <1>4, <1>5 DEF Writes
<1>7. Receipt' = Receipt
  BY <1>a, <1>c, <1>3, SameReceipt
<1>8. Resetting => Resetting'
  BY <1>a, <1>c DEF Resetting
<1>9. RxKept /\ ErrKept
  BY <1>a, <1>c, <1>3, <1>7, <1>8 DEF RxKept, ErrKept
<1>10. Reads'
  BY <1>b, <1>9, ReadsKept
<1>11. Lookers'
  BY <1>a, <1>b, <1>4, LookersKept
<1> QED BY <1>a, <1>c, <1>3, <1>6, <1>10, <1>11, IsrStep

LEMMA IsrAvailCore == ASSUME DrvBase, Core, IsrAvail PROVE Core'
<1>a. /\ At("avail")
      /\ isr' = [isr EXCEPT !.status = isr.status \ {"avail"}, !.mask = isr.mask \cup {"avail"}]
      /\ UNCHANGED <<ring, wr, rd, free, credit, txp, up, snd, wd>>
  BY DEF IsrAvail
<1>b. Writes /\ Lookers /\ Reads
  BY DEF Core
<1>c. isr \in IsrRec /\ isr.pc = "run" /\ rxp \in Int /\ hw \in HwRec
  BY <1>a, AtFacts DEF Bits
<1>1. /\ isr'.pc = "run" /\ isr'.mask = isr.mask \cup {"avail"}
      /\ isr'.status = isr.status \ {"avail"}
  BY <1>a, <1>c DEF IsrRec
<1>2. Flight' = Flight
  BY <1>a, SameAccount
<1>3. Receipt' = rxp' - 0 /\ Receipt = rxp - 0
  BY <1>1, <1>c DEF Receipt
<1>4. hw'.wrOwner = hw.wrOwner /\ hw'.flags = hw.flags /\ hw'.mask = hw.mask
  <2>1. CASE hw' = [hw EXCEPT !.rdOwner = TRUE]
    BY <1>c, <2>1 DEF HwRec
  <2>2. CASE hw' = hw
    BY <2>2
  <2> QED BY <2>1, <2>2 DEF IsrAvail
<1>5. Clearing' = Clearing /\ Taking' = Taking /\ Resetting' = Resetting
  BY <1>a, <1>c, <1>1 DEF Clearing, Taking, Resetting
<1>6. TxKept /\ ErrKept
  BY <1>a, <1>c, <1>1, <1>2, <1>4, <1>5 DEF TxKept, ErrKept
<1>7. Writes'
  BY <1>b, <1>6, WritesKept
<1>8. Reads'
  <2>1. CASE rxp + 1 = 1
    <3>1. rxp' = rxp + 1 /\ hw'.rdOwner = TRUE
      BY <2>1, <1>c DEF IsrAvail, HwRec
    <3>2. Receipt = 0 /\ Receipt' = 1
      BY <2>1, <3>1, <1>c, <1>3
    <3>3. "rx" \notin hw.flags /\ "rx" \notin isr.status /\ ~Taking
      BY <3>2, <1>b DEF Reads
    <3> QED BY <3>1, <3>2, <3>3, <1>1, <1>4, <1>5 DEF Reads, Taking
  <2>2. CASE rxp + 1 # 1
    <3>1. rxp' = rxp /\ hw' = hw
      BY <2>2 DEF IsrAvail
    <3>2. Receipt' = Receipt
      BY <3>1, <1>c, <1>3
    <3>3. RxKept
      BY <3>1, <3>2, <1>a, <1>c, <1>1, <1>5 DEF RxKept
    <3> QED BY <1>b, <1>6, <3>3, ReadsKept
  <2> QED BY <2>1, <2>2
<1>9. Lookers'
  BY <1>a, <1>b, <1>2, LookersKept
<1>10. Unmasked(isr.mask) => Unmasked(isr'.mask)
  BY <1>1 DEF Unmasked
<1> QED BY <1>a, <1>c, <1>1, <1>4, <1>7, <1>8, <1>9, <1>10, IsrStep

(* A DMA error: the card forgets both transfers. *)
LEMMA IsrErrCore == ASSUME DrvBase, Core, IsrErr PROVE Core'
<1>a. /\ At("err") /\ hw' = ResetCpci(hw)
      /\ isr' = [isr EXCEPT !.status = isr.status \ {"err"}, !.pc = "clear"]
      /\ UNCHANGED <<ring, wr, rd, free, credit, txp, rxp, up, snd, wd>>
  BY DEF IsrErr
<1>b. Writes /\ Lookers /\ Reads
  BY DEF Core
<1>c. isr \in IsrRec /\ isr.pc = "run" /\ hw \in HwRec
  BY <1>a, AtFacts DEF Bits
<1>d. "tx" \notin isr.status /\ "rx" \notin isr.status
  BY <1>a DEF At, Earlier
<1>1. /\ isr'.pc = "clear" /\ isr'.mask = isr.mask /\ isr'.status = isr.status \ {"err"}
  BY <1>a, <1>c DEF IsrRec
<1>2. /\ hw'.wrOwner = Nothing /\ hw'.rdOwner = FALSE /\ hw'.mask = hw.mask
      /\ "tx" \notin hw'.flags /\ "rx" \notin hw'.flags
  BY <1>a, <1>c, ResetCpciFacts DEF Blank
<1>3. Flight' = Flight /\ Receipt' = Receipt
  BY <1>a, <1>c, <1>1, SameAccount, SameReceipt
<1>4. /\ Clearing' /\ Resetting' /\ Cleaning' = Cleaning /\ Taking' = Taking
      /\ (isr'.pc = "free" <=> isr.pc = "free") /\ (isr'.pc = "clearRx" <=> isr.pc = "clearRx")
      /\ wd' = wd /\ free' = free
  BY <1>a, <1>c, <1>1 DEF Clearing, Resetting, Cleaning, Taking
<1>5. Writes'
  BY <1>b, <1>d, <1>1, <1>2, <1>3, <1>4 DEF Writes
<1>6. Reads'
  BY <1>b, <1>d, <1>1, <1>2, <1>3, <1>4 DEF Reads
<1>7. Lookers'
  BY <1>a, <1>b, <1>3, LookersKept
<1> QED BY <1>a, <1>c, <1>1, <1>2, <1>5, <1>6, <1>7, IsrStep

LEMMA IsrExitCore == ASSUME DrvBase, Core, IsrExit PROVE Core'
<1>a. /\ isr.pc = "run" /\ isr.status = {} /\ hw' = [hw EXCEPT !.mask = isr.mask]
      /\ isr' = [pc |-> "idle", mask |-> {}, status |-> {}]
      /\ UNCHANGED <<ring, wr, rd, free, credit, txp, rxp, up, snd, wd>>
  BY DEF IsrExit
<1>b. /\ Contexts /\ DrvQuiet /\ Masks /\ Writes /\ Lookers /\ Reads /\ Ring /\ hw \in HwRec
  BY DrvTypes DEF DrvBase, Core
<1>1. /\ hw'.wrOwner = hw.wrOwner /\ hw'.rdOwner = hw.rdOwner
      /\ hw'.flags = hw.flags /\ hw'.mask = isr.mask
      /\ isr'.pc = "idle" /\ isr'.status = {}
  BY <1>a, <1>b DEF HwRec
<1>2. DrvQuiet' /\ Masks'
  BY <1>a, <1>b, <1>1 DEF DrvQuiet, Masks
<1>3. Flight' = Flight /\ Receipt' = Receipt
  BY <1>a, <1>1, SameAccount, SameReceipt
<1>4. Clearing' = Clearing /\ Resetting' = Resetting
  BY <1>a, <1>1 DEF Clearing, Resetting
<1>5. TxKept /\ RxKept /\ ErrKept
  BY <1>a, <1>1, <1>3, <1>4 DEF TxKept, RxKept, ErrKept
<1>6. Writes' /\ Reads'
  BY <1>b, <1>5, WritesKept, ReadsKept
<1>7. Lookers'
  BY <1>a, <1>b, <1>3, LookersKept
<1>8. Ring'
  BY <1>a, <1>b, SameRing
<1> QED BY <1>2, <1>6, <1>7, <1>8 DEF Core

LEMMA IsrCore == ASSUME DrvBase, Core, Isr, ~misjudged' PROVE Core'
<1>1. "isr" \in Callers /\ "isr" \in {"isr", "wd"}
  BY DEF Callers
<1> QED BY <1>1, IsrEnterCore, IsrQueueCore, IsrQueueEndCore, IsrRxCore, IsrTxCore, IsrAvailCore,
           IsrErrCore, IsrExitCore, ClearCore, SendCore DEF Isr

-----------------------------------------------------------------------------
LEMMA WdStartCore == ASSUME DrvBase, Core, NEW i \in Ifaces, WdStart(i) PROVE Core'
<1>a. /\ wd.pc = "idle" /\ wd' = [pc |-> "reset", iface |-> i, mask |-> hw.mask]
      /\ UNCHANGED <<ring, wr, rd, free, credit, txp, rxp, up, snd, isr, hw>>
  BY DEF WdStart
<1>b. DrvQuiet /\ Masks /\ Writes /\ Lookers /\ Reads /\ Ring
  BY DEF Core
<1>1. wd'.pc = "reset" /\ wd'.mask = hw.mask
  BY <1>a
<1>2. DrvQuiet' /\ Masks'
  BY <1>a, <1>b, <1>1 DEF DrvQuiet, Masks
<1>3. Flight' = Flight /\ Receipt' = Receipt
  BY <1>a, SameAccount, SameReceipt
<1>4. Clearing' = Clearing /\ Resetting' = Resetting
  BY <1>a, <1>1 DEF Clearing, Resetting
<1>5. TxKept /\ RxKept /\ ErrKept
  BY <1>a, <1>1, <1>3, <1>4 DEF TxKept, RxKept, ErrKept
<1>6. Writes' /\ Reads'
  BY <1>b, <1>5, WritesKept, ReadsKept
<1>7. Lookers'
  BY <1>a, <1>b, <1>3, LookersKept
<1>8. Ring'
  BY <1>a, <1>b, SameRing
<1> QED BY <1>2, <1>6, <1>7, <1>8 DEF Core

(* The watchdog resets the card, which forgets both transfers. *)
LEMMA WdResetCore == ASSUME DrvBase, Core, WdReset, ~misjudged' PROVE Core'
<1>a. /\ wd.pc = "reset" /\ hw' = [HwReset(hw) EXCEPT !.mask = wd.mask]
      /\ wd' = [wd EXCEPT !.pc = "clear", !.mask = {}]
      /\ ~(isr.pc = "idle" /\ wd.mask = Bits)
      /\ UNCHANGED <<ring, wr, rd, free, credit, txp, rxp, up, snd, isr>>
  BY DEF WdReset
<1>b. /\ Contexts /\ DrvQuiet /\ Masks /\ Writes /\ Lookers /\ Reads /\ Ring /\ wd \in WdRec
  BY DrvTypes DEF DrvBase, Core
<1>1. /\ hw'.wrOwner = Nothing /\ hw'.rdOwner = FALSE /\ hw'.mask = wd.mask
      /\ "tx" \notin hw'.flags /\ "rx" \notin hw'.flags
  <2>1. wd.mask \in SUBSET Bits
    BY <1>b DEF WdRec
  <2> QED BY <1>a, <2>1, ResetFacts DEF Blank
<1>2. wd'.pc = "clear" /\ wd'.mask = {}
  BY <1>a, <1>b DEF WdRec
<1>3. up # {}
  BY <1>a, <1>b DEF Contexts
<1>4. Unmasked(wd'.mask)
  BY <1>2 DEF Unmasked
<1>5. DrvQuiet' /\ Masks'
  BY <1>a, <1>b, <1>1, <1>3, <1>4 DEF DrvQuiet, Masks
<1>6. Flight' = Flight /\ Receipt' = Receipt
  BY <1>a, SameAccount, SameReceipt
<1>7. /\ Clearing' /\ Resetting' /\ Cleaning' = Cleaning /\ Taking' = Taking
      /\ wd'.pc # "free" /\ wd'.pc # "clearRx" /\ isr' = isr /\ free' = free
  BY <1>a, <1>2 DEF Clearing, Resetting, Cleaning, Taking
<1>8. Writes'
  BY <1>b, <1>1, <1>6, <1>7 DEF Writes
<1>9. Reads'
  BY <1>b, <1>1, <1>6, <1>7 DEF Reads
<1>10. Lookers'
  BY <1>a, <1>b, <1>6, LookersKept
<1>11. Ring'
  BY <1>a, <1>b, SameRing
<1> QED BY <1>5, <1>8, <1>9, <1>10, <1>11 DEF Core

LEMMA WdEndCore == ASSUME DrvBase, Core, WdEnd PROVE Core'
<1>a. /\ wd.pc = "send" /\ wd' = [pc |-> "idle", iface |-> Nothing, mask |-> {}]
      /\ UNCHANGED <<ring, wr, rd, free, credit, txp, rxp, up, snd, isr, hw>>
  BY DEF WdEnd
<1>b. DrvQuiet /\ Masks /\ Writes /\ Lookers /\ Reads /\ Ring
  BY DEF Core
<1>1. wd'.pc = "idle" /\ wd'.mask = {}
  BY <1>a
<1>2. Unmasked(wd'.mask)
  BY <1>1 DEF Unmasked
<1>3. DrvQuiet' /\ Masks'
  BY <1>a, <1>b, <1>2 DEF DrvQuiet, Masks
<1>4. Flight' = Flight /\ Receipt' = Receipt
  BY <1>a, SameAccount, SameReceipt
<1>5. Clearing' = Clearing /\ Resetting' = Resetting
  BY <1>a, <1>1 DEF Clearing, Resetting
<1>6. TxKept /\ RxKept /\ ErrKept
  BY <1>a, <1>1, <1>4, <1>5 DEF TxKept, RxKept, ErrKept
<1>7. Writes' /\ Reads'
  BY <1>b, <1>6, WritesKept, ReadsKept
<1>8. Lookers'
  BY <1>a, <1>b, <1>4, LookersKept
<1>9. Ring'
  BY <1>a, <1>b, SameRing
<1> QED BY <1>3, <1>7, <1>8, <1>9 DEF Core

LEMMA WdCore == ASSUME DrvBase, Core, Wd, ~misjudged' PROVE Core'
<1>1. "wd" \in Callers /\ "wd" \in {"isr", "wd"}
  BY DEF Callers
<1> QED BY <1>1, WdResetCore, WdEndCore, ClearCore, SendCore DEF Wd

(* A context that has misjudged once is not forgiven. *)
LEMMA Sticky == ASSUME [DrvNext]_drvVars, ~misjudged' PROVE ~misjudged
<1>1. CASE UNCHANGED drvVars
  BY <1>1 DEF drvVars
<1>2. CASE Hardware
  BY <1>2 DEF Hardware, HwArrive, HwRead, HwWrite, HwRoom
<1>3. CASE Control
  BY <1>3 DEF Control, Probe, Remove, ProbeFails, Open, OpenFails, Release
<1>4. ASSUME NEW p, Send(p) PROVE misjudged' = misjudged
  BY <1>4 DEF Send, SendClaim, SendLook, SendBack
<1>5. ASSUME NEW p, Clear(p) PROVE ~misjudged
  BY <1>5 DEF Clear, ClearRxLook, ClearRx, ClearTxLook, ClearTx
<1>6. CASE Isr
  BY <1>4, <1>5, <1>6 DEF Isr, IsrEnter, IsrQueue, IsrQueueEnd, IsrRx, IsrTx, IsrAvail, IsrErr, IsrExit
<1>7. CASE Wd
  BY <1>4, <1>5, <1>7 DEF Wd, WdReset, WdEnd
<1>8. ASSUME NEW i \in Ifaces, NfTx(i) \/ WdStart(i) PROVE ~misjudged
  BY <1>8 DEF NfTx, WdStart
<1> QED BY <1>1, <1>2, <1>3, <1>4, <1>6, <1>7, <1>8 DEF DrvNext

LEMMA NextCore == ASSUME DrvBase, Core, [DrvNext]_drvVars, ~misjudged' PROVE Core'
<1>1. CASE UNCHANGED drvVars
  <2>1. UNCHANGED <<ring, wr, rd, free, credit, txp, rxp, up, snd, isr, wd, hw>>
    BY <1>1 DEF drvVars
  <2>2. /\ Flight' = Flight /\ Receipt' = Receipt
        /\ Clearing' = Clearing /\ Resetting' = Resetting
    BY <2>1, SameAccount, SameReceipt, SamePcs
  <2>3. TxKept /\ RxKept /\ ErrKept
    BY <2>1, <2>2 DEF TxKept, RxKept, ErrKept
  <2>4. Writes' /\ Reads'
    BY <2>3, WritesKept, ReadsKept DEF Core
  <2>5. Lookers'
    BY <2>1, <2>2, LookersKept DEF Core
  <2>6. Ring'
    BY <2>1, SameRing DEF Core
  <2>7. DrvQuiet' /\ Masks'
    BY <2>1 DEF DrvQuiet, Masks, Core
  <2> QED BY <2>4, <2>5, <2>6, <2>7 DEF Core
<1>2. "tx" \in Callers
  BY DEF Callers
<1>3. CASE DrvNext
  BY <1>2, <1>3, HardwareCore, ControlCore, IsrCore, WdCore, SendCore, NfTxCore, WdStartCore
     DEF DrvNext
<1> QED BY <1>1, <1>3

-----------------------------------------------------------------------------
(* Every step keeps the types and the contexts, and the account of the     *)
(* transfers up to the first wrong guess of nf2c_clear_dma_flags.          *)
THEOREM DriverInvariant == DrvSpec => []DrvIInv
<1>1. DrvInit => DrvIInv
  BY InitBase, InitCore DEF DrvIInv
<1>2. DrvIInv /\ [DrvNext]_drvVars => DrvIInv'
  <2> SUFFICES ASSUME DrvIInv, [DrvNext]_drvVars PROVE DrvIInv'
    OBVIOUS
  <2>1. DrvBase'
    BY NextBase DEF DrvIInv
  <2>2. ~misjudged' => Core'
    BY NextCore, Sticky DEF DrvIInv
  <2> QED BY <2>1, <2>2 DEF DrvIInv
<1>3. DrvSpec => DrvInit /\ [][DrvNext]_drvVars
  BY DEF DrvSpec
<1> QED BY <1>1, <1>2, <1>3, PTL

(* Every variable keeps its type in every interleaving of nf2c_tx,         *)
(* nf2c_intr and nf2c_tx_timeout, wrong guesses included.                  *)
THEOREM DrvTypeCorrect == DrvSpec => []DrvTypeOK
<1>1. DrvIInv => DrvTypeOK
  BY DEF DrvIInv, DrvBase
<1> QED BY <1>1, DriverInvariant, PTL

(* rd_txbuff, wr_txbuff and free_txbuffs agree, no port is given more      *)
(* credit than its share of the ring and no counter of transfers goes      *)
(* below zero, with the watchdog and the error handler beside nf2c_tx,     *)
(* until one of them clears a transfer that is not its own.                *)
THEOREM RingHolds == DrvSpec => []RingAccounts
<1>1. DrvIInv => RingAccounts
  <2> SUFFICES ASSUME DrvIInv, ~misjudged PROVE RingAccounts
    BY DEF RingAccounts
  <2>1. DrvBase /\ Core
    BY DEF DrvIInv
  <2>2. txp \in Int /\ rxp \in Int
    BY <2>1, DrvTypes DEF DrvBase
  <2>3. txp >= 0
    <3>1. Flight \in {0, 1} /\ Sum \in 0 .. 3 /\ Flight = txp - Sum
      BY <2>1, SumFacts DEF Core, Writes
    <3> QED BY <2>2, <3>1
  <2>4. rxp >= 0
    <3>1. Receipt \in {0, 1} /\ Receipt = rxp - (IF isr.pc = "queued" THEN 1 ELSE 0)
      BY <2>1 DEF Core, Reads, Receipt
    <3> QED BY <2>2, <3>1
  <2> QED BY <2>1, <2>3, <2>4 DEF RingAccounts, Core, Ring
<1> QED BY <1>1, DriverInvariant, PTL

(* The engine reads only the packet at the head of the ring, in a transfer *)
(* that dma_tx_in_progress counts: nf2c_send needs no lock for that.       *)
THEOREM OneTransfer == DrvSpec => []EngineReadsHead
<1>1. DrvIInv => EngineReadsHead
  <2> SUFFICES ASSUME DrvIInv, ~misjudged, hw.wrOwner # Nothing
               PROVE  free # Pool /\ hw.wrOwner = rd /\ txp > 0
    BY DEF EngineReadsHead
  <2>1. DrvBase /\ Writes
    BY DEF DrvIInv, Core
  <2>2. Flight = 1 /\ hw.wrOwner = rd /\ free # Pool
    BY <2>1 DEF Writes
  <2>3. txp > 0
    <3>1. Sum \in 0 .. 3 /\ Flight = txp - Sum /\ txp \in Int
      BY <2>1, SumFacts, DrvTypes DEF DrvBase
    <3> QED BY <2>2, <3>1
  <2> QED BY <2>2, <2>3
<1> QED BY <1>1, DriverInvariant, PTL

(* When no context runs, a transfer that is counted as in progress is one  *)
(* the card is doing, or will report by an interrupt that is not masked.   *)
THEOREM NothingPhantom == DrvSpec => []NoPhantomDma
<1>1. DrvIInv => NoPhantomDma
  <2> SUFFICES ASSUME DrvIInv, ~misjudged, ~InTx, isr.pc = "idle", wd.pc = "idle"
               PROVE  /\ txp > 0 => \/ hw.wrOwner # Nothing
                                    \/ (hw.flags \ hw.mask) \cap {"tx", "err"} # {}
                      /\ rxp > 0 => hw.rdOwner \/ (hw.flags \ hw.mask) \cap {"rx", "err"} # {}
    BY DEF NoPhantomDma
  <2>1. /\ Contexts /\ DrvQuiet /\ Masks /\ Writes /\ Reads /\ txp \in Int /\ rxp \in Int
    BY DrvTypes DEF DrvIInv, DrvBase, Core
  <2>2. /\ snd["tx"] = "off" /\ snd["isr"] = "off" /\ snd["wd"] = "off" /\ isr.status = {}
    BY <2>1 DEF Contexts, InTx
  <2>3. Flight = txp /\ Receipt = rxp
    <3>1. Claims("tx") = 0 /\ Claims("isr") = 0 /\ Claims("wd") = 0
      BY <2>2 DEF Claims
    <3>2. Flight = txp - (0 + 0 + 0) /\ Receipt = rxp - 0
      BY <3>1 DEF Flight, Receipt
    <3> QED BY <2>1, <3>2
  <2>4. ~Cleaning /\ ~Clearing /\ ~Taking /\ ~Resetting
    BY DEF Cleaning, Clearing, Taking, Resetting
  <2>5. ASSUME txp > 0 PROVE up # {} /\ Flight = 1
    BY <2>1, <2>3, <2>5 DEF DrvQuiet, Writes
  <2>6. ASSUME rxp > 0 PROVE up # {} /\ Receipt = 1
    BY <2>1, <2>3, <2>6 DEF DrvQuiet, Reads
  <2>7. up # {} => Unmasked(hw.mask)
    BY <2>1 DEF Masks
  <2>8. ASSUME txp > 0
        PROVE  hw.wrOwner # Nothing \/ (hw.flags \ hw.mask) \cap {"tx", "err"} # {}
    <3>1. hw.wrOwner # Nothing \/ "tx" \in hw.flags \/ "err" \in hw.flags
      BY <2>1, <2>2, <2>4, <2>5, <2>8 DEF Writes
    <3>2. "tx" \notin hw.mask /\ "err" \notin hw.mask
      BY <2>5, <2>7, <2>8 DEF Unmasked
    <3> QED BY <3>1, <3>2
  <2>9. ASSUME rxp > 0
        PROVE  hw.rdOwner \/ (hw.flags \ hw.mask) \cap {"rx", "err"} # {}
    <3>1. hw.rdOwner \/ "rx" \in hw.flags \/ "err" \in hw.flags
      BY <2>1, <2>2, <2>4, <2>6, <2>9 DEF Reads
    <3>2. "rx" \notin hw.mask /\ "err" \notin hw.mask
      BY <2>6, <2>7, <2>9 DEF Unmasked
    <3> QED BY <3>1, <3>2
  <2> QED BY <2>8, <2>9
<1> QED BY <1>1, DriverInvariant, PTL

(* What a failure at f has acquired it gives back, but for the check of    *)
(* the revision, which leaves the device enabled.                          *)
LEMMA UnwindsAll ==
  ASSUME NEW f \in Failures
  PROVE  Before(f) \subseteq Unwinds(f) \cup (IF f = "revision" THEN {"enable"} ELSE {})
<1> USE DEF Failures, Before, Unwinds, Acquired
<1>1. CASE f = "enable"
  BY <1>1
<1>2. CASE f \in {"revision", "mask", "region"}
  BY <1>2
<1>3. CASE f = "card"
  BY <1>3
<1>4. CASE f = "io"
  BY <1>4
<1>5. CASE f = "rxpool"
  BY <1>5
<1>6. CASE f = "txpool"
  BY <1>6
<1>7. CASE f = "ndev"
  BY <1>7
<1> QED BY <1>1, <1>2, <1>3, <1>4, <1>5, <1>6, <1>7

(* Whatever step of nf2_probe or nf2c_probe fails, the device then holds   *)
(* nothing of the driver's; a bound device holds everything, and one of an *)
(* unknown revision stays enabled.                                         *)
THEOREM ProbeUnwinds == DrvSpec => []AbsentHoldsNothing
<1> DEFINE I == pci \in PciRec /\ AbsentHoldsNothing
<1>1. DrvInit => I
  <2> SUFFICES ASSUME DrvInit PROVE I
    OBVIOUS
  <2>1. pci \in PciRec
    BY DEF DrvInit, PciRec
  <2>2. ~pci.bound /\ pci.held = {}
    BY DEF DrvInit
  <2> QED BY <2>1, <2>2 DEF AbsentHoldsNothing
<1>2. I /\ [DrvNext]_drvVars => I'
  <2> SUFFICES ASSUME I, [DrvNext]_drvVars PROVE I'
    OBVIOUS
  <2>1. CASE Probe
    <3>1. /\ ~pci.bound /\ pci \in PciRec
          /\ pci' = [pci EXCEPT !.bound = TRUE, !.held = pci.held \cup Everything]
      BY <2>1 DEF Probe
    <3>2. pci' \in PciRec /\ pci'.bound = TRUE /\ pci'.held = Everything
      BY <3>1 DEF PciRec
    <3> QED BY <3>2 DEF AbsentHoldsNothing
  <2>2. ASSUME NEW f \in Failures, ProbeFails(f) PROVE I'
    <3>1. /\ ~pci.bound /\ pci \in PciRec /\ (f = "enable" \/ (f = "revision" <=> ~pci.known))
          /\ pci' = [pci EXCEPT !.held = (pci.held \cup Before(f)) \ Unwinds(f)]
      BY <2>2 DEF ProbeFails
    <3>2. pci.held \subseteq IF pci.known THEN {} ELSE {"enable"}
      BY <3>1 DEF AbsentHoldsNothing
    <3>3. Before(f) \subseteq Everything
      BY DEF Before, Failures, Acquired, Everything
    <3>4. /\ pci' \in PciRec /\ pci'.bound = pci.bound /\ pci'.known = pci.known
          /\ pci'.held = (pci.held \cup Before(f)) \ Unwinds(f)
      BY <3>1, <3>3 DEF PciRec
    <3>5. CASE pci.known
      <4>1. f # "revision"
        BY <3>1, <3>5
      <4>2. Before(f) \subseteq Unwinds(f)
        BY <4>1, UnwindsAll
      <4> QED BY <3>1, <3>2, <3>4, <3>5, <4>2 DEF AbsentHoldsNothing
    <3>6. CASE ~pci.known
      <4>1. Before(f) \subseteq Unwinds(f) \cup {"enable"}
        BY UnwindsAll
      <4> QED BY <3>1, <3>2, <3>4, <3>6, <4>1 DEF AbsentHoldsNothing
    <3> QED BY <3>5, <3>6
  <2>3. CASE Remove
    <3>1. /\ pci.bound /\ pci \in PciRec
          /\ pci' = [pci EXCEPT !.bound = FALSE, !.held = pci.held \ Everything]
      BY <2>3 DEF Remove
    <3>2. pci.held = Everything
      BY <3>1 DEF AbsentHoldsNothing
    <3>3. pci' \in PciRec /\ pci'.bound = FALSE /\ pci'.held = {}
      BY <3>1, <3>2 DEF PciRec
    <3> QED BY <3>3 DEF AbsentHoldsNothing
  <2>4. ASSUME pci' = pci PROVE I'
    BY <2>4 DEF AbsentHoldsNothing
  <2>5. CASE UNCHANGED drvVars
    BY <2>4, <2>5 DEF drvVars
  <2>6. CASE Hardware
    BY <2>4, <2>6 DEF Hardware, HwArrive, HwRead, HwWrite, HwRoom
  <2>7. ASSUME NEW i \in Ifaces, Open(i) \/ OpenFails(i) \/ Release(i) \/ NfTx(i) \/ WdStart(i)
        PROVE  I'
    BY <2>4, <2>7 DEF Open, OpenFails, Release, NfTx, WdStart
  <2>8. ASSUME NEW p, Send(p) \/ Clear(p) PROVE I'
    <3>1. pci' = pci
      BY <2>8 DEF Send, SendClaim, SendLook, SendBack, Clear, ClearRxLook, ClearRx, ClearTxLook, ClearTx
    <3> QED BY <2>4, <3>1
  <2>9. CASE Isr
    <3>1. CASE Send("isr") \/ Clear("isr")
      BY <2>8, <3>1
    <3>2. CASE IsrEnter \/ IsrQueue \/ IsrQueueEnd \/ IsrRx \/ IsrTx \/ IsrAvail \/ IsrErr \/ IsrExit
      <4>1. pci' = pci
        BY <3>2 DEF IsrEnter, IsrQueue, IsrQueueEnd, IsrRx, IsrTx, IsrAvail, IsrErr, IsrExit
      <4> QED BY <2>4, <4>1
    <3> QED BY <2>9, <3>1, <3>2 DEF Isr
  <2>10. CASE Wd
    BY <2>4, <2>8, <2>10 DEF Wd, WdReset, WdEnd
  <2> HIDE DEF I
  <2> QED BY <2>1, <2>2, <2>3, <2>5, <2>6, <2>7, <2>8, <2>9, <2>10 DEF DrvNext, Control
<1>3. I => AbsentHoldsNothing
  OBVIOUS
<1>4. DrvSpec => DrvInit /\ [][DrvNext]_drvVars
  BY DEF DrvSpec
<1> HIDE DEF I
<1> QED BY <1>1, <1>2, <1>3, <1>4, PTL

-----------------------------------------------------------------------------
(***************************************************************************)
(* Theorems about RegProxy for any programs, bitfiles and sizes.  The      *)
(* hypothesis of those about a download is that all of them go through the *)
(* proxy (no program of the board's own host is nf_download).              *)
(*                                                                         *)
(* The argument: the server answers its first connection only, so whoever  *)
(* was answered at open has the first connection until it ends (Wired).    *)
(* Nobody else then writes to the board, hence its words are the only ones *)
(* in the FIFO once it was found empty (Loading), the Virtex says DONE     *)
(* only of its file, and nothing is undone before the program ends.        *)
(***************************************************************************)

(* Types. *)
Word == Images \X (1 .. Words)
Ios == {"none", "sent", "dead"}
States == [pc : Pcs, io : Ios, sent : 0 .. Words, count : 0 .. Burst - 1,
           tries : 0 .. 2, info : Infos]
Conns == [client : Remote, open : BOOLEAN, asked : BOOLEAN]
Boards == [st : {"idle", "clear", "download"}, fifo : Seq(Word), init : BOOLEAN,
           done : BOOLEAN, cfg : Seq(Word \cup {None})]

(* The sizes: a Virtex that takes words does not have all of them. *)
Sized(b) ==
  /\ Len(b.fifo) <= FifoDepth /\ Len(b.cfg) <= Words
  /\ b.st # "idle" => Len(b.cfg) < Words

(* DONE is high after a whole bitfile only, and nothing is under way then. *)
DoneMeansFile(b) ==
  b.done => b.st = "idle" /\ \E i \in Images : b.cfg = File(i)

(* Who does not download never gets to a step of the download. *)
DownloadPcs == {"reset", "status", "init1", "init2", "word", "poll", "done"}
(* The steps between the answers to open and to close. *)
Holding == DownloadPcs \cup {"prog", "md5", "block", "verdict", "close"}

(* A program's state: it has words left to send when it sends one. *)
Sane(c, s) ==
  /\ s.pc = "word" => s.sent < Words
  /\ s.pc \in DownloadPcs => c \in Downloaders
  /\ s.io = "sent" => s.pc \in Requests
  /\ c \in Local => s.io = "none"

Typed ==
  /\ cl \in [Clients -> States]
  /\ conns \in Seq(Conns)
  /\ board \in Boards /\ Sized(board) /\ DoneMeansFile(board)
  /\ errors \in 0 .. MaxErrors /\ kills \in 0 .. MaxKills
  /\ \A c \in Clients : Sane(c, cl[c])

-----------------------------------------------------------------------------
(* The constants' types. *)
LEMMA Constants ==
  /\ Words \in Nat \ {0} /\ Burst \in Nat \ {0} /\ BlockWords \in Nat \ {0}
  /\ FifoDepth \in Nat \ {0} /\ MaxErrors \in Nat /\ MaxKills \in Nat
  /\ Remote \subseteq Clients /\ Local \subseteq Clients /\ Remote \cap Local = {}
  /\ Downloaders \subseteq Clients
  /\ \A c \in Downloaders : Job[c] \in Images
BY RegProxyAssumption DEF RegProxyAssumption, Clients

(* The state a program starts in. *)
LEMMA FreshTyped == Fresh \in States /\ NoInfo \in Infos
<1>1. NoInfo \in Infos
  BY DEF NoInfo, Infos
<1>2. 0 \in 0 .. Words /\ 0 \in 0 .. Burst - 1
  BY Constants
<1>3. "check" \in Pcs
  BY DEF Pcs, Requests
<1> QED BY <1>1, <1>2, <1>3 DEF Fresh, States, Ios

(* A file is a sequence of words. *)
LEMMA FileTyped ==
  ASSUME NEW i \in Images
  PROVE  /\ File(i) \in Seq(Word) /\ Len(File(i)) = Words
         /\ \A k \in 1 .. Words : File(i)[k] = <<i, k>>
BY Constants DEF File, Word

(* Different bitfiles are different files. *)
LEMMA FilesDiffer ==
  ASSUME NEW i \in Images, NEW j \in Images, File(i) = File(j)
  PROVE  i = j
<1>1. 1 \in 1 .. Words
  BY Constants
<1>2. File(i)[1] = <<i, 1>> /\ File(j)[1] = <<j, 1>>
  BY <1>1, FileTyped
<1> QED BY <1>2

(* Goto of a state. *)
LEMMA GotoTyped ==
  ASSUME NEW s \in States, NEW pc \in Pcs
  PROVE  /\ Goto(s, pc) \in States /\ Goto(s, pc).pc = pc /\ Goto(s, pc).io = s.io
         /\ pc \notin {"exit", "end"} =>
              /\ Goto(s, pc).sent = s.sent /\ Goto(s, pc).count = s.count
              /\ Goto(s, pc).tries = s.tries /\ Goto(s, pc).info = s.info
<1>1. CASE pc \in {"exit", "end"}
  <2>1. Goto(s, pc) = [Fresh EXCEPT !.pc = pc, !.io = s.io]
    BY <1>1 DEF Goto
  <2> QED BY <2>1, <1>1, FreshTyped DEF States
<1>2. CASE pc \notin {"exit", "end"}
  BY <1>2 DEF Goto, States
<1> QED BY <1>1, <1>2

(* Two fields of a program's memory are updated. *)
LEMMA TwoFields ==
  ASSUME NEW A, NEW B, NEW C, NEW D, NEW E, NEW F,
         NEW s \in [pc : A, io : B, sent : C, count : D, tries : E, info : F],
         NEW x \in C, NEW y \in D, NEW z \in E
  PROVE  /\ [s EXCEPT !.tries = z, !.count = y]
              \in [pc : A, io : B, sent : C, count : D, tries : E, info : F]
         /\ [s EXCEPT !.sent = x, !.tries = z]
              \in [pc : A, io : B, sent : C, count : D, tries : E, info : F]
  OBVIOUS

LEMMA NextWordTyped ==
  ASSUME NEW s \in States
  PROVE  /\ NextWord(s) \in States /\ NextWord(s).io = s.io
         /\ NextWord(s).pc = (IF s.sent = Words THEN "done" ELSE "word")
         /\ NextWord(s).sent = s.sent /\ NextWord(s).info = s.info
         /\ s.sent # Words => NextWord(s).count = s.count
         /\ NextWord(s).pc = "word" => NextWord(s).sent < Words
<1> DEFINE t == [s EXCEPT !.tries = 0, !.count = 0]
           u == [s EXCEPT !.tries = 0]
<1>0. 0 \in 0 .. Burst - 1 /\ 0 \in 0 .. Words /\ 0 \in 0 .. 2
  BY Constants
<1>1. t \in States /\ t.io = s.io /\ t.sent = s.sent /\ t.info = s.info
  <2>1. t \in States
    BY <1>0, TwoFields DEF States
  <2> QED BY <2>1 DEF States
<1>2. u \in States /\ u.io = s.io /\ u.sent = s.sent /\ u.info = s.info /\ u.count = s.count
  BY Constants DEF States
<1>3. NextWord(s) = IF s.sent = Words THEN Goto(t, "done") ELSE Goto(u, "word")
  BY DEF NextWord
<1>4. "done" \in Pcs /\ "word" \in Pcs
  BY DEF Pcs, Requests, Accesses
<1> HIDE DEF t, u
<1>5. CASE s.sent = Words
  BY <1>1, <1>3, <1>4, <1>5, GotoTyped
<1>6. CASE s.sent # Words
  <2>1. s.sent < Words
    BY <1>6, Constants DEF States
  <2> QED BY <2>1, <1>2, <1>3, <1>4, <1>6, GotoTyped
<1> QED BY <1>5, <1>6

(* A word was sent: the next one, the look at the FIFO or the end. *)
LEMMA WordSentTyped ==
  ASSUME NEW s \in States, s.sent < Words
  PROVE  /\ WordSent(s) \in States /\ WordSent(s).io = s.io
         /\ WordSent(s).sent = s.sent + 1 /\ WordSent(s).info = s.info
         /\ WordSent(s).pc = (IF s.count + 1 = Burst THEN "poll"
                              ELSE IF s.sent + 1 = Words THEN "done" ELSE "word")
         /\ WordSent(s).pc # "done" =>
              WordSent(s).count = IF (s.sent + 1) % BlockWords = 0 THEN 0
                                  ELSE (s.count + 1) % Burst
<1> DEFINE n == IF (s.sent + 1) % BlockWords = 0 THEN 0 ELSE (s.count + 1) % Burst
           t == [s EXCEPT !.sent = @ + 1, !.count = n]
<1>1. s.sent \in 0 .. Words /\ s.count \in 0 .. Burst - 1
  BY DEF States
<1>2. n \in 0 .. Burst - 1
  BY <1>1, Constants
<1>3. s.sent + 1 \in 0 .. Words
  BY <1>1, Constants
<1> HIDE DEF n
<1>4. t \in States /\ t.io = s.io /\ t.sent = s.sent + 1 /\ t.info = s.info /\ t.count = n
  BY <1>2, <1>3 DEF States
<1>5. WordSent(s) = IF s.count + 1 = Burst THEN Goto(t, "poll") ELSE NextWord(t)
  BY DEF WordSent, n
<1>6. "poll" \in Pcs
  BY DEF Pcs, Requests, Accesses
<1> HIDE DEF t
<1>7. CASE s.count + 1 = Burst
  BY <1>4, <1>5, <1>6, <1>7, GotoTyped DEF n
<1>8. CASE s.count + 1 # Burst
  <2>1. WordSent(s) = NextWord(t)
    BY <1>5, <1>8
  <2> QED BY <2>1, <1>4, <1>8, NextWordTyped DEF n
<1> QED BY <1>7, <1>8

(* What the Virtex can tell about itself. *)
LEMMA LoadedTyped ==
  ASSUME NEW b \in Boards, DoneMeansFile(b)
  PROVE  /\ b.done => Loaded(b) \in Images /\ b.cfg = File(Loaded(b))
         /\ ~b.done => Loaded(b) = None
BY DEF Loaded, DoneMeansFile

LEMMA IdBlockTyped ==
  ASSUME NEW b \in Boards, DoneMeansFile(b), NEW ok \in BOOLEAN
  PROVE  LET block == IF ok THEN IdBlock(b) ELSE NoBlock
         IN  /\ block.mod \in 0 .. 2 /\ block.ver \in Int
             /\ block.cpci \in {i.cpci : i \in Images} \cup {None}
             /\ block.dir \in {i.dir : i \in Images} \cup {None}
<1>1. /\ NoBlock.mod \in 0 .. 2 /\ NoBlock.ver \in Int
      /\ NoBlock.cpci = None /\ NoBlock.dir = None
  BY DEF NoBlock
<1>2. ASSUME NEW i \in Images
      PROVE  /\ i.mod \in 0 .. 2 /\ i.ver \in Int
             /\ i.cpci \in {j.cpci : j \in Images} /\ i.dir \in {j.dir : j \in Images}
  BY RegProxyAssumption DEF RegProxyAssumption
<1>3. IdBlock(b) = NoBlock \/ IdBlock(b) \in Images
  BY LoadedTyped DEF IdBlock
<1> QED BY <1>1, <1>2, <1>3

(* What the status st leads to from state s: state t. *)
StatusStep(s, st, t) ==
  /\ t \in States /\ t.io = s.io
  /\ t.pc # "exit" => t.info = s.info
  /\ t.pc = "word" => t.sent < Words
  /\ t.pc \notin {"exit", "prog"} => t.sent = s.sent
  /\ t.pc \in {"init1", "init2", "word", "poll"} => t.count = s.count
  /\ t.pc = "done" /\ s.pc # "done" => s.sent = Words
  /\ CASE s.pc = "status" -> t.pc = "exit" \/ (t.pc = "init1" /\ ~st.done /\ st.empty)
       [] s.pc = "init1" -> t.pc \in {"init2", "word", "done"}
       [] s.pc = "init2" -> t.pc \in {"init1", "word", "done", "exit"}
       [] s.pc = "poll" -> \/ t.pc \in {"poll", "exit", "done"}
                           \/ t.pc = "word" /\ (st.done \/ st.empty)
       [] s.pc = "done" -> t.pc \in {"done", "exit"} \/ (t.pc = "prog" /\ st.done)

LEMMA AfterStatusTyped ==
  ASSUME NEW s \in States, NEW st,
         s.pc \in {"status", "init1", "init2", "poll", "done"}
  PROVE  StatusStep(s, st, AfterStatus(s, st))
<1>t. PICK t : t = AfterStatus(s, st)
  OBVIOUS
<1> SUFFICES StatusStep(s, st, t)
  BY <1>t
<1>0. {"exit", "init1", "init2", "poll", "done", "prog", "word"} \subseteq Pcs
  BY DEF Pcs, Requests, Accesses
<1>1. s.sent \in 0 .. Words /\ s.tries \in 0 .. 2
  BY DEF States
<1>2. CASE s.pc = "status"
  <2>1. t = Goto(s, IF st.done \/ ~st.empty THEN "exit" ELSE "init1")
    BY <1>2, <1>t DEF AfterStatus
  <2>2. CASE st.done \/ ~st.empty
    BY <2>1, <2>2, <1>2, <1>0, GotoTyped DEF StatusStep
  <2>3. CASE ~st.done /\ st.empty
    BY <2>1, <2>3, <1>2, <1>0, GotoTyped DEF StatusStep
  <2> QED BY <2>2, <2>3
<1>3. CASE s.pc = "init1"
  <2>1. t = IF st.init \/ st.empty THEN Goto(s, "init2") ELSE NextWord(s)
    BY <1>3, <1>t DEF AfterStatus
  <2>2. CASE st.init \/ st.empty
    BY <2>1, <2>2, <1>3, <1>0, GotoTyped DEF StatusStep
  <2>3. CASE ~(st.init \/ st.empty)
    BY <2>1, <2>3, <1>3, <1>1, NextWordTyped DEF StatusStep
  <2> QED BY <2>2, <2>3
<1> DEFINE u == [s EXCEPT !.tries = @ + 1]
<1>4. s.tries # 2 => u \in States /\ u.io = s.io /\ u.sent = s.sent /\ u.count = s.count /\ u.info = s.info
  <2>1. s.tries # 2 => s.tries + 1 \in 0 .. 2
    BY <1>1
  <2> QED BY <2>1 DEF States
<1>5. Goto(u, "exit") = Goto(s, "exit")
  BY DEF Goto, States
<1> HIDE DEF u
<1>6. CASE s.pc = "init2"
  <2>1. t = IF ~st.init THEN NextWord(s)
            ELSE Goto(u, IF s.tries = 2 THEN "exit" ELSE "init1")
    BY <1>6, <1>t DEF AfterStatus, u
  <2>2. CASE ~st.init
    BY <2>1, <2>2, <1>6, <1>1, NextWordTyped DEF StatusStep
  <2>3. CASE st.init /\ s.tries = 2
    <3>1. t = Goto(s, "exit")
      BY <2>1, <2>3, <1>5
    <3> QED BY <3>1, <1>6, <1>0, GotoTyped DEF StatusStep
  <2>4. CASE st.init /\ s.tries # 2
    BY <2>1, <2>4, <1>6, <1>0, <1>4, GotoTyped DEF StatusStep
  <2> QED BY <2>2, <2>3, <2>4
<1>7. CASE s.pc = "poll"
  <2>1. t = IF st.done \/ (~st.init /\ st.empty) THEN NextWord(s)
            ELSE Goto(s, IF st.init THEN "exit" ELSE "poll")
    BY <1>7, <1>t DEF AfterStatus
  <2>2. CASE st.done \/ (~st.init /\ st.empty)
    BY <2>1, <2>2, <1>7, <1>1, NextWordTyped DEF StatusStep
  <2>3. CASE ~(st.done \/ (~st.init /\ st.empty))
    BY <2>1, <2>3, <1>7, <1>0, GotoTyped DEF StatusStep
  <2> QED BY <2>2, <2>3
<1>8. CASE s.pc = "done"
  <2> DEFINE v == [s EXCEPT !.sent = 0, !.tries = 0]
  <2>1. t = IF st.done THEN Goto(v, "prog")
            ELSE Goto(u, IF st.init \/ s.tries = 2 THEN "exit" ELSE "done")
    BY <1>8, <1>t DEF AfterStatus, AfterDone, u
  <2>0. 0 \in 0 .. Burst - 1 /\ 0 \in 0 .. Words /\ 0 \in 0 .. 2
    BY Constants
  <2>2. v \in States /\ v.io = s.io /\ v.info = s.info
    <3>1. v \in States
      BY <2>0, TwoFields DEF States
    <3> QED BY <3>1 DEF States
  <2> HIDE DEF v
  <2>3. CASE st.done
    BY <2>1, <2>2, <2>3, <1>8, <1>0, GotoTyped DEF StatusStep
  <2>4. CASE ~st.done /\ (st.init \/ s.tries = 2)
    <3>1. t = Goto(s, "exit")
      BY <2>1, <2>4, <1>5
    <3> QED BY <3>1, <1>8, <1>0, GotoTyped DEF StatusStep
  <2>5. CASE ~st.done /\ ~(st.init \/ s.tries = 2)
    BY <2>1, <2>5, <1>8, <1>0, <1>4, GotoTyped DEF StatusStep
  <2> QED BY <2>3, <2>4, <2>5
<1> QED BY <1>t, <1>2, <1>3, <1>6, <1>7, <1>8

(* What the device information leads to. *)
LEMMA AfterInfoTyped ==
  ASSUME NEW s \in States, NEW st, NEW block, st.done \in BOOLEAN,
         block.mod \in 0 .. 2, block.ver \in Int,
         block.cpci \in {i.cpci : i \in Images} \cup {None},
         block.dir \in {i.dir : i \in Images} \cup {None},
         s.pc \in {"prog", "md5", "block"}
  PROVE  LET t == AfterInfo(s, st, block)
         IN  /\ t \in States /\ t.io = s.io
             /\ s.pc = "prog" => /\ t.pc = "md5"
                                 /\ t.info.prog = st.done /\ t.info.mine = CpciVersion
             /\ s.pc = "md5" =>  /\ t.pc = (IF block.mod = 0 THEN "verdict" ELSE "block")
                                 /\ t.info.prog = s.info.prog /\ t.info.mine = s.info.mine
                                 /\ t.info.mod = block.mod
             /\ s.pc = "block" => /\ t.pc = "verdict"
                                  /\ t.info.prog = s.info.prog /\ t.info.mine = s.info.mine
                                  /\ t.info.mod = s.info.mod /\ t.info.ver = block.ver
                                  /\ t.info.cpci = block.cpci /\ t.info.dir = block.dir
<1>0. {"md5", "verdict", "block"} \subseteq Pcs
  BY DEF Pcs, Requests, Accesses
<1>1. s.info \in Infos
  BY DEF States
<1>2. CASE s.pc = "prog"
  <2> DEFINE j == [s.info EXCEPT !.mine = CpciVersion, !.prog = st.done]
             u == [s EXCEPT !.info = j]
  <2>1. j \in Infos /\ j.prog = st.done /\ j.mine = CpciVersion
    BY <1>1 DEF Infos
  <2>2. AfterInfo(s, st, block) = Goto(u, "md5")
    BY <1>2, <1>1 DEF AfterInfo, States, Infos
  <2> HIDE DEF j
  <2>3. u \in States /\ u.io = s.io /\ u.info = j
    BY <2>1 DEF States
  <2> HIDE DEF u
  <2> QED BY <2>1, <2>2, <2>3, <1>0, <1>2, GotoTyped
<1>3. CASE s.pc = "md5"
  <2> DEFINE j == [s.info EXCEPT !.mod = block.mod]
             u == [s EXCEPT !.info = j]
  <2>1. j \in Infos /\ j.prog = s.info.prog /\ j.mine = s.info.mine /\ j.mod = block.mod
    BY <1>1 DEF Infos
  <2>2. AfterInfo(s, st, block) = Goto(u, IF block.mod = 0 THEN "verdict" ELSE "block")
    BY <1>3, <1>1 DEF AfterInfo, States, Infos
  <2> HIDE DEF j
  <2>3. u \in States /\ u.io = s.io /\ u.info = j
    BY <2>1 DEF States
  <2> HIDE DEF u
  <2> QED BY <2>1, <2>2, <2>3, <1>0, <1>3, GotoTyped
<1>4. CASE s.pc = "block"
  <2> DEFINE j == [s.info EXCEPT !.ver = block.ver, !.cpci = block.cpci, !.dir = block.dir]
             u == [s EXCEPT !.info = j]
  <2>1. /\ j \in Infos /\ j.prog = s.info.prog /\ j.mine = s.info.mine /\ j.mod = s.info.mod
        /\ j.ver = block.ver /\ j.cpci = block.cpci /\ j.dir = block.dir
    BY <1>1 DEF Infos
  <2>2. AfterInfo(s, st, block) = Goto(u, "verdict")
    BY <1>4, <1>1 DEF AfterInfo, States, Infos
  <2> HIDE DEF j
  <2>3. u \in States /\ u.io = s.io /\ u.info = j
    BY <2>1 DEF States
  <2> HIDE DEF u
  <2>4. /\ Goto(u, "verdict") \in States /\ Goto(u, "verdict").pc = "verdict"
        /\ Goto(u, "verdict").io = u.io /\ Goto(u, "verdict").info = u.info
    BY <2>3, <1>0, GotoTyped
  <2> QED BY <2>1, <2>2, <2>3, <2>4, <1>4
<1> QED BY <1>2, <1>3, <1>4

(* The answers a program gets from board b. *)
StatusOf(b, ok) == IF ok THEN Status(b) ELSE BadStatus
BlockOf(b, ok) == IF ok THEN IdBlock(b) ELSE NoBlock

(* What an answer of board b leads to from state s: state t. *)
AnswerStep(c, s, b, ok, t) ==
  /\ t \in States /\ t.io = s.io
  /\ t.pc = "word" => t.sent < Words
  /\ t.pc \in DownloadPcs => c \in Downloaders
  /\ s.pc \in Holding => t.pc \in (Holding \cup {"exit", "end"})
  /\ s.pc = "check" => t.pc \in {"open", "exit"}
  /\ s.pc = "open" => t.pc = (IF c \in Downloaders THEN "reset" ELSE "prog")
  /\ s.pc = "reset" => t.pc = "status"
  /\ s.pc \in {"check", "open", "reset"} /\ t.pc # "exit" => t.sent = s.sent /\ t.count = s.count
  /\ s.pc = "word" => t = WordSent(s)
  /\ s.pc = "close" => t.pc = "end"
  /\ s.pc \in {"prog", "md5", "block"} => t = AfterInfo(s, StatusOf(b, ok), BlockOf(b, ok))
  /\ s.pc \in {"status", "init1", "init2", "poll", "done"} => StatusStep(s, StatusOf(b, ok), t)

LEMMA AfterTyped ==
  ASSUME NEW c \in Clients, NEW s \in States, Sane(c, s), s.pc \in Requests,
         NEW b \in Boards, DoneMeansFile(b), NEW ok \in BOOLEAN
  PROVE  AnswerStep(c, s, b, ok, After(c, s, b, ok))
<1>t. PICK t : t = After(c, s, b, ok)
  OBVIOUS
<1> SUFFICES AnswerStep(c, s, b, ok, t)
  BY <1>t
<1>0. {"open", "exit", "reset", "prog", "status", "end"} \subseteq Pcs
  BY DEF Pcs, Requests, Accesses
<1>1. CASE s.pc = "check"
  <2>1. t = Goto(s, IF Iface[c] < NumCards THEN "open" ELSE "exit")
    BY <1>1, <1>t DEF After
  <2>2. CASE Iface[c] < NumCards
    BY <2>1, <2>2, <1>0, <1>1, GotoTyped DEF AnswerStep, DownloadPcs, Holding
  <2>3. CASE ~(Iface[c] < NumCards)
    BY <2>1, <2>3, <1>0, <1>1, GotoTyped DEF AnswerStep, DownloadPcs, Holding
  <2> QED BY <2>2, <2>3
<1>2. CASE s.pc = "open"
  <2>1. t = Goto(s, IF c \in Downloaders THEN "reset" ELSE "prog")
    BY <1>2, <1>t DEF After
  <2>2. CASE c \in Downloaders
    BY <2>1, <2>2, <1>0, <1>2, GotoTyped DEF AnswerStep, DownloadPcs, Holding
  <2>3. CASE c \notin Downloaders
    BY <2>1, <2>3, <1>0, <1>2, GotoTyped DEF AnswerStep, DownloadPcs, Holding
  <2> QED BY <2>2, <2>3
<1>3. CASE s.pc = "reset"
  <2>1. t = Goto(s, "status")
    BY <1>3, <1>t DEF After
  <2> QED BY <2>1, <1>0, <1>3, GotoTyped DEF AnswerStep, DownloadPcs, Holding, Sane
<1>4. CASE s.pc = "close"
  <2>1. t = Goto(s, "end")
    BY <1>4, <1>t DEF After
  <2> QED BY <2>1, <1>0, <1>4, GotoTyped DEF AnswerStep, DownloadPcs, Holding
<1>5. CASE s.pc = "word"
  <2>1. t = WordSent(s) /\ s.sent < Words /\ c \in Downloaders
    BY <1>5, <1>t DEF After, Sane, DownloadPcs
  <2>2. /\ t \in States /\ t.io = s.io /\ t.pc \in {"poll", "done", "word"}
        /\ t.pc = "word" => t.sent < Words
    <3>1. s.sent \in 0 .. Words
      BY DEF States
    <3>2. s.sent + 1 # Words => s.sent + 1 < Words
      BY <2>1, <3>1, Constants
    <3> QED BY <2>1, <3>2, WordSentTyped
  <2> QED BY <2>1, <2>2, <1>5 DEF AnswerStep, DownloadPcs, Holding
<1>6. CASE s.pc \in {"prog", "md5", "block"}
  <2> DEFINE st == StatusOf(b, ok)
             block == BlockOf(b, ok)
  <2>1. t = AfterInfo(s, st, block)
    BY <1>6, <1>t DEF After, StatusOf, BlockOf
  <2>2. st.done \in BOOLEAN
    BY DEF StatusOf, Status, BadStatus, Boards
  <2>3. /\ block.mod \in 0 .. 2 /\ block.ver \in Int
        /\ block.cpci \in {i.cpci : i \in Images} \cup {None}
        /\ block.dir \in {i.dir : i \in Images} \cup {None}
    BY IdBlockTyped DEF BlockOf
  <2> HIDE DEF st, block
  <2>4. t \in States /\ t.io = s.io /\ t.pc \in {"md5", "block", "verdict"}
    BY <2>1, <2>2, <2>3, <1>6, AfterInfoTyped
  <2> QED BY <2>1, <2>4, <1>6 DEF AnswerStep, DownloadPcs, Holding, st, block
<1>7. CASE s.pc \in {"status", "init1", "init2", "poll", "done"}
  <2> DEFINE st == StatusOf(b, ok)
  <2>1. t = AfterStatus(s, st)
    BY <1>7, <1>t DEF After, StatusOf
  <2>2. StatusStep(s, st, t)
    BY <2>1, <1>7, AfterStatusTyped
  <2> HIDE DEF st
  <2>3. /\ t \in States /\ t.io = s.io /\ (t.pc = "word" => t.sent < Words)
        /\ t.pc \in {"exit", "init1", "init2", "word", "poll", "done", "prog"}
    BY <2>2, <1>7 DEF StatusStep
  <2>4. c \in Downloaders
    BY <1>7 DEF Sane, DownloadPcs
  <2> QED BY <2>2, <2>3, <2>4, <1>7 DEF AnswerStep, DownloadPcs, Holding, st
<1> QED BY <1>1, <1>2, <1>3, <1>4, <1>5, <1>6, <1>7 DEF Requests, Accesses

-----------------------------------------------------------------------------
(* Fields of the board are updated. *)
LEMMA BoardFields ==
  ASSUME NEW A, NEW B, NEW C, NEW D, NEW E,
         NEW b \in [st : A, fifo : B, init : C, done : D, cfg : E],
         NEW x \in A, NEW f \in B, NEW i \in C, NEW d \in D, NEW g \in E
  PROVE  /\ LET r == [b EXCEPT !.fifo = f, !.st = x, !.init = i, !.done = d, !.cfg = g]
            IN  /\ r \in [st : A, fifo : B, init : C, done : D, cfg : E]
                /\ r.st = x /\ r.fifo = f /\ r.init = i /\ r.done = d /\ r.cfg = g
         /\ LET r == [b EXCEPT !.fifo = f, !.cfg = g]
            IN  /\ r \in [st : A, fifo : B, init : C, done : D, cfg : E]
                /\ r.st = b.st /\ r.fifo = f /\ r.init = b.init /\ r.done = b.done /\ r.cfg = g
  OBVIOUS

(* The programming interface keeps its types and sizes. *)
LEMMA ResetTyped ==
  ASSUME NEW b \in Boards
  PROVE  LET r == ProgReset(b)
         IN  /\ r \in Boards /\ Sized(r) /\ DoneMeansFile(r)
             /\ r.fifo = << >> /\ r.cfg = << >> /\ ~r.done /\ r.st = "clear"
<1>r. PICK r : r = ProgReset(b)
  OBVIOUS
<1>1. << >> \in Seq(Word) /\ << >> \in Seq(Word \cup {None}) /\ TRUE \in BOOLEAN /\ FALSE \in BOOLEAN
  OBVIOUS
<1>2. /\ r \in Boards /\ r.fifo = << >> /\ r.cfg = << >> /\ r.done = FALSE /\ r.st = "clear"
  BY <1>1, <1>r, BoardFields DEF ProgReset, Boards
<1>3. Sized(r) /\ DoneMeansFile(r)
  BY <1>2, Constants DEF Sized, DoneMeansFile
<1> QED BY <1>r, <1>2, <1>3

LEMMA DataTyped ==
  ASSUME NEW b \in Boards, Sized(b), DoneMeansFile(b), NEW w \in Word
  PROVE  LET d == ProgData(b, w)
         IN  /\ d \in Boards /\ Sized(d) /\ DoneMeansFile(d)
             /\ d.fifo = (IF Len(b.fifo) = FifoDepth THEN << >> ELSE Append(b.fifo, w))
             /\ d.cfg = b.cfg /\ d.done = b.done /\ d.st = b.st
<1> DEFINE f == IF Len(b.fifo) = FifoDepth THEN << >> ELSE Append(b.fifo, w)
           d == [b EXCEPT !.fifo = f]
<1>1. b.fifo \in Seq(Word) /\ Len(b.fifo) \in Nat /\ Len(b.fifo) <= FifoDepth
  BY DEF Boards, Sized
<1>2. f \in Seq(Word) /\ Len(f) <= FifoDepth
  BY <1>1, Constants, AppendProperties
<1>3. ProgData(b, w) = d
  BY DEF ProgData, Boards
<1> HIDE DEF f
<1>4. d \in Boards /\ d.fifo = f /\ d.cfg = b.cfg /\ d.done = b.done /\ d.st = b.st
  BY <1>2 DEF Boards
<1>5. Sized(d) /\ DoneMeansFile(d)
  BY <1>2, <1>4 DEF Sized, DoneMeansFile
<1> QED BY <1>3, <1>4, <1>5 DEF f

(* A word goes to the Virtex: it is one of a bitfile, the last of one, or  *)
(* the end of something that is no bitfile.                                *)
LEMMA ShiftTyped ==
  ASSUME NEW b \in Boards, Sized(b), DoneMeansFile(b), NEW w \in Word \cup {None},
         b.st = "download", b.fifo # << >>
  PROVE  LET r == Configured([b EXCEPT !.fifo = Tail(@), !.cfg = Append(@, w)])
         IN  /\ r \in Boards /\ Sized(r) /\ DoneMeansFile(r)
             /\ \/ ~r.done /\ r.fifo = Tail(b.fifo) /\ r.cfg = Append(b.cfg, w)
                \/ r.done /\ r.fifo = Tail(b.fifo) /\ r.cfg = Append(b.cfg, w)
                \/ /\ ~r.done /\ r.fifo = << >> /\ r.cfg = << >>
                   /\ Len(Append(b.cfg, w)) = Words
                   /\ \A i \in Images : Append(b.cfg, w) # File(i)
<1> DEFINE f == Tail(b.fifo)
           g == Append(b.cfg, w)
           e == [b EXCEPT !.fifo = f, !.cfg = g]
<1>1. /\ b.fifo \in Seq(Word) /\ Len(b.fifo) \in Nat /\ Len(b.fifo) <= FifoDepth
      /\ b.cfg \in Seq(Word \cup {None}) /\ Len(b.cfg) \in Nat /\ Len(b.cfg) < Words
  BY DEF Boards, Sized
<1>2. f \in Seq(Word) /\ Len(f) <= FifoDepth
  BY <1>1, Constants, HeadTailProperties
<1>3. g \in Seq(Word \cup {None}) /\ Len(g) = Len(b.cfg) + 1
  BY <1>1, AppendProperties
<1>4. Len(g) <= Words
  BY <1>1, <1>3, Constants
<1>5. ~b.done
  BY DEF DoneMeansFile
<1> HIDE DEF f, g
<1>7. e \in Boards /\ e.fifo = f /\ e.cfg = g /\ e.st = "download" /\ ~e.done
  <2>1. b.init \in BOOLEAN /\ b.done \in BOOLEAN
    BY DEF Boards
  <2> QED BY <2>1, <1>2, <1>3, <1>5, BoardFields DEF Boards
<1>r. PICK r : r = Configured([b EXCEPT !.fifo = Tail(@), !.cfg = Append(@, w)])
  OBVIOUS
<1>8. r = Configured(e)
  BY <1>r DEF f, g, Boards
<1> HIDE DEF e
<1>9. SUFFICES /\ r \in Boards /\ Sized(r) /\ DoneMeansFile(r)
               /\ \/ ~r.done /\ r.fifo = f /\ r.cfg = g
                  \/ r.done /\ r.fifo = f /\ r.cfg = g
                  \/ /\ ~r.done /\ r.fifo = << >> /\ r.cfg = << >>
                     /\ Len(g) = Words
                     /\ \A i \in Images : g # File(i)
  BY <1>r DEF f, g
<1>10. CASE Len(g) < Words
  <2>1. r = e
    BY <1>8, <1>7, <1>10 DEF Configured
  <2> QED BY <2>1, <1>7, <1>2, <1>4, <1>10 DEF Sized, DoneMeansFile
<1>11. CASE ~(Len(g) < Words) /\ \E i \in Images : g = File(i)
  <2>1. r = [e EXCEPT !.done = TRUE, !.st = "idle"]
    BY <1>8, <1>7, <1>11 DEF Configured
  <2>2. /\ r \in Boards /\ r.fifo = f /\ r.cfg = g /\ r.done = TRUE /\ r.st = "idle"
    BY <2>1, <1>7 DEF Boards
  <2> QED BY <2>2, <1>2, <1>4, <1>11 DEF Sized, DoneMeansFile
<1>12. CASE ~(Len(g) < Words) /\ ~\E i \in Images : g = File(i)
  <2>1. r = ProgReset(e)
    BY <1>8, <1>7, <1>12 DEF Configured
  <2>2. Len(g) = Words
    BY <1>12, <1>4, <1>3, <1>1, Constants
  <2> QED BY <2>1, <2>2, <1>7, <1>12, ResetTyped
<1> QED BY <1>10, <1>11, <1>12

(* A word of a program's file. *)
LEMMA NextWordOfFile ==
  ASSUME NEW c \in Clients, NEW s \in States, Sane(c, s), s.pc = "word"
  PROVE  /\ c \in Downloaders /\ Job[c] \in Images
         /\ s.sent + 1 \in 1 .. Words
         /\ File(Job[c])[s.sent + 1] = <<Job[c], s.sent + 1>>
         /\ File(Job[c])[s.sent + 1] \in Word
<1>1. c \in Downloaders /\ s.sent < Words /\ s.sent \in 0 .. Words
  BY DEF Sane, DownloadPcs, States
<1>2. Job[c] \in Images /\ s.sent + 1 \in 1 .. Words
  BY <1>1, Constants
<1>3. File(Job[c])[s.sent + 1] = <<Job[c], s.sent + 1>>
  BY <1>2, FileTyped
<1> QED BY <1>1, <1>2, <1>3 DEF Word

LEMMA EffectTyped ==
  ASSUME NEW c \in Clients, NEW s \in States, Sane(c, s),
         NEW b \in Boards, Sized(b), DoneMeansFile(b)
  PROVE  LET e == Effect(c, s, b)
         IN  /\ e \in Boards /\ Sized(e) /\ DoneMeansFile(e)
             /\ s.pc = "reset" => e = ProgReset(b)
             /\ s.pc = "word" => e = ProgData(b, <<Job[c], s.sent + 1>>)
             /\ s.pc \notin {"reset", "word"} => e = b
<1>1. CASE s.pc = "reset"
  <2>1. Effect(c, s, b) = ProgReset(b)
    BY <1>1 DEF Effect
  <2> QED BY <2>1, <1>1, ResetTyped
<1>2. CASE s.pc = "word"
  <2>1. Effect(c, s, b) = ProgData(b, <<Job[c], s.sent + 1>>)
    BY <1>2, NextWordOfFile DEF Effect
  <2>2. <<Job[c], s.sent + 1>> \in Word
    BY <1>2, NextWordOfFile
  <2> QED BY <2>1, <2>2, <1>2, DataTyped
<1>3. CASE s.pc \notin {"reset", "word"}
  BY <1>3 DEF Effect
<1> QED BY <1>1, <1>2, <1>3

-----------------------------------------------------------------------------
(* A function on 1 .. n is a sequence. *)
LEMMA FunctionSeq ==
  ASSUME NEW S, NEW n \in Nat, NEW f \in [1 .. n -> S]
  PROVE  f \in Seq(S) /\ Len(f) = n
  OBVIOUS

(* The server's connections. *)
LEMMA HungTyped ==
  ASSUME NEW q \in Seq(Conns), NEW c
  PROVE  /\ Hung(q, c) \in Seq(Conns) /\ Len(Hung(q, c)) = Len(q)
         /\ \A k \in 1 .. Len(q) :
              /\ Hung(q, c)[k].client = q[k].client /\ Hung(q, c)[k].asked = q[k].asked
              /\ q[k].client = c => Hung(q, c)[k].open = FALSE
              /\ q[k].client # c => Hung(q, c)[k].open = q[k].open
<1> DEFINE n == Len(q)
           e(k) == IF q[k].client = c THEN [q[k] EXCEPT !.open = FALSE] ELSE q[k]
<1>1. n \in Nat
  BY LenProperties
<1>2. ASSUME NEW k \in 1 .. n
      PROVE  /\ e(k) \in Conns /\ e(k).client = q[k].client /\ e(k).asked = q[k].asked
             /\ q[k].client = c => e(k).open = FALSE
             /\ q[k].client # c => e(k).open = q[k].open
  <2>1. q[k] \in Conns
    BY ElementOfSeq
  <2> QED BY <2>1 DEF Conns
<1>3. Hung(q, c) = [k \in 1 .. n |-> e(k)]
  BY DEF Hung
<1> HIDE DEF n, e
<1>4. [k \in 1 .. n |-> e(k)] \in Seq(Conns) /\ Len([k \in 1 .. n |-> e(k)]) = n
  <2>1. [k \in 1 .. n |-> e(k)] \in [1 .. n -> Conns]
    BY <1>2
  <2> QED BY <2>1, <1>1, FunctionSeq
<1>5. \A k \in 1 .. n : [j \in 1 .. n |-> e(j)][k] = e(k)
  OBVIOUS
<1> QED BY <1>2, <1>3, <1>4, <1>5 DEF n

(* A request on the connection that is open. *)
AskedOn(q, c) == [k \in 1 .. Len(q) |-> IF q[k].client = c /\ q[k].open
                                       THEN [q[k] EXCEPT !.asked = TRUE] ELSE q[k]]

LEMMA AskedTyped ==
  ASSUME NEW q \in Seq(Conns), NEW c
  PROVE  /\ AskedOn(q, c) \in Seq(Conns) /\ Len(AskedOn(q, c)) = Len(q)
         /\ \A k \in 1 .. Len(q) :
              /\ AskedOn(q, c)[k].client = q[k].client /\ AskedOn(q, c)[k].open = q[k].open
              /\ AskedOn(q, c)[k].asked = (IF q[k].client = c /\ q[k].open THEN TRUE
                                           ELSE q[k].asked)
<1> DEFINE n == Len(q)
           e(k) == IF q[k].client = c /\ q[k].open THEN [q[k] EXCEPT !.asked = TRUE] ELSE q[k]
<1>1. n \in Nat
  BY LenProperties
<1>2. ASSUME NEW k \in 1 .. n
      PROVE  /\ e(k) \in Conns /\ e(k).client = q[k].client /\ e(k).open = q[k].open
             /\ e(k).asked = (IF q[k].client = c /\ q[k].open THEN TRUE ELSE q[k].asked)
  <2>1. q[k] \in Conns
    BY ElementOfSeq
  <2> QED BY <2>1 DEF Conns
<1>3. AskedOn(q, c) = [k \in 1 .. n |-> e(k)]
  BY DEF AskedOn
<1> HIDE DEF n, e
<1>4. [k \in 1 .. n |-> e(k)] \in Seq(Conns) /\ Len([k \in 1 .. n |-> e(k)]) = n
  <2>1. [k \in 1 .. n |-> e(k)] \in [1 .. n -> Conns]
    BY <1>2
  <2> QED BY <2>1, <1>1, FunctionSeq
<1>5. \A k \in 1 .. n : [j \in 1 .. n |-> e(j)][k] = e(k)
  OBVIOUS
<1> QED BY <1>2, <1>3, <1>4, <1>5 DEF n

LEMMA AnsweredTyped ==
  ASSUME NEW q \in Seq(Conns), q # << >>, NEW pc
  PROVE  /\ Answered(q, pc) \in Seq(Conns)
         /\ pc = "close" => Answered(q, pc) = Tail(q)
         /\ pc # "close" =>
              /\ Len(Answered(q, pc)) = Len(q)
              /\ Answered(q, pc)[1].client = q[1].client
              /\ Answered(q, pc)[1].asked = FALSE
              /\ Answered(q, pc)[1].open = (IF pc = "check" THEN FALSE ELSE q[1].open)
              /\ \A k \in 2 .. Len(q) : Answered(q, pc)[k] = q[k]
<1>1. Len(q) \in Nat /\ Len(q) > 0 /\ q[1] \in Conns
  BY EmptySeq, LenProperties, ElementOfSeq
<1>2. /\ Tail(q) \in Seq(Conns) /\ Len(Tail(q)) = Len(q) - 1
      /\ \A k \in 1 .. Len(Tail(q)) : Tail(q)[k] = q[k + 1]
  BY HeadTailProperties
<1>3. ASSUME NEW x \in Conns
      PROVE  /\ <<x>> \o Tail(q) \in Seq(Conns) /\ Len(<<x>> \o Tail(q)) = Len(q)
             /\ (<<x>> \o Tail(q))[1] = x
             /\ \A k \in 2 .. Len(q) : (<<x>> \o Tail(q))[k] = q[k]
  <2>1. <<x>> \in Seq(Conns) /\ Len(<<x>>) = 1 /\ <<x>>[1] = x
    OBVIOUS
  <2>2. /\ <<x>> \o Tail(q) \in Seq(Conns) /\ Len(<<x>> \o Tail(q)) = 1 + Len(Tail(q))
        /\ \A i \in 1 .. 1 + Len(Tail(q)) :
             (<<x>> \o Tail(q))[i] = IF i <= 1 THEN <<x>>[i] ELSE Tail(q)[i - 1]
    BY <2>1, <1>2, ConcatProperties
  <2>3. (<<x>> \o Tail(q))[1] = x
    BY <2>1, <2>2, <1>1, <1>2
  <2>4. ASSUME NEW k \in 2 .. Len(q) PROVE (<<x>> \o Tail(q))[k] = q[k]
    <3>1. k \in 1 .. 1 + Len(Tail(q)) /\ ~(k <= 1) /\ k - 1 \in 1 .. Len(Tail(q)) /\ (k - 1) + 1 = k
      BY <1>1, <1>2
    <3> QED BY <3>1, <2>2, <1>2
  <2> QED BY <2>2, <2>3, <2>4, <1>1, <1>2
<1>4. CASE pc = "close"
  BY <1>2, <1>4 DEF Answered
<1>5. CASE pc = "check"
  <2> DEFINE x == [q[1] EXCEPT !.asked = FALSE, !.open = FALSE]
  <2>1. x \in Conns /\ x.client = q[1].client /\ x.asked = FALSE /\ x.open = FALSE
    BY <1>1 DEF Conns
  <2>2. Answered(q, pc) = <<x>> \o Tail(q)
    BY <1>5 DEF Answered
  <2> HIDE DEF x
  <2> QED BY <2>1, <2>2, <1>3, <1>5
<1>6. CASE pc # "close" /\ pc # "check"
  <2> DEFINE x == [q[1] EXCEPT !.asked = FALSE]
  <2>1. x \in Conns /\ x.client = q[1].client /\ x.asked = FALSE /\ x.open = q[1].open
    BY <1>1 DEF Conns
  <2>2. Answered(q, pc) = <<x>> \o Tail(q)
    BY <1>6 DEF Answered
  <2> HIDE DEF x
  <2> QED BY <2>1, <2>2, <1>3, <1>6
<1> QED BY <1>4, <1>5, <1>6

-----------------------------------------------------------------------------
(* What a connection x tells about the state s of its client: a request on *)
(* it is one the client waits for or was killed with; it is open only if   *)
(* the client lives, and is a new one only while its request is under way. *)
Link(x, s) ==
  /\ x.asked => s.io \in {"sent", "dead"} /\ s.pc \in Requests
  /\ x.open => s.io # "dead"
  /\ x.asked /\ s.io # "dead" => x.open
  /\ x.open /\ s.pc \in {"check", "open"} => s.io = "sent"

Linked(q, st) == \A k \in 1 .. Len(q) : Link(q[k], st[q[k].client])

Current(x) == x.open \/ x.asked

(* A client has one connection in use. *)
Single(q) == \A j, k \in 1 .. Len(q) :
               q[j].client = q[k].client /\ Current(q[j]) /\ Current(q[k]) => j = k

(* Who was answered at open has the first connection, until it ends. *)
FirstHolds(q, st) ==
  \A c \in Remote : st[c].io # "dead" /\ st[c].pc \in Holding =>
                      q # << >> /\ q[1].client = c /\ q[1].open

Wired == Linked(conns, cl) /\ Single(conns) /\ FirstHolds(conns, cl)

(* One program's state changes. *)
LEMMA OneClient ==
  ASSUME cl \in [Clients -> States], NEW c \in Clients, NEW t \in States,
         cl' = [cl EXCEPT ![c] = t]
  PROVE  /\ cl' \in [Clients -> States] /\ cl'[c] = t
         /\ \A d \in Clients : d # c => cl'[d] = cl[d]
  OBVIOUS

(* An element of the connections. *)
LEMMA ConnTyped ==
  ASSUME Typed, NEW k \in 1 .. Len(conns)
  PROVE  /\ conns[k] \in Conns /\ conns[k].client \in Remote /\ conns[k].client \in Clients
         /\ conns[k].open \in BOOLEAN /\ conns[k].asked \in BOOLEAN
<1>1. conns[k] \in Conns
  BY ElementOfSeq DEF Typed
<1> QED BY <1>1, Constants DEF Conns

(* Once the connections are not empty they have a first. *)
LEMMA FirstConn ==
  ASSUME Typed, conns # << >>
  PROVE  1 \in 1 .. Len(conns) /\ Len(conns) \in Nat
BY EmptySeq, LenProperties DEF Typed

(* The server's answer: to whom, and what it leads to. *)
ParseStep(c, s, ok, t) ==
  /\ conns # << >> /\ conns[1].asked /\ c = conns[1].client /\ s = cl[c]
  /\ c \in Remote /\ c \in Clients /\ s \in States /\ s.pc \in Requests
  /\ Sane(c, s) /\ s.io \in {"sent", "dead"}
  /\ ~ok => errors < MaxErrors
  /\ errors' = errors + (IF ok THEN 0 ELSE 1)
  /\ board' = IF ok THEN Effect(c, s, board) ELSE board
  /\ board' \in Boards /\ Sized(board') /\ DoneMeansFile(board')
  /\ conns' = Answered(conns, s.pc)
  /\ cl' = [cl EXCEPT ![c] = t] /\ t \in States /\ kills' = kills
  /\ s.io = "dead" => t.io = "dead" /\ t.pc = "end"
  /\ s.io # "dead" => /\ t.io = "none"
                      /\ \E u : AnswerStep(c, s, board', ok, u) /\ t = [u EXCEPT !.io = "none"]

LEMMA ParseShape ==
  ASSUME Typed, Wired, ParseRequest
  PROVE  \E c \in Remote, s \in States, ok \in BOOLEAN, t \in States : ParseStep(c, s, ok, t)
<1> DEFINE c == conns[1].client
           s == cl[c]
<1>1. conns # << >> /\ conns[1].asked
  BY DEF ParseRequest
<1>2. 1 \in 1 .. Len(conns)
  BY <1>1, FirstConn
<1>3. c \in Remote /\ c \in Clients
  BY <1>2, ConnTyped
<1>4. s \in States /\ Sane(c, s)
  BY <1>3 DEF Typed
<1>5. s.io \in {"sent", "dead"} /\ s.pc \in Requests
  BY <1>1, <1>2 DEF Wired, Linked, Link
<1>6. PICK ok \in BOOLEAN :
        /\ ~ok => errors < MaxErrors /\ s.pc \in Accesses
        /\ errors' = errors + (IF ok THEN 0 ELSE 1)
        /\ board' = IF ok THEN Effect(c, s, board) ELSE board
        /\ cl' = [cl EXCEPT ![c] = IF s.io = "dead" THEN Goto(s, "end")
                                   ELSE [After(c, s, board', ok) EXCEPT !.io = "none"]]
        /\ conns' = Answered(conns, s.pc)
  BY DEF ParseRequest
<1>7. kills' = kills
  BY DEF ParseRequest
<1> HIDE DEF c, s
<1>8. board' \in Boards /\ Sized(board') /\ DoneMeansFile(board')
  BY <1>3, <1>4, <1>6, EffectTyped DEF Typed
<1>9. CASE s.io = "dead"
  <2>1. "end" \in Pcs
    BY DEF Pcs
  <2>2. Goto(s, "end") \in States /\ Goto(s, "end").pc = "end" /\ Goto(s, "end").io = "dead"
    BY <2>1, <1>4, <1>9, GotoTyped
  <2>3. ParseStep(c, s, ok, Goto(s, "end"))
    BY <2>2, <1>1, <1>3, <1>4, <1>5, <1>6, <1>7, <1>8, <1>9 DEF ParseStep, c, s
  <2> QED BY <2>3, <2>2, <1>3, <1>4
<1>10. CASE s.io # "dead"
  <2> DEFINE u == After(c, s, board', ok)
             t == [u EXCEPT !.io = "none"]
  <2>1. AnswerStep(c, s, board', ok, u)
    BY <1>3, <1>4, <1>5, <1>8, AfterTyped
  <2>2. t \in States /\ t.io = "none"
    BY <2>1 DEF AnswerStep, States, Ios
  <2>3. cl' = [cl EXCEPT ![c] = t]
    BY <1>6, <1>10
  <2> HIDE DEF u
  <2>4. \E v : AnswerStep(c, s, board', ok, v) /\ t = [v EXCEPT !.io = "none"]
    BY <2>1
  <2> HIDE DEF t
  <2>5. ParseStep(c, s, ok, t)
    BY <2>2, <2>3, <2>4, <1>1, <1>3, <1>4, <1>5, <1>6, <1>7, <1>8, <1>10 DEF ParseStep, c, s
  <2> QED BY <2>5, <2>2, <1>3, <1>4
<1> QED BY <1>9, <1>10

(* A program that was answered and lives: its state but for the answer. *)
LEMMA LiveReply ==
  ASSUME NEW c, NEW s, NEW ok, NEW t, ParseStep(c, s, ok, t), s.io # "dead"
  PROVE  \E u \in States : /\ AnswerStep(c, s, board', ok, u)
                           /\ t.io = "none" /\ t.pc = u.pc /\ t.sent = u.sent
                           /\ t.count = u.count /\ t.info = u.info
<1>1. PICK u : AnswerStep(c, s, board', ok, u) /\ t = [u EXCEPT !.io = "none"]
  BY DEF ParseStep
<1>2. u \in States
  BY <1>1 DEF AnswerStep
<1> QED BY <1>1, <1>2 DEF States

LEMMA ParseTyped ==
  ASSUME Typed, Wired, ParseRequest
  PROVE  Typed'
<1>1. PICK c \in Remote, s \in States, ok \in BOOLEAN, t \in States : ParseStep(c, s, ok, t)
  BY ParseShape
<1>2. /\ c \in Clients /\ cl' = [cl EXCEPT ![c] = t]
      /\ board' \in Boards /\ Sized(board') /\ DoneMeansFile(board')
      /\ kills' = kills /\ conns' = Answered(conns, s.pc) /\ conns # << >>
  BY <1>1 DEF ParseStep
<1>3. /\ cl' \in [Clients -> States] /\ cl'[c] = t
      /\ \A d \in Clients : d # c => cl'[d] = cl[d]
  BY <1>2, OneClient DEF Typed
<1>4. conns' \in Seq(Conns)
  BY <1>2, AnsweredTyped DEF Typed
<1>5. errors' \in 0 .. MaxErrors
  BY <1>1, Constants DEF ParseStep, Typed
<1>6. Sane(c, t)
  <2>0. c \notin Local
    BY Constants
  <2>1. CASE s.io = "dead"
    BY <1>1, <2>0, <2>1 DEF ParseStep, Sane, DownloadPcs
  <2>2. CASE s.io # "dead"
    <3>1. PICK u \in States : /\ AnswerStep(c, s, board', ok, u)
                              /\ t.io = "none" /\ t.pc = u.pc /\ t.sent = u.sent
      BY <1>1, <2>2, LiveReply
    <3> QED BY <3>1 DEF AnswerStep, Sane
  <2> QED BY <2>1, <2>2
<1>7. \A d \in Clients : Sane(d, cl'[d])
  BY <1>3, <1>6 DEF Typed
<1> QED BY <1>2, <1>3, <1>4, <1>5, <1>7 DEF Typed

LEMMA ParseWired ==
  ASSUME Typed, Wired, ParseRequest
  PROVE  Wired'
<1>1. PICK c \in Remote, s \in States, ok \in BOOLEAN, t \in States : ParseStep(c, s, ok, t)
  BY ParseShape
<1>2. /\ c \in Clients /\ cl' = [cl EXCEPT ![c] = t] /\ conns' = Answered(conns, s.pc)
      /\ conns # << >> /\ conns[1].asked /\ c = conns[1].client /\ s = cl[c]
      /\ s.pc \in Requests
  BY <1>1 DEF ParseStep
<1>3. /\ cl'[c] = t /\ \A d \in Clients : d # c => cl'[d] = cl[d]
  BY <1>2, OneClient DEF Typed
<1>4. 1 \in 1 .. Len(conns) /\ Len(conns) \in Nat
  BY <1>2, FirstConn
<1>5. Link(conns[1], s)
  BY <1>2, <1>4 DEF Wired, Linked
<1>6. ASSUME NEW k \in 2 .. Len(conns) PROVE Link(conns[k], cl'[conns[k].client])
  <2>0. k \in 1 .. Len(conns) /\ k # 1
    BY <1>4
  <2>1. Link(conns[k], cl[conns[k].client]) /\ conns[k].client \in Clients
    BY <2>0, ConnTyped DEF Wired, Linked
  <2>2. CASE conns[k].client # c
    BY <2>1, <2>2, <1>3
  <2>3. CASE conns[k].client = c
    <3>1. Current(conns[1]) /\ (Current(conns[k]) => k = 1)
      BY <2>0, <2>3, <1>2, <1>4 DEF Wired, Single, Current
    <3>2. ~conns[k].open /\ ~conns[k].asked
      BY <2>0, <3>1 DEF Current
    <3> QED BY <3>2 DEF Link
  <2> QED BY <2>2, <2>3
<1>7. /\ s.io = "dead" => t.io = "dead" /\ t.pc = "end"
      /\ s.io # "dead" => /\ t.io = "none"
                          /\ s.pc = "check" => t.pc \in {"open", "exit"}
                          /\ s.pc = "close" => t.pc = "end"
                          /\ s.pc # "check" => t.pc \notin {"check", "open"}
  <2>1. CASE s.io = "dead"
    BY <1>1, <2>1 DEF ParseStep
  <2>2. CASE s.io # "dead"
    <3>1. PICK u \in States : AnswerStep(c, s, board', ok, u) /\ t.io = "none" /\ t.pc = u.pc
      BY <1>1, <2>2, LiveReply
    <3>2. CASE s.pc \in {"check", "open"}
      BY <3>1, <3>2, <2>2 DEF AnswerStep
    <3>3. CASE s.pc \notin {"check", "open"}
      <4>1. s.pc \in Holding
        BY <3>3, <1>2 DEF Requests, Accesses, Holding, DownloadPcs
      <4> QED BY <4>1, <3>1, <3>3, <2>2 DEF AnswerStep, Holding, DownloadPcs
    <3> QED BY <3>2, <3>3
  <2> QED BY <2>1, <2>2
<1>8. FirstHolds(conns, cl)
  BY DEF Wired
<1>9. ASSUME NEW d \in Remote, cl'[d].io # "dead", cl'[d].pc \in Holding
      PROVE  d = c /\ s.pc \notin {"check", "close"} /\ conns[1].open
  <2>1. d = c
    <3> SUFFICES ASSUME d # c PROVE FALSE
      OBVIOUS
    <3>1. cl'[d] = cl[d]
      BY <1>3, Constants
    <3> QED BY <3>1, <1>8, <1>9, <1>2 DEF FirstHolds
  <2>2. s.io # "dead" /\ s.pc \notin {"check", "close"}
    BY <2>1, <1>9, <1>3, <1>7 DEF Holding, DownloadPcs
  <2>3. conns[1].open
    BY <2>2, <1>5, <1>2 DEF Link
  <2> QED BY <2>1, <2>2, <2>3
<1>10. CASE s.pc = "close"
  <2>1. conns' = Tail(conns)
    BY <1>2, <1>10, AnsweredTyped DEF Typed
  <2>2. /\ Len(conns') = Len(conns) - 1
        /\ \A k \in 1 .. Len(conns') : conns'[k] = conns[k + 1]
    BY <2>1, <1>2, HeadTailProperties DEF Typed
  <2>3. \A k \in 1 .. Len(conns') : k + 1 \in 2 .. Len(conns) /\ k + 1 \in 1 .. Len(conns)
    BY <2>2, <1>4
  <2>4. Linked(conns', cl')
    BY <2>2, <2>3, <1>6 DEF Linked
  <2>5. Single(conns')
    <3> SUFFICES ASSUME NEW j \in 1 .. Len(conns'), NEW k \in 1 .. Len(conns'),
                        conns'[j].client = conns'[k].client, Current(conns'[j]), Current(conns'[k])
                 PROVE  j = k
      BY DEF Single
    <3>1. j + 1 = k + 1
      BY <2>2, <2>3 DEF Wired, Single
    <3>2. j \in Int /\ k \in Int
      OBVIOUS
    <3> QED BY <3>1, <3>2
  <2>6. FirstHolds(conns', cl')
    BY <1>9, <1>10 DEF FirstHolds
  <2> QED BY <2>4, <2>5, <2>6 DEF Wired
<1>11. CASE s.pc # "close"
  <2>1. /\ Len(conns') = Len(conns) /\ conns'[1].client = c /\ conns'[1].asked = FALSE
        /\ conns'[1].open = (IF s.pc = "check" THEN FALSE ELSE conns[1].open)
        /\ \A k \in 2 .. Len(conns) : conns'[k] = conns[k]
    <3>1. conns \in Seq(Conns) /\ conns # << >>
      BY <1>2 DEF Typed
    <3>2. /\ Len(Answered(conns, s.pc)) = Len(conns)
          /\ Answered(conns, s.pc)[1].client = conns[1].client
          /\ Answered(conns, s.pc)[1].asked = FALSE
          /\ Answered(conns, s.pc)[1].open = (IF s.pc = "check" THEN FALSE ELSE conns[1].open)
          /\ \A k \in 2 .. Len(conns) : Answered(conns, s.pc)[k] = conns[k]
      BY <3>1, <1>11, AnsweredTyped, Zenon
    <3> QED BY <3>2, <1>2
  <2>2. Link(conns'[1], t)
    BY <2>1, <1>5, <1>7 DEF Link
  <2>3. \A k \in 1 .. Len(conns) : k = 1 \/ k \in 2 .. Len(conns)
    BY <1>4
  <2>4. Linked(conns', cl')
    BY <2>1, <2>2, <2>3, <1>3, <1>6 DEF Linked
  <2>5. \A k \in 1 .. Len(conns) : /\ conns'[k].client = conns[k].client
                                   /\ Current(conns'[k]) => Current(conns[k])
    BY <2>1, <2>3, <1>2 DEF Current
  <2>6. Single(conns')
    BY <2>1, <2>5 DEF Wired, Single
  <2>7. conns' # << >>
    BY <2>1, <1>4
  <2>8. FirstHolds(conns', cl')
    BY <2>1, <2>7, <1>9 DEF FirstHolds
  <2> QED BY <2>4, <2>6, <2>8 DEF Wired
<1> QED BY <1>10, <1>11

LEMMA HangupKeeps ==
  ASSUME Typed, Wired, Hangup
  PROVE  Typed' /\ Wired'
<1>1. /\ conns # << >> /\ ~conns[1].open /\ conns' = Tail(conns)
      /\ cl' = cl /\ board' = board /\ errors' = errors /\ kills' = kills
  BY DEF Hangup
<1>2. 1 \in 1 .. Len(conns) /\ Len(conns) \in Nat
  BY <1>1, FirstConn
<1>3. /\ conns' \in Seq(Conns) /\ Len(conns') = Len(conns) - 1
      /\ \A k \in 1 .. Len(conns') : conns'[k] = conns[k + 1]
  BY <1>1, HeadTailProperties DEF Typed
<1>4. \A k \in 1 .. Len(conns') : k + 1 \in 1 .. Len(conns)
  BY <1>2, <1>3
<1>5. Typed'
  BY <1>1, <1>3 DEF Typed
<1>6. Linked(conns', cl')
  BY <1>1, <1>3, <1>4 DEF Wired, Linked
<1>7. Single(conns')
  <2> SUFFICES ASSUME NEW j \in 1 .. Len(conns'), NEW k \in 1 .. Len(conns'),
                      conns'[j].client = conns'[k].client, Current(conns'[j]), Current(conns'[k])
               PROVE  j = k
    BY DEF Single
  <2>1. j + 1 = k + 1
    BY <1>3, <1>4 DEF Wired, Single
  <2>2. j \in Int /\ k \in Int
    OBVIOUS
  <2> QED BY <2>1, <2>2
<1>8. FirstHolds(conns', cl')
  BY <1>1 DEF Wired, FirstHolds
<1> QED BY <1>5, <1>6, <1>7, <1>8 DEF Wired

(* A step that leaves the connections and the remote programs alone. *)
LEMMA OthersStep ==
  ASSUME Typed, Wired, conns' = conns, \A c \in Remote : cl'[c] = cl[c]
  PROVE  Wired'
<1>1. \A k \in 1 .. Len(conns) : conns[k].client \in Remote
  BY ConnTyped
<1> QED BY <1>1 DEF Wired, Linked, FirstHolds

LEMMA BoardKeeps ==
  ASSUME Typed, Wired, Board
  PROVE  Typed' /\ Wired'
<1>1. cl' = cl /\ conns' = conns /\ kills' = kills
  BY DEF Board, Cleared, Shift
<1>2. Wired'
  BY <1>1, OthersStep
<1>3. CASE Cleared
  <2>1. board.st = "clear" /\ board' = [board EXCEPT !.st = "download", !.init = FALSE] /\ errors' = errors
    BY <1>3 DEF Cleared
  <2>2. board \in Boards /\ Sized(board) /\ DoneMeansFile(board)
    BY DEF Typed
  <2>3. /\ board' \in Boards /\ board'.fifo = board.fifo /\ board'.cfg = board.cfg
        /\ board'.done = board.done
    BY <2>1, <2>2 DEF Boards
  <2>4. Sized(board') /\ DoneMeansFile(board')
    BY <2>1, <2>2, <2>3 DEF Sized, DoneMeansFile
  <2> QED BY <2>1, <2>3, <2>4, <1>1, <1>2 DEF Typed
<1>4. CASE Shift
  <2>1. PICK damaged \in BOOLEAN :
          /\ damaged => errors < MaxErrors
          /\ errors' = errors + (IF damaged THEN 1 ELSE 0)
          /\ board' = Configured([board EXCEPT !.fifo = Tail(@),
               !.cfg = Append(@, IF damaged THEN None ELSE Head(board.fifo))])
    BY <1>4 DEF Shift
  <2>2. board.st = "download" /\ board.fifo # << >>
    BY <1>4 DEF Shift
  <2>3. board \in Boards /\ Sized(board) /\ DoneMeansFile(board)
    BY DEF Typed
  <2> DEFINE w == IF damaged THEN None ELSE Head(board.fifo)
  <2>4. w \in Word \cup {None}
    <3>1. board.fifo \in Seq(Word)
      BY <2>3 DEF Boards
    <3> QED BY <3>1, <2>2, HeadTailProperties
  <2>5. board' = Configured([board EXCEPT !.fifo = Tail(@), !.cfg = Append(@, w)])
    BY <2>1
  <2> HIDE DEF w
  <2>6. board' \in Boards /\ Sized(board') /\ DoneMeansFile(board')
    BY <2>2, <2>3, <2>4, <2>5, ShiftTyped
  <2>7. errors' \in 0 .. MaxErrors
    BY <2>1, Constants DEF Typed
  <2> QED BY <2>6, <2>7, <1>1, <1>2 DEF Typed
<1> QED BY <1>3, <1>4 DEF Board

(* The end of main. *)
LEMMA VerdictShape ==
  ASSUME Typed, NEW c \in Clients, Verdict(c)
  PROVE  /\ conns' = conns /\ board' = board /\ errors' = errors /\ kills' = kills
         /\ cl[c].pc = "verdict" /\ cl[c].io = "none"
         /\ \E t \in States : /\ cl' = [cl EXCEPT ![c] = t] /\ t.io = "none"
                              /\ t.pc \in {"close", "exit"}
<1> DEFINE content == IF c \in Downloaders THEN VerifyDevInfo(cl[c].info)
                      ELSE CheckVirtexBitfile(cl[c].info, Job[c])
           u == [cl[c] EXCEPT !.info = NoInfo]
           pc == IF content THEN "close" ELSE "exit"
<1>1. /\ conns' = conns /\ board' = board /\ errors' = errors /\ kills' = kills
      /\ cl[c].pc = "verdict" /\ cl[c].io = "none"
  BY DEF Verdict
<1>2. cl[c] \in States
  BY DEF Typed
<1>3. u \in States /\ u.io = cl[c].io
  BY <1>2, FreshTyped DEF States
<1>4. pc \in Pcs /\ pc \in {"close", "exit"}
  BY DEF Pcs, Requests
<1>5. cl' = [cl EXCEPT ![c] = Goto(u, pc)]
  BY DEF Verdict
<1> HIDE DEF u, pc
<1>6. Goto(u, pc) \in States /\ Goto(u, pc).pc = pc /\ Goto(u, pc).io = "none"
  BY <1>1, <1>3, <1>4, GotoTyped
<1> QED BY <1>1, <1>4, <1>5, <1>6

LEMMA VerdictKeeps ==
  ASSUME Typed, Wired, NEW c \in Clients, Verdict(c)
  PROVE  Typed' /\ Wired'
<1>1. /\ conns' = conns /\ board' = board /\ errors' = errors /\ kills' = kills
      /\ cl[c].pc = "verdict" /\ cl[c].io = "none"
  BY VerdictShape
<1>2. PICK t \in States : cl' = [cl EXCEPT ![c] = t] /\ t.io = "none" /\ t.pc \in {"close", "exit"}
  BY VerdictShape
<1>3. /\ cl' \in [Clients -> States] /\ cl'[c] = t
      /\ \A d \in Clients : d # c => cl'[d] = cl[d]
  BY <1>2, OneClient DEF Typed
<1>4. Sane(c, t)
  BY <1>2 DEF Sane, DownloadPcs
<1>5. Typed'
  BY <1>1, <1>3, <1>4 DEF Typed
<1>6. ASSUME NEW k \in 1 .. Len(conns) PROVE Link(conns[k], cl'[conns[k].client])
  <2>1. conns[k].client \in Clients /\ Link(conns[k], cl[conns[k].client])
    BY ConnTyped DEF Wired, Linked
  <2>2. CASE conns[k].client = c
    BY <2>1, <2>2, <1>1, <1>2, <1>3 DEF Link
  <2>3. CASE conns[k].client # c
    BY <2>1, <2>3, <1>3
  <2> QED BY <2>2, <2>3
<1>7. Linked(conns', cl')
  BY <1>1, <1>6 DEF Linked
<1>8. Single(conns')
  BY <1>1 DEF Wired
<1>9. FirstHolds(conns', cl')
  <2> SUFFICES ASSUME NEW d \in Remote, cl'[d].io # "dead", cl'[d].pc \in Holding
               PROVE  cl[d].io # "dead" /\ cl[d].pc \in Holding
    BY <1>1 DEF Wired, FirstHolds
  <2>1. CASE d = c
    BY <2>1, <1>1 DEF Holding, DownloadPcs
  <2>2. CASE d # c
    BY <2>2, <1>3, Constants
  <2> QED BY <2>1, <2>2
<1> QED BY <1>5, <1>7, <1>8, <1>9 DEF Wired

(* A program of the board's own host gets its answers at once. *)
LEMMA LocalReply ==
  ASSUME NEW c \in Local, NEW s \in States, Sane(c, s), s.pc \in Requests,
         NEW b \in Boards, DoneMeansFile(b)
  PROVE  /\ After(c, s, b, TRUE) \in States /\ Sane(c, After(c, s, b, TRUE))
         /\ s.pc \in {"check", "open", "close"} =>
              After(c, s, b, TRUE).pc \in {"open", "exit", "reset", "prog", "end"}
<1>1. c \in Clients /\ TRUE \in BOOLEAN
  BY Constants
<1>2. AnswerStep(c, s, b, TRUE, After(c, s, b, TRUE))
  BY <1>1, AfterTyped
<1>3. s.io = "none"
  BY DEF Sane
<1>4. /\ After(c, s, b, TRUE) \in States /\ Sane(c, After(c, s, b, TRUE))
  BY <1>2, <1>3 DEF AnswerStep, Sane
<1>5. s.pc \in {"check", "open", "close"} =>
        After(c, s, b, TRUE).pc \in {"open", "exit", "reset", "prog", "end"}
  BY <1>2 DEF AnswerStep
<1> QED BY <1>4, <1>5

LEMMA LocalShape ==
  ASSUME Typed, NEW c \in Clients, LocalOpen(c) \/ LocalAccess(c)
  PROVE  /\ c \in Local /\ conns' = conns /\ errors' = errors /\ kills' = kills
         /\ cl[c] \in States /\ Sane(c, cl[c])
         /\ board' = board \/ (cl[c].pc \in Accesses /\ board' = Effect(c, cl[c], board))
         /\ \E t \in States : cl' = [cl EXCEPT ![c] = t] /\ Sane(c, t)
<1>1. cl[c] \in States /\ Sane(c, cl[c]) /\ board \in Boards /\ Sized(board) /\ DoneMeansFile(board)
  BY DEF Typed
<1>2. CASE LocalOpen(c)
  <2> DEFINE s == After(c, cl[c], board, TRUE)
             t == IF s.pc = "open" THEN After(c, s, board, TRUE) ELSE s
  <2>1. /\ c \in Local /\ conns' = conns /\ errors' = errors /\ kills' = kills /\ board' = board
        /\ cl[c].pc \in Requests /\ cl' = [cl EXCEPT ![c] = t]
    BY <1>2 DEF LocalOpen
  <2>2. s \in States /\ Sane(c, s)
    BY <2>1, <1>1, LocalReply
  <2> HIDE DEF s
  <2>3. t \in States /\ Sane(c, t)
    <3>1. "open" \in Requests
      BY DEF Requests
    <3>2. CASE s.pc = "open"
      BY <3>1, <3>2, <2>1, <2>2, <1>1, LocalReply
    <3>3. CASE s.pc # "open"
      BY <3>3, <2>2
    <3> QED BY <3>2, <3>3
  <2> QED BY <2>1, <2>3, <1>1
<1>3. CASE LocalAccess(c)
  <2>1. /\ c \in Local /\ conns' = conns /\ errors' = errors /\ kills' = kills
        /\ board' = Effect(c, cl[c], board) /\ cl[c].pc \in Accesses /\ cl[c].pc \in Requests
        /\ cl' = [cl EXCEPT ![c] = After(c, cl[c], board', TRUE)]
    BY <1>3 DEF LocalAccess, Requests
  <2>2. board' \in Boards /\ DoneMeansFile(board')
    BY <2>1, <1>1, EffectTyped
  <2>3. After(c, cl[c], board', TRUE) \in States /\ Sane(c, After(c, cl[c], board', TRUE))
    BY <2>1, <2>2, <1>1, LocalReply
  <2> QED BY <2>1, <2>3, <1>1
<1> QED BY <1>2, <1>3

LEMMA LocalKeeps ==
  ASSUME Typed, Wired, NEW c \in Clients, LocalOpen(c) \/ LocalAccess(c)
  PROVE  Typed' /\ Wired'
<1>1. /\ c \in Local /\ conns' = conns /\ errors' = errors /\ kills' = kills
      /\ board' = board \/ board' = Effect(c, cl[c], board)
      /\ cl[c] \in States /\ Sane(c, cl[c])
  BY LocalShape
<1>2. PICK t \in States : cl' = [cl EXCEPT ![c] = t] /\ Sane(c, t)
  BY LocalShape
<1>3. /\ cl' \in [Clients -> States] /\ cl'[c] = t
      /\ \A d \in Clients : d # c => cl'[d] = cl[d]
  BY <1>2, OneClient DEF Typed
<1>4. board' \in Boards /\ Sized(board') /\ DoneMeansFile(board')
  <2>1. board \in Boards /\ Sized(board) /\ DoneMeansFile(board)
    BY DEF Typed
  <2> QED BY <2>1, <1>1, EffectTyped
<1>5. Typed'
  BY <1>1, <1>2, <1>3, <1>4 DEF Typed
<1>6. \A d \in Remote : cl'[d] = cl[d]
  BY <1>1, <1>3, Constants
<1> QED BY <1>1, <1>5, <1>6, OthersStep

(* A request is sent. *)
LEMMA SendShape ==
  ASSUME Typed, NEW c \in Clients, SendRequest(c)
  PROVE  /\ c \in Remote /\ c \notin Local /\ cl[c].pc \in Requests /\ cl[c].io = "none"
         /\ board' = board /\ errors' = errors /\ kills' = kills
         /\ \E t \in States : /\ cl' = [cl EXCEPT ![c] = t] /\ t.io = "sent"
                              /\ t.pc = cl[c].pc /\ t.sent = cl[c].sent
                              /\ t.count = cl[c].count /\ t.info = cl[c].info
<1> DEFINE t == [cl[c] EXCEPT !.io = "sent"]
<1>1. /\ c \in Remote /\ cl[c].pc \in Requests /\ cl[c].io = "none"
      /\ board' = board /\ errors' = errors /\ kills' = kills
      /\ cl' = [cl EXCEPT ![c].io = "sent"]
  BY DEF SendRequest
<1>2. cl[c] \in States /\ cl \in [Clients -> States]
  BY DEF Typed
<1>3. cl' = [cl EXCEPT ![c] = t]
  BY <1>1, <1>2
<1>4. /\ t \in States /\ t.io = "sent" /\ t.pc = cl[c].pc /\ t.sent = cl[c].sent
      /\ t.count = cl[c].count /\ t.info = cl[c].info
  BY <1>2 DEF States, Ios
<1> HIDE DEF t
<1> QED BY <1>1, <1>3, <1>4, Constants

LEMMA SendKeeps ==
  ASSUME Typed, Wired, NEW c \in Clients, SendRequest(c)
  PROVE  Typed' /\ Wired'
<1>1. /\ c \in Remote /\ c \notin Local /\ cl[c].pc \in Requests /\ cl[c].io = "none"
      /\ board' = board /\ errors' = errors /\ kills' = kills
  BY SendShape
<1>2. PICK t \in States : /\ cl' = [cl EXCEPT ![c] = t] /\ t.io = "sent"
                          /\ t.pc = cl[c].pc /\ t.sent = cl[c].sent
  BY SendShape
<1>3. /\ cl' \in [Clients -> States] /\ cl'[c] = t
      /\ \A d \in Clients : d # c => cl'[d] = cl[d]
  BY <1>2, OneClient DEF Typed
<1>4. Sane(c, t)
  BY <1>1, <1>2 DEF Sane, Typed
<1>5. ASSUME conns' \in Seq(Conns) PROVE Typed'
  BY <1>1, <1>3, <1>4, <1>5 DEF Typed
<1>6. conns \in Seq(Conns) /\ Len(conns) \in Nat
  BY LenProperties DEF Typed
<1>7. ASSUME NEW k \in 1 .. Len(conns)
      PROVE  /\ Link(conns[k], cl[conns[k].client]) /\ conns[k].client \in Clients
             /\ conns[k].client # c => cl'[conns[k].client] = cl[conns[k].client]
  BY <1>3, ConnTyped DEF Wired, Linked
<1>8. CASE cl[c].pc \in {"check", "open"}
  <2> DEFINE x == [client |-> c, open |-> TRUE, asked |-> TRUE]
  <2>1. conns' = Append(conns, x)
    BY <1>8 DEF SendRequest
  <2>2. x \in Conns /\ x.client = c /\ x.open /\ x.asked
    BY <1>1 DEF Conns
  <2> HIDE DEF x
  <2>3. /\ conns' \in Seq(Conns) /\ conns' # << >> /\ Len(conns') = Len(conns) + 1
        /\ \A k \in 1 .. Len(conns) : conns'[k] = conns[k]
        /\ conns'[Len(conns) + 1] = x
    BY <2>1, <2>2, <1>6, AppendProperties
  <2>4. \A k \in 1 .. Len(conns') : k \in 1 .. Len(conns) \/ k = Len(conns) + 1
    BY <2>3, <1>6
  <2>5. ASSUME NEW k \in 1 .. Len(conns), conns[k].client = c
        PROVE  ~conns[k].open /\ ~conns[k].asked
    BY <2>5, <1>1, <1>7, <1>8 DEF Link
  <2>6. ASSUME NEW k \in 1 .. Len(conns')
        PROVE  Link(conns'[k], cl'[conns'[k].client])
    <3>1. CASE k = Len(conns) + 1
      BY <3>1, <2>2, <2>3, <1>1, <1>2, <1>3 DEF Link
    <3>2. CASE k \in 1 .. Len(conns) /\ conns[k].client = c
      BY <3>2, <2>3, <2>5 DEF Link
    <3>3. CASE k \in 1 .. Len(conns) /\ conns[k].client # c
      BY <3>3, <2>3, <1>7
    <3> QED BY <3>1, <3>2, <3>3, <2>4
  <2>7. Single(conns')
    BY <2>2, <2>3, <2>4, <2>5 DEF Wired, Single, Current
  <2>8. FirstHolds(conns', cl')
    <3> SUFFICES ASSUME NEW d \in Remote, cl'[d].io # "dead", cl'[d].pc \in Holding
                 PROVE  conns' # << >> /\ conns'[1].client = d /\ conns'[1].open
      BY DEF FirstHolds
    <3>1. d # c
      BY <1>2, <1>3, <1>8 DEF Holding, DownloadPcs
    <3>2. cl[d].io # "dead" /\ cl[d].pc \in Holding
      BY <3>1, <1>3, Constants
    <3>3. conns # << >> /\ conns[1].client = d /\ conns[1].open
      BY <3>2 DEF Wired, FirstHolds
    <3>4. 1 \in 1 .. Len(conns)
      BY <3>3, FirstConn
    <3> QED BY <3>3, <3>4, <2>3
  <2> QED BY <2>3, <2>6, <2>7, <2>8, <1>5 DEF Wired, Linked
<1>9. CASE cl[c].pc \notin {"check", "open"}
  <2>1. conns' = AskedOn(conns, c)
    BY <1>9 DEF SendRequest, AskedOn
  <2>2. /\ conns' \in Seq(Conns) /\ Len(conns') = Len(conns)
        /\ \A k \in 1 .. Len(conns) :
             /\ conns'[k].client = conns[k].client /\ conns'[k].open = conns[k].open
             /\ conns'[k].asked = (IF conns[k].client = c /\ conns[k].open THEN TRUE
                                   ELSE conns[k].asked)
    BY <2>1, <1>6, AskedTyped
  <2>3. ASSUME NEW k \in 1 .. Len(conns')
        PROVE  Link(conns'[k], cl'[conns'[k].client])
    <3>0. k \in 1 .. Len(conns)
      BY <2>2
    <3>a. /\ conns'[k].client = conns[k].client /\ conns'[k].open = conns[k].open
          /\ conns'[k].asked = (IF conns[k].client = c /\ conns[k].open THEN TRUE
                                ELSE conns[k].asked)
      BY <3>0, <2>2
    <3>b. /\ Link(conns[k], cl[conns[k].client])
          /\ conns[k].client # c => cl'[conns[k].client] = cl[conns[k].client]
      BY <3>0, <1>7
    <3>1. CASE conns[k].client = c
      BY <3>1, <3>a, <3>b, <1>1, <1>2, <1>3, <1>9 DEF Link
    <3>2. CASE conns[k].client # c
      BY <3>2, <3>a, <3>b DEF Link
    <3> QED BY <3>1, <3>2
  <2>4. \A k \in 1 .. Len(conns) : Current(conns'[k]) => Current(conns[k])
    BY <2>2 DEF Current
  <2>5. Single(conns')
    BY <2>2, <2>4 DEF Wired, Single
  <2>6. FirstHolds(conns', cl')
    <3> SUFFICES ASSUME NEW d \in Remote, cl'[d].io # "dead", cl'[d].pc \in Holding
                 PROVE  conns' # << >> /\ conns'[1].client = d /\ conns'[1].open
      BY DEF FirstHolds
    <3>2. cl[d].io # "dead" /\ cl[d].pc \in Holding
      <4>1. CASE d = c
        BY <4>1, <1>1, <1>2, <1>3
      <4>2. CASE d # c
        BY <4>2, <1>3, Constants
      <4> QED BY <4>1, <4>2
    <3>3. conns # << >> /\ conns[1].client = d /\ conns[1].open
      BY <3>2 DEF Wired, FirstHolds
    <3>4. 1 \in 1 .. Len(conns)
      BY <3>3, FirstConn
    <3>5. conns' # << >>
      BY <3>4, <2>2
    <3> QED BY <3>3, <3>4, <3>5, <2>2
  <2> QED BY <2>2, <2>3, <2>5, <2>6, <1>5 DEF Wired, Linked
<1> QED BY <1>8, <1>9

(* A program ends or is killed. *)
LEMMA EndShape ==
  ASSUME Typed, NEW c \in Clients, Exit(c) \/ Kill(c)
  PROVE  /\ conns' = Hung(conns, c) /\ board' = board /\ errors' = errors
         /\ kills' \in 0 .. MaxKills
         /\ \E t \in States : /\ cl' = [cl EXCEPT ![c] = t] /\ Sane(c, t)
                              /\ \/ t.pc = "end" /\ t.io = "none" /\ cl[c].io = "none"
                                 \/ t.pc = "end" /\ t.io = "dead" /\ cl[c].io = "none"
                                 \/ /\ t.io = "dead" /\ t.pc = cl[c].pc
                                    /\ cl[c].io = "sent" /\ cl[c].pc \in Requests
<1>1. cl[c] \in States /\ Sane(c, cl[c]) /\ cl \in [Clients -> States] /\ kills \in 0 .. MaxKills
  BY DEF Typed
<1>2. CASE Exit(c)
  <2> DEFINE t == [cl[c] EXCEPT !.pc = "end"]
  <2>1. /\ conns' = Hung(conns, c) /\ board' = board /\ errors' = errors /\ kills' = kills
        /\ cl[c].io = "none" /\ cl' = [cl EXCEPT ![c].pc = "end"]
    BY <1>2 DEF Exit
  <2>2. t \in States /\ t.pc = "end" /\ t.io = "none"
    BY <2>1, <1>1 DEF States, Pcs
  <2>3. cl' = [cl EXCEPT ![c] = t]
    BY <2>1, <1>1
  <2> HIDE DEF t
  <2>4. Sane(c, t)
    BY <2>2 DEF Sane, DownloadPcs
  <2> QED BY <2>1, <2>2, <2>3, <2>4, <1>1
<1>3. CASE Kill(c)
  <2> DEFINE pc == IF cl[c].io = "sent" THEN cl[c].pc ELSE "end"
             u == Goto(cl[c], pc)
             t == [u EXCEPT !.io = "dead"]
  <2>1. /\ conns' = Hung(conns, c) /\ board' = board /\ errors' = errors /\ kills' = kills + 1
        /\ kills < MaxKills /\ cl[c].io # "dead" /\ cl' = [cl EXCEPT ![c] = t]
        /\ c \in Remote
    BY <1>3 DEF Kill
  <2>2. cl[c].io \in {"none", "sent"} /\ cl[c].pc \in Pcs
    BY <2>1, <1>1 DEF States, Ios
  <2>3. pc \in Pcs
    BY <2>2 DEF Pcs
  <2>4. /\ u \in States /\ u.pc = pc
        /\ pc \notin {"exit", "end"} => u.sent = cl[c].sent
    BY <2>3, <1>1, GotoTyped
  <2> HIDE DEF u
  <2>5. t \in States /\ t.pc = pc /\ t.io = "dead" /\ t.sent = u.sent
    BY <2>4 DEF States, Ios
  <2> HIDE DEF t
  <2>6. kills' \in 0 .. MaxKills
    BY <2>1, <1>1, Constants
  <2>7. c \notin Local
    BY <2>1, Constants
  <2>8. CASE cl[c].io = "sent"
    <3>1. cl[c].pc \in Requests
      BY <2>8, <1>1 DEF Sane
    <3>2. Sane(c, t)
      BY <3>1, <2>4, <2>5, <2>7, <2>8, <1>1 DEF Sane
    <3> QED BY <3>1, <3>2, <2>1, <2>5, <2>6, <2>8
  <2>9. CASE cl[c].io = "none"
    <3>1. Sane(c, t) /\ t.pc = "end"
      BY <2>5, <2>7, <2>9 DEF Sane, DownloadPcs
    <3> QED BY <3>1, <2>1, <2>5, <2>6, <2>9
  <2> QED BY <2>8, <2>9, <2>2
<1> QED BY <1>2, <1>3

LEMMA EndKeeps ==
  ASSUME Typed, Wired, NEW c \in Clients, Exit(c) \/ Kill(c)
  PROVE  Typed' /\ Wired'
<1>1. /\ conns' = Hung(conns, c) /\ board' = board /\ errors' = errors
      /\ kills' \in 0 .. MaxKills
  BY EndShape
<1>2. PICK t \in States : /\ cl' = [cl EXCEPT ![c] = t] /\ Sane(c, t)
                          /\ \/ t.pc = "end" /\ t.io = "none" /\ cl[c].io = "none"
                             \/ t.pc = "end" /\ t.io = "dead" /\ cl[c].io = "none"
                             \/ /\ t.io = "dead" /\ t.pc = cl[c].pc
                                /\ cl[c].io = "sent" /\ cl[c].pc \in Requests
  BY EndShape
<1>3. /\ cl' \in [Clients -> States] /\ cl'[c] = t
      /\ \A d \in Clients : d # c => cl'[d] = cl[d]
  BY <1>2, OneClient DEF Typed
<1>4. conns \in Seq(Conns)
  BY DEF Typed
<1>5. /\ conns' \in Seq(Conns) /\ Len(conns') = Len(conns)
      /\ \A k \in 1 .. Len(conns) :
           /\ conns'[k].client = conns[k].client /\ conns'[k].asked = conns[k].asked
           /\ conns[k].client = c => conns'[k].open = FALSE
           /\ conns[k].client # c => conns'[k].open = conns[k].open
  <2>1. conns' = Hung(conns, c)
    BY <1>1
  <2>2. /\ Hung(conns, c) \in Seq(Conns) /\ Len(Hung(conns, c)) = Len(conns)
        /\ \A k \in 1 .. Len(conns) :
             /\ Hung(conns, c)[k].client = conns[k].client
             /\ Hung(conns, c)[k].asked = conns[k].asked
             /\ conns[k].client = c => Hung(conns, c)[k].open = FALSE
             /\ conns[k].client # c => Hung(conns, c)[k].open = conns[k].open
    BY <1>4, HungTyped
  <2> QED BY <2>1, <2>2
<1>6. Typed'
  BY <1>1, <1>2, <1>3, <1>5 DEF Typed
<1>7. ASSUME NEW k \in 1 .. Len(conns')
      PROVE  Link(conns'[k], cl'[conns'[k].client])
  <2>0. k \in 1 .. Len(conns)
    BY <1>5
  <2>1. /\ conns'[k].client = conns[k].client /\ conns'[k].asked = conns[k].asked
        /\ conns[k].client = c => conns'[k].open = FALSE
        /\ conns[k].client # c => conns'[k].open = conns[k].open
    BY <2>0, <1>5
  <2>2. Link(conns[k], cl[conns[k].client]) /\ conns[k].client \in Clients
    BY <2>0, ConnTyped DEF Wired, Linked
  <2>3. CASE conns[k].client = c
    BY <2>1, <2>2, <2>3, <1>2, <1>3 DEF Link
  <2>4. CASE conns[k].client # c
    <3>1. cl'[conns[k].client] = cl[conns[k].client]
      BY <2>2, <2>4, <1>3
    <3> QED BY <3>1, <2>1, <2>2, <2>4 DEF Link
  <2> QED BY <2>3, <2>4
<1>8. Single(conns')
  <2>1. \A k \in 1 .. Len(conns) : Current(conns'[k]) => Current(conns[k])
    BY <1>5 DEF Current
  <2> QED BY <2>1, <1>5 DEF Wired, Single
<1>9. FirstHolds(conns', cl')
  <2> SUFFICES ASSUME NEW d \in Remote, cl'[d].io # "dead", cl'[d].pc \in Holding
               PROVE  conns' # << >> /\ conns'[1].client = d /\ conns'[1].open
    BY DEF FirstHolds
  <2>1. d # c
    BY <1>2, <1>3 DEF Holding, DownloadPcs
  <2>2. cl[d].io # "dead" /\ cl[d].pc \in Holding
    BY <2>1, <1>3, Constants
  <2>3. conns # << >> /\ conns[1].client = d /\ conns[1].open
    BY <2>2 DEF Wired, FirstHolds
  <2>4. 1 \in 1 .. Len(conns)
    BY <2>3, FirstConn
  <2>5. conns' # << >>
    BY <2>4, <1>5
  <2> QED BY <2>1, <2>3, <2>4, <2>5, <1>5
<1> QED BY <1>6, <1>7, <1>8, <1>9 DEF Wired, Linked

(* Every step keeps the types and the connections. *)
LEMMA TypedStep ==
  ASSUME Typed, Wired, [Next]_vars
  PROVE  Typed' /\ Wired'
<1>1. CASE Next
  <2>1. CASE ParseRequest
    BY <2>1, ParseTyped, ParseWired
  <2>2. CASE Hangup
    BY <2>2, HangupKeeps
  <2>3. CASE Board
    BY <2>3, BoardKeeps
  <2>4. ASSUME NEW c \in Clients, Program(c) \/ Kill(c) PROVE Typed' /\ Wired'
    BY <2>4, VerdictKeeps, LocalKeeps, SendKeeps, EndKeeps DEF Program
  <2> QED BY <1>1, <2>1, <2>2, <2>3, <2>4 DEF Next, Server
<1>2. CASE UNCHANGED vars
  BY <1>2 DEF vars, Typed, Wired
<1> QED BY <1>1, <1>2

LEMMA TypedInit ==
  ASSUME Init
  PROVE  Typed /\ Wired
<1>1. cl \in [Clients -> States] /\ \A c \in Clients : cl[c] = Fresh
  BY FreshTyped DEF Init
<1>2. \A c \in Clients : Sane(c, cl[c])
  BY <1>1 DEF Sane, Fresh, DownloadPcs
<1>3. conns = << >> /\ conns \in Seq(Conns) /\ Len(conns) = 0
  BY DEF Init
<1>4. PICK i \in Images \cup {None} :
        board = [st |-> "idle", fifo |-> << >>, init |-> FALSE, done |-> i # None,
                 cfg |-> IF i = None THEN << >> ELSE File(i)]
  BY DEF Init
<1>5. board \in Boards /\ Sized(board) /\ DoneMeansFile(board)
  <2> DEFINE g == IF i = None THEN << >> ELSE File(i)
  <2>1. g \in Seq(Word \cup {None}) /\ Len(g) <= Words
    <3>1. CASE i = None
      BY <3>1, Constants
    <3>2. CASE i # None
      <4>1. File(i) \in Seq(Word) /\ Len(File(i)) = Words
        BY <3>2, FileTyped
      <4>2. File(i) \in Seq(Word \cup {None})
        BY <4>1, SeqMonotonic
      <4> QED BY <4>1, <4>2, <3>2, Constants
    <3> QED BY <3>1, <3>2
  <2>2. i # None => g = File(i) /\ i \in Images
    OBVIOUS
  <2> HIDE DEF g
  <2>3. board = [st |-> "idle", fifo |-> << >>, init |-> FALSE, done |-> i # None, cfg |-> g]
    BY <1>4 DEF g
  <2>4. << >> \in Seq(Word) /\ (i # None) \in BOOLEAN /\ FALSE \in BOOLEAN
    OBVIOUS
  <2>5. board \in Boards
    BY <2>1, <2>3, <2>4 DEF Boards
  <2>6. Sized(board) /\ DoneMeansFile(board)
    <3>1. /\ board.fifo = << >> /\ board.cfg = g /\ board.st = "idle"
          /\ board.done = (i # None)
      BY <2>3
    <3>2. Len(<< >>) <= FifoDepth
      BY Constants
    <3> QED BY <3>1, <3>2, <2>1, <2>2 DEF Sized, DoneMeansFile
  <2> QED BY <2>5, <2>6
<1>6. errors \in 0 .. MaxErrors /\ kills \in 0 .. MaxKills
  BY Constants DEF Init
<1>7. Typed
  BY <1>1, <1>2, <1>3, <1>5, <1>6 DEF Typed
<1>8. Linked(conns, cl) /\ Single(conns)
  BY <1>3 DEF Linked, Single
<1>9. FirstHolds(conns, cl)
  BY <1>1, Constants DEF FirstHolds, Fresh, Holding, DownloadPcs
<1> QED BY <1>7, <1>8, <1>9 DEF Wired

-----------------------------------------------------------------------------
(* A step of nobody but a program (its own work, a request, its end) or of *)
(* the server that drops a connection.                                     *)
Quiet == Hangup \/ \E c \in Clients : Program(c) \/ Kill(c)

(* Such a step leaves the board alone when all downloads are remote, and   *)
(* gets no program into another phase, but to the end of main.             *)
LEMMA QuietStep ==
  ASSUME Typed, Wired, Quiet, Local \cap Downloaders = {}
  PROVE  /\ board' = board /\ errors' = errors
         /\ \A c \in Remote : cl'[c].io # "dead" =>
              /\ cl[c].io # "dead"
              /\ \/ /\ cl'[c].pc = cl[c].pc /\ cl'[c].sent = cl[c].sent
                    /\ cl'[c].count = cl[c].count /\ cl'[c].info = cl[c].info
                 \/ cl[c].pc = "verdict" /\ cl'[c].pc \in {"close", "exit"}
                 \/ cl'[c].pc = "end"
<1> DEFINE Keeps(c) ==
      cl'[c].io # "dead" =>
        /\ cl[c].io # "dead"
        /\ \/ /\ cl'[c].pc = cl[c].pc /\ cl'[c].sent = cl[c].sent
              /\ cl'[c].count = cl[c].count /\ cl'[c].info = cl[c].info
           \/ cl[c].pc = "verdict" /\ cl'[c].pc \in {"close", "exit"}
           \/ cl'[c].pc = "end"
<1>0. cl \in [Clients -> States] /\ Remote \subseteq Clients
  BY Constants DEF Typed
<1>1. CASE Hangup
  BY <1>1 DEF Hangup
<1>2. ASSUME NEW c \in Clients, Verdict(c)
      PROVE  board' = board /\ errors' = errors /\ \A d \in Remote : Keeps(d)
  <2>1. board' = board /\ errors' = errors /\ cl[c].pc = "verdict" /\ cl[c].io = "none"
    BY <1>2, VerdictShape
  <2>2. PICK t \in States : cl' = [cl EXCEPT ![c] = t] /\ t.io = "none" /\ t.pc \in {"close", "exit"}
    BY <1>2, VerdictShape
  <2>3. cl'[c] = t /\ \A d \in Clients : d # c => cl'[d] = cl[d]
    BY <2>2, <1>0, OneClient
  <2> QED BY <2>1, <2>2, <2>3, <1>0
<1>3. ASSUME NEW c \in Clients, LocalOpen(c) \/ LocalAccess(c)
      PROVE  board' = board /\ errors' = errors /\ \A d \in Remote : Keeps(d)
  <2>1. /\ c \in Local /\ errors' = errors /\ cl[c] \in States /\ Sane(c, cl[c])
        /\ board' = board \/ board' = Effect(c, cl[c], board)
    BY <1>3, LocalShape
  <2>2. PICK t \in States : cl' = [cl EXCEPT ![c] = t]
    BY <1>3, LocalShape
  <2>3. \A d \in Clients : d # c => cl'[d] = cl[d]
    BY <2>2, <1>0, OneClient
  <2>4. cl[c].pc \notin {"reset", "word"}
    BY <2>1 DEF Sane, DownloadPcs
  <2>5. Effect(c, cl[c], board) = board
    BY <2>4 DEF Effect
  <2>6. \A d \in Remote : d # c
    BY <2>1, Constants
  <2> QED BY <2>1, <2>3, <2>5, <2>6, <1>0
<1>4. ASSUME NEW c \in Clients, SendRequest(c)
      PROVE  board' = board /\ errors' = errors /\ \A d \in Remote : Keeps(d)
  <2>1. board' = board /\ errors' = errors /\ cl[c].io = "none"
    BY <1>4, SendShape
  <2>2. PICK t \in States : /\ cl' = [cl EXCEPT ![c] = t] /\ t.io = "sent"
                            /\ t.pc = cl[c].pc /\ t.sent = cl[c].sent
                            /\ t.count = cl[c].count /\ t.info = cl[c].info
    BY <1>4, SendShape
  <2>3. cl'[c] = t /\ \A d \in Clients : d # c => cl'[d] = cl[d]
    BY <2>2, <1>0, OneClient
  <2> QED BY <2>1, <2>2, <2>3, <1>0
<1>5. ASSUME NEW c \in Clients, Exit(c) \/ Kill(c)
      PROVE  board' = board /\ errors' = errors /\ \A d \in Remote : Keeps(d)
  <2>1. board' = board /\ errors' = errors
    BY <1>5, EndShape
  <2>2. PICK t \in States : /\ cl' = [cl EXCEPT ![c] = t]
                            /\ t.io = "dead" \/ (t.pc = "end" /\ cl[c].io = "none")
    BY <1>5, EndShape
  <2>3. cl'[c] = t /\ \A d \in Clients : d # c => cl'[d] = cl[d]
    BY <2>2, <1>0, OneClient
  <2> QED BY <2>1, <2>2, <2>3, <1>0
<1> QED BY <1>1, <1>2, <1>3, <1>4, <1>5 DEF Quiet, Program

-----------------------------------------------------------------------------
(* The words of a file in the FIFO, and nothing else. *)
OwnWords(c, b) == \A k \in 1 .. Len(b.fifo) : \E n \in 1 .. Words : b.fifo[k] = <<Job[c], n>>

Sending == {"init1", "init2", "word", "poll", "done"}
Programmed == {"prog", "md5", "block", "verdict", "close"}

(* While program c in state s downloads the words are its own, and DONE is *)
(* said of its file; afterwards its file is on the board.                  *)
Loads(c, s, b) ==
  /\ s.pc \in Sending => OwnWords(c, b) /\ (b.done => b.cfg = File(Job[c]))
  /\ s.pc \in Programmed => b.done /\ b.cfg = File(Job[c])

Loading ==
  \A c \in Remote \cap Downloaders : cl[c].io # "dead" => Loads(c, cl[c], board)

(* After an access of nf2_read_info. *)
LEMMA InfoPc ==
  ASSUME NEW c, NEW s \in States, NEW b \in Boards, DoneMeansFile(b), NEW ok \in BOOLEAN,
         NEW u, AnswerStep(c, s, b, ok, u), s.pc \in {"prog", "md5", "block"}
  PROVE  u.pc \in {"md5", "block", "verdict"}
<1> DEFINE st == StatusOf(b, ok)
           block == BlockOf(b, ok)
<1>1. u = AfterInfo(s, st, block)
  BY DEF AnswerStep
<1>2. st.done \in BOOLEAN
  BY DEF StatusOf, Status, BadStatus, Boards
<1>3. /\ block.mod \in 0 .. 2 /\ block.ver \in Int
      /\ block.cpci \in {i.cpci : i \in Images} \cup {None}
      /\ block.dir \in {i.dir : i \in Images} \cup {None}
  BY IdBlockTyped DEF BlockOf
<1> HIDE DEF st, block
<1> QED BY <1>1, <1>2, <1>3, AfterInfoTyped

(* What one step of the server's leads to. *)
LEMMA ParseLoads ==
  ASSUME Typed, Wired, Loading, ParseRequest
  PROVE  Loading'
<1>1. PICK d \in Remote, s \in States, ok \in BOOLEAN, t \in States : ParseStep(d, s, ok, t)
  BY ParseShape
<1>2. /\ d \in Clients /\ cl' = [cl EXCEPT ![d] = t] /\ conns # << >> /\ d = conns[1].client
      /\ s = cl[d] /\ s.pc \in Requests /\ Sane(d, s)
      /\ board' = IF ok THEN Effect(d, s, board) ELSE board
  BY <1>1 DEF ParseStep
<1>3. cl'[d] = t /\ \A e \in Clients : e # d => cl'[e] = cl[e]
  BY <1>2, OneClient DEF Typed
<1>4. board \in Boards /\ Sized(board) /\ DoneMeansFile(board)
  BY DEF Typed
<1> SUFFICES ASSUME NEW c \in Remote \cap Downloaders, cl'[c].io # "dead"
             PROVE  Loads(c, cl'[c], board')
  BY DEF Loading
<1>5. CASE c # d
  <2>1. cl'[c] = cl[c]
    BY <1>3, <1>5, Constants
  <2>2. cl[c].pc \notin Holding
    BY <2>1, <1>2, <1>5 DEF Wired, FirstHolds
  <2> QED BY <2>1, <2>2 DEF Loads, Sending, Programmed, Holding, DownloadPcs
<1>6. CASE c = d
  <2>1. t.io # "dead" /\ s.io # "dead"
    BY <1>1, <1>3, <1>6 DEF ParseStep
  <2>2. PICK u \in States : AnswerStep(c, s, board', ok, u) /\ t.pc = u.pc
    BY <1>1, <1>6, <2>1, LiveReply
  <2>3. Loads(c, s, board)
    BY <2>1, <1>2, <1>6 DEF Loading
  <2>4. SUFFICES Loads(c, u, board')
    BY <2>2, <1>3, <1>6 DEF Loads
  <2>5. s.pc \notin {"reset", "word"} => board' = board
    BY <1>2, <1>4, <1>6, EffectTyped
  <2>6. CASE s.pc \in {"check", "open", "reset", "close"}
    <3>1. u.pc \in {"open", "exit", "reset", "status", "end"}
      BY <2>2, <2>6 DEF AnswerStep
    <3> QED BY <3>1 DEF Loads, Sending, Programmed
  <2>7. CASE s.pc = "status"
    <3>1. StatusStep(s, StatusOf(board', ok), u)
      BY <2>2, <2>7 DEF AnswerStep
    <3>2. \/ u.pc = "exit"
          \/ u.pc = "init1" /\ ~StatusOf(board', ok).done /\ StatusOf(board', ok).empty
      BY <3>1, <2>7 DEF StatusStep
    <3>3. StatusOf(board', ok).empty => ok /\ board'.fifo = << >> /\ StatusOf(board', ok).done = board'.done
      BY DEF StatusOf, Status, BadStatus
    <3>4. CASE u.pc = "exit"
      BY <3>4 DEF Loads, Sending, Programmed
    <3>5. CASE u.pc = "init1"
      <4>1. board'.fifo = << >> /\ ~board'.done
        BY <3>2, <3>3, <3>5
      <4>2. OwnWords(c, board')
        BY <4>1 DEF OwnWords
      <4> QED BY <4>1, <4>2, <3>5 DEF Loads, Sending, Programmed
    <3> QED BY <3>2, <3>4, <3>5
  <2>8. CASE s.pc \in {"init1", "init2", "poll"}
    <3>1. StatusStep(s, StatusOf(board', ok), u)
      BY <2>2, <2>8 DEF AnswerStep
    <3>2. u.pc \in {"init1", "init2", "word", "poll", "done", "exit"}
      BY <3>1, <2>8 DEF StatusStep
    <3> QED BY <3>2, <2>3, <2>5, <2>8 DEF Loads, Sending, Programmed
  <2>9. CASE s.pc = "done"
    <3>1. StatusStep(s, StatusOf(board', ok), u)
      BY <2>2, <2>9 DEF AnswerStep
    <3>2. u.pc \in {"done", "exit"} \/ (u.pc = "prog" /\ StatusOf(board', ok).done)
      BY <3>1, <2>9 DEF StatusStep
    <3>3. StatusOf(board', ok).done => board'.done
      BY DEF StatusOf, Status, BadStatus
    <3> QED BY <3>2, <3>3, <2>3, <2>5, <2>9 DEF Loads, Sending, Programmed
  <2>10. CASE s.pc \in {"prog", "md5", "block"}
    <3>1. u.pc \in {"md5", "block", "verdict"}
      BY <2>2, <2>5, <2>10, <1>4, InfoPc
    <3> QED BY <3>1, <2>3, <2>5, <2>10 DEF Loads, Sending, Programmed
  <2>11. CASE s.pc = "word"
    <3>1. u.pc \in {"poll", "done", "word"}
      <4>1. u = WordSent(s) /\ s.sent < Words
        BY <2>2, <2>11, <1>2, <1>6 DEF AnswerStep, Sane
      <4> QED BY <4>1, WordSentTyped
    <3>2. OwnWords(c, board) /\ (board.done => board.cfg = File(Job[c]))
      BY <2>3, <2>11 DEF Loads, Sending
    <3> DEFINE w == <<Job[c], s.sent + 1>>
    <3>3. w \in Word /\ s.sent + 1 \in 1 .. Words
      BY <2>11, <1>2, <1>6, NextWordOfFile
    <3>4. board' = board \/ board' = ProgData(board, w)
      BY <2>11, <1>2, <1>4, <1>6, EffectTyped
    <3>5. CASE board' = ProgData(board, w)
      <4> HIDE DEF w
      <4>1. /\ board'.fifo = (IF Len(board.fifo) = FifoDepth THEN << >> ELSE Append(board.fifo, w))
            /\ board'.cfg = board.cfg /\ board'.done = board.done
        BY <3>3, <3>5, <1>4, DataTyped
      <4>2. board.fifo \in Seq(Word) /\ Len(board.fifo) \in Nat
        BY <1>4 DEF Boards
      <4>3. OwnWords(c, board')
        <5>1. CASE board'.fifo = << >>
          BY <5>1 DEF OwnWords
        <5>2. CASE board'.fifo = Append(board.fifo, w)
          <6>1. /\ Len(board'.fifo) = Len(board.fifo) + 1
                /\ \A i \in 1 .. Len(board.fifo) : board'.fifo[i] = board.fifo[i]
                /\ board'.fifo[Len(board.fifo) + 1] = w
            BY <5>2, <4>2, <3>3, AppendProperties
          <6>2. \A k \in 1 .. Len(board'.fifo) : k \in 1 .. Len(board.fifo) \/ k = Len(board.fifo) + 1
            BY <6>1, <4>2
          <6> QED BY <6>1, <6>2, <3>2, <3>3 DEF OwnWords, w
        <5> QED BY <5>1, <5>2, <4>1
      <4> QED BY <4>1, <4>3, <3>1, <3>2 DEF Loads, Sending, Programmed
    <3>6. CASE board' = board
      BY <3>6, <3>1, <3>2 DEF Loads, Sending, Programmed
    <3> QED BY <3>4, <3>5, <3>6
  <2> QED BY <2>6, <2>7, <2>8, <2>9, <2>10, <2>11, <1>2 DEF Requests, Accesses
<1> QED BY <1>5, <1>6

(* The board's own steps: what a Shift does to the FIFO and the Virtex. *)
LEMMA ShiftShape ==
  ASSUME Typed, Shift
  PROVE  \E w \in Word \cup {None} :
           /\ board.st = "download" /\ board.fifo # << >> /\ ~board.done
           /\ w = None \/ w = Head(board.fifo)
           /\ errors' = 0 => errors = 0 /\ w = Head(board.fifo)
           /\ \/ ~board'.done /\ board'.fifo = Tail(board.fifo) /\ board'.cfg = Append(board.cfg, w)
              \/ board'.done /\ board'.fifo = Tail(board.fifo) /\ board'.cfg = Append(board.cfg, w)
              \/ /\ ~board'.done /\ board'.fifo = << >> /\ board'.cfg = << >>
                 /\ Len(Append(board.cfg, w)) = Words
                 /\ \A i \in Images : Append(board.cfg, w) # File(i)
<1>1. PICK damaged \in BOOLEAN :
        /\ damaged => errors < MaxErrors
        /\ errors' = errors + (IF damaged THEN 1 ELSE 0)
        /\ board' = Configured([board EXCEPT !.fifo = Tail(@),
             !.cfg = Append(@, IF damaged THEN None ELSE Head(board.fifo))])
  BY DEF Shift
<1>2. board.st = "download" /\ board.fifo # << >>
  BY DEF Shift
<1>3. board \in Boards /\ Sized(board) /\ DoneMeansFile(board)
  BY DEF Typed
<1> DEFINE w == IF damaged THEN None ELSE Head(board.fifo)
<1>4. w \in Word \cup {None} /\ (w = None \/ w = Head(board.fifo))
  <2>1. board.fifo \in Seq(Word)
    BY <1>3 DEF Boards
  <2> QED BY <2>1, <1>2, HeadTailProperties
<1>5. errors' = 0 => errors = 0 /\ w = Head(board.fifo)
  <2>1. errors \in Nat
    BY Constants DEF Typed
  <2> QED BY <2>1, <1>1
<1>6. board' = Configured([board EXCEPT !.fifo = Tail(@), !.cfg = Append(@, w)])
  BY <1>1
<1>7. ~board.done
  BY <1>2, <1>3 DEF DoneMeansFile
<1> HIDE DEF w
<1>8. \/ ~board'.done /\ board'.fifo = Tail(board.fifo) /\ board'.cfg = Append(board.cfg, w)
      \/ board'.done /\ board'.fifo = Tail(board.fifo) /\ board'.cfg = Append(board.cfg, w)
      \/ /\ ~board'.done /\ board'.fifo = << >> /\ board'.cfg = << >>
         /\ Len(Append(board.cfg, w)) = Words
         /\ \A i \in Images : Append(board.cfg, w) # File(i)
  BY <1>2, <1>3, <1>4, <1>6, ShiftTyped
<1> QED BY <1>2, <1>4, <1>5, <1>7, <1>8

LEMMA BoardLoads ==
  ASSUME Typed, Wired, Loading, Board
  PROVE  Loading'
<1>0. cl' = cl
  BY DEF Board, Cleared, Shift
<1>1. board \in Boards /\ Sized(board) /\ DoneMeansFile(board)
  BY DEF Typed
<1> SUFFICES ASSUME NEW c \in Remote \cap Downloaders, cl[c].io # "dead"
             PROVE  Loads(c, cl[c], board')
  BY <1>0 DEF Loading
<1>2. Loads(c, cl[c], board) /\ Job[c] \in Images
  BY Constants DEF Loading
<1>3. CASE Cleared
  <2>1. /\ board'.fifo = board.fifo /\ board'.cfg = board.cfg /\ board'.done = board.done
    BY <1>1, <1>3 DEF Cleared, Boards
  <2> QED BY <2>1, <1>2 DEF Loads, OwnWords
<1>4. CASE Shift
  <2>1. PICK w \in Word \cup {None} :
          /\ board.st = "download" /\ board.fifo # << >> /\ ~board.done
          /\ w = None \/ w = Head(board.fifo)
          /\ \/ ~board'.done /\ board'.fifo = Tail(board.fifo) /\ board'.cfg = Append(board.cfg, w)
             \/ board'.done /\ board'.fifo = Tail(board.fifo) /\ board'.cfg = Append(board.cfg, w)
             \/ ~board'.done /\ board'.fifo = << >>
    BY <1>4, ShiftShape
  <2>2. cl[c].pc \notin Programmed
    BY <2>1, <1>2 DEF Loads
  <2> SUFFICES ASSUME cl[c].pc \in Sending
               PROVE  OwnWords(c, board') /\ (board'.done => board'.cfg = File(Job[c]))
    BY <2>2 DEF Loads
  <2>3. OwnWords(c, board)
    BY <1>2 DEF Loads
  <2>4. /\ board.fifo \in Seq(Word) /\ board.cfg \in Seq(Word \cup {None})
        /\ Len(board.fifo) \in Nat /\ Len(board.fifo) > 0
    BY <2>1, <1>1, EmptySeq, LenProperties DEF Boards
  <2>5. OwnWords(c, board')
    <3>1. CASE board'.fifo = << >>
      BY <3>1 DEF OwnWords
    <3>2. CASE board'.fifo = Tail(board.fifo)
      <4>1. /\ Len(board'.fifo) = Len(board.fifo) - 1
            /\ \A k \in 1 .. Len(board'.fifo) : board'.fifo[k] = board.fifo[k + 1]
        BY <3>2, <2>1, <2>4, HeadTailProperties
      <4>2. \A k \in 1 .. Len(board'.fifo) : k + 1 \in 1 .. Len(board.fifo)
        BY <4>1, <2>4
      <4> QED BY <4>1, <4>2, <2>3 DEF OwnWords
    <3> QED BY <3>1, <3>2, <2>1
  <2>6. ASSUME board'.done PROVE board'.cfg = File(Job[c])
    <3>1. board'.cfg = Append(board.cfg, w)
      BY <2>1, <2>6
    <3>2. board' \in Boards /\ DoneMeansFile(board')
      <4>1. Typed'
        BY BoardKeeps
      <4> QED BY <4>1 DEF Typed
    <3>3. PICK i \in Images : board'.cfg = File(i)
      BY <3>2, <2>6 DEF DoneMeansFile
    <3>4. Len(File(i)) = Words /\ File(i)[Words] = <<i, Words>> /\ <<i, Words>> \in Word
      <4>1. Words \in 1 .. Words
        BY Constants
      <4> QED BY <4>1, FileTyped DEF Word
    <3>5. Append(board.cfg, w)[Len(Append(board.cfg, w))] = w
      BY <2>4, AppendProperties
    <3>6. w = <<i, Words>>
      BY <3>1, <3>3, <3>4, <3>5
    <3>7. w # None
      BY <3>4, <3>6, RegProxyAssumption DEF RegProxyAssumption, Word
    <3>8. w = board.fifo[1]
      BY <3>7, <2>1, <2>4
    <3>9. PICK n \in 1 .. Words : board.fifo[1] = <<Job[c], n>>
      BY <2>3, <2>4 DEF OwnWords
    <3>10. i = Job[c]
      BY <3>6, <3>8, <3>9
    <3> QED BY <3>3, <3>10
  <2> QED BY <2>5, <2>6
<1> QED BY <1>3, <1>4 DEF Board

LEMMA LoadingStep ==
  ASSUME Typed, Wired, Loading, [Next]_vars, Local \cap Downloaders = {}
  PROVE  Loading'
<1>1. CASE Quiet
  <2>1. /\ board' = board
        /\ \A c \in Remote : cl'[c].io # "dead" =>
             /\ cl[c].io # "dead"
             /\ \/ cl'[c].pc = cl[c].pc
                \/ cl[c].pc = "verdict" /\ cl'[c].pc \in {"close", "exit"}
                \/ cl'[c].pc = "end"
    BY <1>1, QuietStep
  <2> SUFFICES ASSUME NEW c \in Remote \cap Downloaders, cl'[c].io # "dead"
               PROVE  Loads(c, cl'[c], board)
    BY <2>1 DEF Loading
  <2>2. cl[c].io # "dead" /\ Loads(c, cl[c], board)
    BY <2>1 DEF Loading
  <2> QED BY <2>1, <2>2 DEF Loads, Sending, Programmed
<1>2. CASE ParseRequest
  BY <1>2, ParseLoads
<1>3. CASE Board
  BY <1>3, BoardLoads
<1>4. CASE UNCHANGED vars
  BY <1>4 DEF vars, Loading
<1> QED BY <1>1, <1>2, <1>3, <1>4 DEF Next, Server, Quiet

LEMMA LoadingInit == ASSUME Init PROVE Loading
BY Constants DEF Init, Loading, Loads, Fresh, Sending, Programmed

-----------------------------------------------------------------------------
(* The types and the connections hold whoever downloads. *)
THEOREM ProxyInvariant == Spec => [](Typed /\ Wired)
<1>1. Init => Typed /\ Wired
  BY TypedInit
<1>2. (Typed /\ Wired) /\ [Next]_vars => (Typed /\ Wired)'
  BY TypedStep
<1>3. Spec => Init /\ [][Next]_vars
  BY DEF Spec
<1> QED BY <1>1, <1>2, <1>3, PTL

(* Programs, connections and the board keep their types: no counter of     *)
(* nf_download leaves its range, the FIFO is no longer than it is, and the *)
(* Virtex never takes more words than a bitfile has.                       *)
THEOREM TypeCorrect == Spec => []TypeOK
<1>1. Typed => TypeOK
  <2> SUFFICES ASSUME Typed PROVE TypeOK
    OBVIOUS
  <2>1. \A c \in Clients : /\ cl[c].pc \in Pcs /\ cl[c].io \in {"none", "sent", "dead"}
                           /\ cl[c].sent \in 0 .. Words /\ cl[c].count \in 0 .. Burst - 1
                           /\ cl[c].tries \in 0 .. 3 /\ cl[c].info \in Infos
    <3> SUFFICES ASSUME NEW c \in Clients
                 PROVE  /\ cl[c].pc \in Pcs /\ cl[c].io \in {"none", "sent", "dead"}
                        /\ cl[c].sent \in 0 .. Words /\ cl[c].count \in 0 .. Burst - 1
                        /\ cl[c].tries \in 0 .. 3 /\ cl[c].info \in Infos
      OBVIOUS
    <3>1. cl[c] \in States
      BY DEF Typed
    <3> QED BY <3>1 DEF States, Ios
  <2>2. \A k \in 1 .. Len(conns) : /\ conns[k].client \in Remote
                                   /\ {conns[k].open, conns[k].asked} \subseteq BOOLEAN
    BY ConnTyped
  <2>3. board.st \in {"idle", "clear", "download"}
    BY DEF Typed, Boards
  <2>4. Len(board.fifo) <= FifoDepth /\ Len(board.cfg) <= Words
    BY DEF Typed, Sized
  <2> QED BY <2>1, <2>2, <2>3, <2>4 DEF TypeOK, Typed
<1> QED BY <1>1, ProxyInvariant, PTL

(* "chip has been successfully programmed" is true, however many programs  *)
(* use the proxy, whatever accesses fail, whatever words are damaged and   *)
(* whoever is killed: when all downloads go through the proxy.             *)
THEOREM SuccessMeansLoaded == Local \cap Downloaders = {} => (Spec => []SuccessIntact)
<1> SUFFICES ASSUME Local \cap Downloaders = {} PROVE Spec => []SuccessIntact
  OBVIOUS
<1>1. Init => Loading
  BY LoadingInit
<1>2. (Typed /\ Wired) /\ Loading /\ [Next]_vars => Loading'
  BY LoadingStep
<1>3. Spec => Init /\ [][Next]_vars
  BY DEF Spec
<1>4. Typed /\ Loading => SuccessIntact
  <2> SUFFICES ASSUME Typed, Loading, NEW c \in Remote \cap Downloaders,
                      cl[c].io # "dead", cl[c].pc \in Programmed
               PROVE  Loaded(board) = Job[c]
    BY DEF SuccessIntact, Programmed, Alive
  <2>1. board.done /\ board.cfg = File(Job[c]) /\ Job[c] \in Images
    BY Constants DEF Loading, Loads
  <2>2. Loaded(board) \in Images /\ board.cfg = File(Loaded(board))
    BY <2>1, LoadedTyped DEF Typed
  <2> QED BY <2>1, <2>2, FilesDiffer
<1> QED BY <1>1, <1>2, <1>3, <1>4, ProxyInvariant, PTL

-----------------------------------------------------------------------------
(* The sizes of the code: the FIFO takes a burst, a block of the file is a *)
(* number of bursts.                                                       *)
Fits == FifoDepth >= Burst /\ BlockWords % Burst = 0

Beginning == {"check", "open", "reset", "status", "init1", "init2"}

(* Without failures: what program c in state s has sent is in the Virtex   *)
(* and the FIFO, in order, and the FIFO holds no more than the words of    *)
(* the present burst.                                                      *)
Streams(c, s, b) ==
  /\ s.pc \in Beginning => s.sent = 0 /\ s.count = 0
  /\ s.pc \in Sending \cup {"status"} => b.cfg \o b.fifo = SubSeq(File(Job[c]), 1, s.sent)
  /\ s.pc = "word" => Len(b.fifo) <= s.count /\ \E k \in Nat : s.sent = k * Burst + s.count
  /\ s.pc = "poll" => s.count = 0 /\ \E k \in Nat : s.sent = k * Burst

Streaming ==
  errors = 0 => \A c \in Remote \cap Downloaders :
                  cl[c].io # "dead" => Streams(c, cl[c], board)

(* In the middle of a burst no block of the file ends. *)
LEMMA BlockEnd ==
  ASSUME NEW b \in Nat \ {0}, NEW w \in Nat \ {0}, w % b = 0,
         NEW k \in Nat, NEW m \in 0 .. b - 1, m + 1 # b
  PROVE  (k * b + m + 1) % w # 0
<1> SUFFICES ASSUME (k * b + m + 1) % w = 0 PROVE FALSE
  OBVIOUS
<1> DEFINE n == k * b + m + 1
           p == w \div b
           q == n \div w
<1>1. k * b \in Nat
  OBVIOUS
<1>2. n \in Nat
  BY <1>1
<1>3. p \in Int /\ w = b * p
  <2>1. w = b * (w \div b) + (w % b)
    OBVIOUS
  <2> QED BY <2>1
<1> HIDE DEF n
<1>4. q \in Int /\ n = w * q
  <2>1. n = w * (n \div w) + (n % w)
    BY <1>2
  <2>2. n % w = 0
    BY DEF n
  <2> QED BY <2>1, <2>2, <1>2
<1> HIDE DEF p, q
<1>5. n = b * (p * q)
  BY <1>3, <1>4
<1>6. p * q \in Int
  BY <1>3, <1>4
<1>7. PICK j \in Int : j = p * q - k
  BY <1>6
<1>8. b * j = b * (p * q) - b * k
  BY <1>6, <1>7
<1>9. b * j = m + 1
  <2>1. b * k = k * b
    OBVIOUS
  <2> QED BY <2>1, <1>1, <1>5, <1>8 DEF n
<1>10. CASE j <= 0
  <2>1. b * j <= 0
    BY <1>10
  <2> QED BY <2>1, <1>9
<1>11. CASE j >= 1
  <2>1. b * j >= b
    BY <1>11
  <2> QED BY <2>1, <1>9
<1> QED BY <1>7, <1>10, <1>11

(* The file's words that were sent. *)
LEMMA SentTyped ==
  ASSUME NEW i \in Images, NEW n \in 0 .. Words
  PROVE  /\ SubSeq(File(i), 1, n) \in Seq(Word) /\ Len(SubSeq(File(i), 1, n)) = n
         /\ \A k \in 1 .. n : SubSeq(File(i), 1, n)[k] = <<i, k>>
<1>1. \A k \in 1 .. n : k \in 1 .. Words
  BY Constants
<1>2. \A k \in 1 .. n : File(i)[k] = <<i, k>> /\ <<i, k>> \in Word
  BY <1>1, FileTyped DEF Word
<1>3. /\ SubSeq(File(i), 1, n) \in Seq(Word)
      /\ Len(SubSeq(File(i), 1, n)) = (IF 1 <= n THEN n - 1 + 1 ELSE 0)
      /\ \A k \in 1 .. n - 1 + 1 : SubSeq(File(i), 1, n)[k] = File(i)[1 + k - 1]
  <2>1. PICK f : f = File(i)
    OBVIOUS
  <2>2. \A k \in 1 .. n : f[k] \in Word
    BY <2>1, <1>2
  <2>3. 1 \in Int /\ n \in Int
    OBVIOUS
  <2>4. /\ SubSeq(f, 1, n) \in Seq(Word)
        /\ Len(SubSeq(f, 1, n)) = (IF 1 <= n THEN n - 1 + 1 ELSE 0)
        /\ \A k \in 1 .. n - 1 + 1 : SubSeq(f, 1, n)[k] = f[1 + k - 1]
    BY <2>2, <2>3, SubSeqProperties
  <2> QED BY <2>1, <2>4
<1>4. Len(SubSeq(File(i), 1, n)) = n
  BY <1>3
<1>5. ASSUME NEW k \in 1 .. n PROVE SubSeq(File(i), 1, n)[k] = <<i, k>>
  <2>1. k \in 1 .. n - 1 + 1 /\ 1 + k - 1 = k
    OBVIOUS
  <2> QED BY <2>1, <1>2, <1>3
<1> QED BY <1>3, <1>4, <1>5

(* A word is sent to a FIFO that has room. *)
LEMMA OneMoreWord ==
  ASSUME NEW i \in Images, NEW n \in 0 .. Words, n < Words,
         NEW g \in Seq(Word \cup {None}), NEW f \in Seq(Word),
         g \o f = SubSeq(File(i), 1, n)
  PROVE  g \o Append(f, <<i, n + 1>>) = SubSeq(File(i), 1, n + 1)
<1>1. n + 1 \in 0 .. Words /\ n + 1 \in 1 .. Words /\ Words \in Nat
  BY Constants
<1>2. File(i) \in Seq(Word) /\ Len(File(i)) = Words /\ File(i)[n + 1] = <<i, n + 1>>
  BY <1>1, FileTyped
<1>3. SubSeq(File(i), 1, n + 1) = SubSeq(File(i), 1, (n + 1) - 1) \o <<File(i)[n + 1]>>
  <2>1. 1 \in 1 .. Len(File(i)) /\ n + 1 \in 1 .. Len(File(i))
    BY <1>1, <1>2
  <2> QED BY <2>1, <1>2, SubSeqRecursiveSecond
<1>4. (n + 1) - 1 = n
  BY <1>1
<1>5. SubSeq(File(i), 1, n + 1) = (g \o f) \o <<<<i, n + 1>>>>
  BY <1>2, <1>3, <1>4
<1>6. <<i, n + 1>> \in Word
  BY <1>1 DEF Word
<1>7. f \in Seq(Word \cup {None}) /\ <<<<i, n + 1>>>> \in Seq(Word \cup {None})
  BY <1>6, SeqMonotonic
<1>8. (g \o f) \o <<<<i, n + 1>>>> = g \o (f \o <<<<i, n + 1>>>>)
  BY <1>7, ConcatAssociative
<1>9. Append(f, <<i, n + 1>>) = f \o <<<<i, n + 1>>>>
  BY <1>6, AppendIsConcat
<1> QED BY <1>5, <1>8, <1>9

(* A word goes from the FIFO to the Virtex. *)
LEMMA ShiftedWord ==
  ASSUME NEW g \in Seq(Word \cup {None}), NEW f \in Seq(Word), f # << >>
  PROVE  Append(g, Head(f)) \o Tail(f) = g \o f
<1>1. Head(f) \in Word /\ Tail(f) \in Seq(Word) /\ f = <<Head(f)>> \o Tail(f)
  <2>1. Head(f) \in Word /\ Tail(f) \in Seq(Word)
    BY HeadTailProperties
  <2>2. Len(f) \in Nat /\ Len(f) > 0
    BY EmptySeq, LenProperties
  <2>3. 1 \in 1 .. Len(f) /\ Len(f) \in 1 .. Len(f)
    BY <2>2
  <2>4. SubSeq(f, 1, Len(f)) = <<f[1]>> \o SubSeq(f, 1 + 1, Len(f))
    BY <2>3, SubSeqRecursiveFirst
  <2>5. SubSeq(f, 1, Len(f)) = f /\ Tail(f) = SubSeq(f, 2, Len(f)) /\ Head(f) = f[1]
    BY SubSeqFull, TailIsSubSeq
  <2> QED BY <2>1, <2>4, <2>5
<1>2. <<Head(f)>> \in Seq(Word \cup {None}) /\ Tail(f) \in Seq(Word \cup {None})
  BY <1>1, SeqMonotonic
<1>3. (g \o <<Head(f)>>) \o Tail(f) = g \o (<<Head(f)>> \o Tail(f))
  BY <1>2, ConcatAssociative
<1>4. Append(g, Head(f)) = g \o <<Head(f)>>
  BY <1>1, AppendIsConcat
<1> QED BY <1>1, <1>3, <1>4

(* A Virtex that has taken as many of the words as a file has, has the file. *)
LEMMA WholeFile ==
  ASSUME NEW i \in Images, NEW n \in 0 .. Words,
         NEW g \in Seq(Word \cup {None}), NEW f \in Seq(Word \cup {None}),
         g \o f = SubSeq(File(i), 1, n), Len(g) = Words
  PROVE  g = File(i) /\ n = Words /\ f = << >>
<1>1. /\ Len(g \o f) = Len(g) + Len(f)
      /\ \A k \in 1 .. Len(g) + Len(f) : (g \o f)[k] = IF k <= Len(g) THEN g[k] ELSE f[k - Len(g)]
  BY ConcatProperties
<1>2. Len(g \o f) = n /\ \A k \in 1 .. n : (g \o f)[k] = <<i, k>>
  BY SentTyped
<1>3. Len(g) \in Nat /\ Len(f) \in Nat
  BY LenProperties
<1>4. n = Words /\ Len(f) = 0
  BY <1>1, <1>2, <1>3, Constants
<1>5. \A k \in 1 .. Words : g[k] = <<i, k>>
  <2> SUFFICES ASSUME NEW k \in 1 .. Words PROVE g[k] = <<i, k>>
    OBVIOUS
  <2>1. k \in 1 .. Len(g) + Len(f) /\ k <= Len(g) /\ k \in 1 .. n
    BY <1>3, <1>4, Constants
  <2> QED BY <2>1, <1>1, <1>2
<1>6. File(i) \in Seq(Word) /\ Len(File(i)) = Words /\ \A k \in 1 .. Words : File(i)[k] = <<i, k>>
  BY FileTyped
<1>7. File(i) \in Seq(Word \cup {None})
  BY <1>6, SeqMonotonic
<1>8. g = File(i)
  BY <1>5, <1>6, <1>7, SeqEqual
<1>9. f = << >>
  BY <1>4, EmptySeq
<1> QED BY <1>4, <1>8, <1>9

(* The board's steps keep the stream. *)
LEMMA BoardStreams ==
  ASSUME Typed, Streaming, Board
  PROVE  Streaming'
<1>0. cl' = cl
  BY DEF Board, Cleared, Shift
<1>1. board \in Boards /\ Sized(board) /\ DoneMeansFile(board) /\ cl \in [Clients -> States]
  BY DEF Typed
<1> SUFFICES ASSUME errors' = 0, NEW c \in Remote \cap Downloaders, cl[c].io # "dead"
             PROVE  Streams(c, cl[c], board')
  BY <1>0 DEF Streaming
<1>2. Job[c] \in Images /\ c \in Clients
  BY Constants
<1>3. cl[c].sent \in 0 .. Words
  BY <1>1, <1>2 DEF States
<1>4. CASE Cleared
  <2>1. /\ board'.fifo = board.fifo /\ board'.cfg = board.cfg /\ errors' = errors
    BY <1>1, <1>4 DEF Cleared, Boards
  <2>2. Streams(c, cl[c], board)
    BY <2>1 DEF Streaming
  <2> QED BY <2>1, <2>2 DEF Streams
<1>5. CASE Shift
  <2>1. PICK w \in Word \cup {None} :
          /\ board.fifo # << >> /\ errors = 0 /\ w = Head(board.fifo)
          /\ \/ board'.fifo = Tail(board.fifo) /\ board'.cfg = Append(board.cfg, w)
             \/ /\ Len(Append(board.cfg, w)) = Words
                /\ \A i \in Images : Append(board.cfg, w) # File(i)
    BY <1>5, ShiftShape
  <2>2. Streams(c, cl[c], board)
    BY <2>1 DEF Streaming
  <2>3. /\ board.fifo \in Seq(Word) /\ board.cfg \in Seq(Word \cup {None})
        /\ Len(board.fifo) \in Nat
    BY <1>1 DEF Boards
  <2>4. Append(board.cfg, w) \o Tail(board.fifo) = board.cfg \o board.fifo
    BY <2>1, <2>3, ShiftedWord
  <2>5. CASE cl[c].pc \in Sending \cup {"status"}
    <3>1. Append(board.cfg, w) \o Tail(board.fifo) = SubSeq(File(Job[c]), 1, cl[c].sent)
      BY <2>2, <2>4, <2>5 DEF Streams
    <3>2. Tail(board.fifo) \in Seq(Word) /\ Len(Tail(board.fifo)) = Len(board.fifo) - 1
      BY <2>1, <2>3, HeadTailProperties
    <3>3. Append(board.cfg, w) \in Seq(Word \cup {None}) /\ Tail(board.fifo) \in Seq(Word \cup {None})
      BY <2>3, <3>2, AppendProperties, SeqMonotonic
    <3>4. Len(Append(board.cfg, w)) = Words => Append(board.cfg, w) = File(Job[c])
      BY <3>1, <3>3, <1>2, <1>3, WholeFile
    <3>5. board'.fifo = Tail(board.fifo) /\ board'.cfg = Append(board.cfg, w)
      BY <3>4, <2>1, <1>2
    <3>6. cl[c].pc = "word" => Len(board'.fifo) <= cl[c].count
      <4>1. cl[c].count \in Nat
        BY <1>1, <1>2, Constants DEF States
      <4> QED BY <4>1, <3>2, <3>5, <2>2, <2>3 DEF Streams
    <3> QED BY <3>1, <3>5, <3>6, <2>2 DEF Streams
  <2>6. CASE cl[c].pc \notin Sending \cup {"status"}
    BY <2>2, <2>6 DEF Streams, Sending
  <2> QED BY <2>5, <2>6
<1> QED BY <1>4, <1>5 DEF Board

(* The server's answers keep the stream. *)
LEMMA ParseStreams ==
  ASSUME Typed, Wired, Streaming, ParseRequest, Fits
  PROVE  Streaming'
<1>1. PICK d \in Remote, s \in States, ok \in BOOLEAN, t \in States : ParseStep(d, s, ok, t)
  BY ParseShape
<1>2. /\ d \in Clients /\ cl' = [cl EXCEPT ![d] = t] /\ conns # << >> /\ d = conns[1].client
      /\ s = cl[d] /\ s.pc \in Requests /\ Sane(d, s)
      /\ board' = IF ok THEN Effect(d, s, board) ELSE board
      /\ errors' = errors + (IF ok THEN 0 ELSE 1)
  BY <1>1 DEF ParseStep
<1>3. cl'[d] = t /\ \A e \in Clients : e # d => cl'[e] = cl[e]
  BY <1>2, OneClient DEF Typed
<1>4. board \in Boards /\ Sized(board) /\ DoneMeansFile(board)
  BY DEF Typed
<1> SUFFICES ASSUME errors' = 0, NEW c \in Remote \cap Downloaders, cl'[c].io # "dead"
             PROVE  Streams(c, cl'[c], board')
  BY DEF Streaming
<1>5. ok /\ errors = 0 /\ board' = Effect(d, s, board)
  <2>1. errors \in Nat
    BY Constants DEF Typed
  <2> QED BY <2>1, <1>2
<1>6. Job[c] \in Images /\ c \in Clients
  BY Constants
<1>7. CASE c # d
  <2>1. cl'[c] = cl[c]
    BY <1>3, <1>6, <1>7
  <2>2. cl[c].pc \notin Holding
    BY <2>1, <1>2, <1>7 DEF Wired, FirstHolds
  <2>3. Streams(c, cl[c], board)
    BY <2>1, <1>5 DEF Streaming
  <2> QED BY <2>1, <2>2, <2>3 DEF Streams, Sending, Holding, DownloadPcs
<1>8. CASE c = d
  <2>1. t.io # "dead" /\ s.io # "dead"
    BY <1>1, <1>3, <1>8 DEF ParseStep
  <2>2. PICK u \in States : /\ AnswerStep(c, s, board', ok, u) /\ t.pc = u.pc
                            /\ t.sent = u.sent /\ t.count = u.count
    BY <1>1, <1>8, <2>1, LiveReply
  <2>3. Streams(c, s, board)
    BY <2>1, <1>2, <1>5, <1>8 DEF Streaming
  <2>4. SUFFICES Streams(c, u, board')
    BY <2>2, <1>3, <1>8 DEF Streams
  <2>5. s.pc \notin {"reset", "word"} => board' = board
    BY <1>2, <1>4, <1>8, EffectTyped
  <2>6. s.sent \in 0 .. Words /\ s.count \in 0 .. Burst - 1 /\ Burst \in Nat \ {0} /\ Words \in Nat \ {0}
    BY Constants DEF States
  <2>7. CASE s.pc \in {"check", "open", "close"}
    <3>1. /\ u.pc \in {"open", "exit", "reset", "end"}
          /\ u.pc \in {"open", "reset"} => u.sent = s.sent /\ u.count = s.count /\ s.pc # "close"
      BY <2>2, <2>7 DEF AnswerStep
    <3> QED BY <3>1, <2>3, <2>7 DEF Streams, Sending, Beginning
  <2>8. CASE s.pc = "reset"
    <3>1. u.pc = "status" /\ u.sent = 0 /\ u.count = 0
      BY <2>2, <2>3, <2>8 DEF AnswerStep, Streams, Beginning
    <3>2. board'.fifo = << >> /\ board'.cfg = << >>
      BY <2>8, <1>2, <1>4, <1>5, <1>8, EffectTyped, ResetTyped
    <3>3. SubSeq(File(Job[c]), 1, 0) = << >>
      BY SubSeqEmpty
    <3>4. << >> \o << >> = << >>
      OBVIOUS
    <3> QED BY <3>1, <3>2, <3>3, <3>4 DEF Streams, Sending
  <2>9. CASE s.pc \in {"status", "init1", "init2"}
    <3>0. StatusStep(s, StatusOf(board', ok), u)
      BY <2>2, <2>9 DEF AnswerStep
    <3>1. /\ u.pc \in {"exit", "init1", "init2", "word", "done"}
          /\ u.pc # "exit" => u.sent = s.sent
          /\ u.pc \in {"init1", "init2", "word"} => u.count = s.count
      BY <3>0, <2>9 DEF StatusStep
    <3>2. /\ s.sent = 0 /\ s.count = 0
          /\ board.cfg \o board.fifo = SubSeq(File(Job[c]), 1, s.sent)
      BY <2>3, <2>9 DEF Streams, Beginning, Sending
    <3>3. board' = board
      BY <2>5, <2>9
    <3>4. Len(board.fifo) = 0
      <4>1. board.fifo \in Seq(Word) /\ board.cfg \in Seq(Word \cup {None})
        BY <1>4 DEF Boards
      <4>2. board.fifo \in Seq(Word \cup {None})
        BY <4>1, SeqMonotonic
      <4>3. Len(board.cfg \o board.fifo) = Len(board.cfg) + Len(board.fifo)
        BY <4>1, <4>2, ConcatProperties
      <4>4. Len(board.cfg \o board.fifo) = 0
        BY <3>2, <2>6, <1>6, SentTyped
      <4>5. Len(board.cfg) \in Nat /\ Len(board.fifo) \in Nat
        BY <4>1, LenProperties
      <4>6. PICK x \in Nat, y \in Nat : x = Len(board.cfg) /\ y = Len(board.fifo)
        BY <4>5
      <4>7. x + y = 0
        BY <4>3, <4>4, <4>6
      <4>8. y = 0
        BY <4>7
      <4> QED BY <4>6, <4>8
    <3>5. 0 \in Nat /\ 0 = 0 * Burst + 0
      BY <2>6
    <3>6. CASE u.pc = "exit"
      BY <3>6 DEF Streams, Beginning, Sending
    <3>7. CASE u.pc \in {"init1", "init2"}
      BY <3>1, <3>2, <3>3, <3>7 DEF Streams, Beginning, Sending
    <3>8. CASE u.pc = "word"
      <4>1. u.sent = 0 /\ u.count = 0
        BY <3>1, <3>2, <3>8
      <4>2. Len(board'.fifo) <= u.count
        BY <4>1, <3>3, <3>4
      <4>3. \E k \in Nat : u.sent = k * Burst + u.count
        BY <4>1, <3>5
      <4>4. board'.cfg \o board'.fifo = SubSeq(File(Job[c]), 1, u.sent)
        BY <4>1, <3>2, <3>3
      <4> QED BY <4>2, <4>3, <4>4, <3>8 DEF Streams, Beginning, Sending
    <3>9. CASE u.pc = "done"
      BY <3>1, <3>2, <3>3, <3>9 DEF Streams, Beginning, Sending
    <3> QED BY <3>1, <3>6, <3>7, <3>8, <3>9
  <2>10. CASE s.pc = "poll"
    <3>0. StatusStep(s, StatusOf(board', ok), u)
      BY <2>2, <2>10 DEF AnswerStep
    <3>1. /\ \/ u.pc \in {"exit", "poll", "done"}
             \/ u.pc = "word" /\ (StatusOf(board', ok).done \/ StatusOf(board', ok).empty)
          /\ u.pc # "exit" => u.sent = s.sent
          /\ u.pc \in {"poll", "word"} => u.count = s.count
          /\ u.pc = "word" => u.sent < Words
      BY <3>0, <2>10 DEF StatusStep
    <3>2. /\ s.count = 0 /\ \E k \in Nat : s.sent = k * Burst
          /\ board.cfg \o board.fifo = SubSeq(File(Job[c]), 1, s.sent)
      BY <2>3, <2>10 DEF Streams, Beginning, Sending
    <3>3. board' = board
      BY <2>5, <2>10
    <3>4. ASSUME u.pc = "word" PROVE Len(board.fifo) <= 0 /\ \E k \in Nat : s.sent = k * Burst + 0
      <4>1. board.fifo \in Seq(Word) /\ board.cfg \in Seq(Word \cup {None})
        BY <1>4 DEF Boards
      <4>2. board.fifo \in Seq(Word \cup {None})
        BY <4>1, SeqMonotonic
      <4>3. CASE board.done
        <5>1. PICK i \in Images : board.cfg = File(i)
          BY <4>3, <1>4 DEF DoneMeansFile
        <5>2. Len(board.cfg) = Words
          BY <5>1, FileTyped
        <5>3. s.sent = Words
          BY <5>2, <4>1, <4>2, <3>2, <2>6, <1>6, WholeFile
        <5> QED BY <5>3, <3>1, <3>4, <2>6
      <4>4. CASE ~board.done
        <5>1. board.fifo = << >>
          BY <4>4, <3>1, <3>3, <3>4, <1>5 DEF StatusOf, Status
        <5>2. PICK k \in Nat : s.sent = k * Burst
          BY <3>2
        <5>3. s.sent = k * Burst + 0
          BY <5>2, <2>6
        <5> QED BY <5>1, <5>3
      <4> QED BY <4>3, <4>4
    <3> QED BY <3>1, <3>2, <3>3, <3>4 DEF Streams, Beginning, Sending
  <2>11. CASE s.pc = "done"
    <3>0. StatusStep(s, StatusOf(board', ok), u)
      BY <2>2, <2>11 DEF AnswerStep
    <3>1. /\ u.pc \in {"exit", "done", "prog"} /\ (u.pc = "done" => u.sent = s.sent)
      BY <3>0, <2>11 DEF StatusStep
    <3> QED BY <3>1, <2>3, <2>5, <2>11 DEF Streams, Beginning, Sending
  <2>12. CASE s.pc \in {"prog", "md5", "block"}
    <3>1. u.pc \in Holding \cup {"exit", "end"}
      BY <2>2, <2>12 DEF AnswerStep, Holding
    <3>2. u.pc \in {"md5", "block", "verdict"}
      BY <2>2, <2>12, <1>1, <1>8, InfoPc DEF ParseStep
    <3> QED BY <3>2 DEF Streams, Beginning, Sending
  <2>13. CASE s.pc = "word"
    <3>1. u = WordSent(s) /\ s.sent < Words
      BY <2>2, <2>13, <1>2, <1>8 DEF AnswerStep, Sane
    <3>2. /\ u.sent = s.sent + 1
          /\ u.pc = (IF s.count + 1 = Burst THEN "poll"
                     ELSE IF s.sent + 1 = Words THEN "done" ELSE "word")
          /\ u.pc # "done" => u.count = IF (s.sent + 1) % BlockWords = 0 THEN 0
                                        ELSE (s.count + 1) % Burst
      BY <3>1, WordSentTyped
    <3> DEFINE w == <<Job[c], s.sent + 1>>
    <3>3. w \in Word
      BY <2>13, <1>2, <1>8, NextWordOfFile
    <3>4. board' = ProgData(board, w)
      BY <2>13, <1>2, <1>4, <1>5, <1>8, EffectTyped
    <3>5. /\ board.cfg \o board.fifo = SubSeq(File(Job[c]), 1, s.sent)
          /\ Len(board.fifo) <= s.count
      BY <2>3, <2>13 DEF Streams, Sending
    <3>6. PICK k \in Nat : s.sent = k * Burst + s.count
      BY <2>3, <2>13 DEF Streams
    <3>7. board.fifo \in Seq(Word) /\ board.cfg \in Seq(Word \cup {None}) /\ Len(board.fifo) \in Nat
      BY <1>4 DEF Boards
    <3>8. Len(board.fifo) # FifoDepth
      BY <3>5, <3>7, <2>6, Constants DEF Fits
    <3> HIDE DEF w
    <3>9. board'.fifo = Append(board.fifo, w) /\ board'.cfg = board.cfg
      BY <3>3, <3>4, <3>8, <1>4, DataTyped
    <3>10. board'.cfg \o board'.fifo = SubSeq(File(Job[c]), 1, u.sent)
      <4>1. PICK g \in Seq(Word \cup {None}), f \in Seq(Word) : g = board.cfg /\ f = board.fifo
        BY <3>7
      <4>2. PICK n \in 0 .. Words : n = s.sent
        BY <2>6
      <4>3. PICK i \in Images : i = Job[c]
        BY <1>6
      <4>4. g \o f = SubSeq(File(i), 1, n) /\ n < Words
        BY <4>1, <4>2, <4>3, <3>1, <3>5
      <4>5. g \o Append(f, <<i, n + 1>>) = SubSeq(File(i), 1, n + 1)
        BY <4>4, OneMoreWord
      <4>6. w = <<i, n + 1>>
        BY <4>2, <4>3 DEF w
      <4>7. board'.cfg \o board'.fifo = g \o Append(f, <<i, n + 1>>)
        BY <4>1, <4>6, <3>9
      <4>8. u.sent = n + 1
        BY <4>2, <3>2
      <4> QED BY <4>3, <4>5, <4>7, <4>8
    <3>11. Len(board'.fifo) = Len(board.fifo) + 1
      BY <3>3, <3>7, <3>9, AppendProperties
    <3>12. k * Burst \in Nat /\ k + 1 \in Nat /\ (k + 1) * Burst = k * Burst + Burst
      BY <2>6
    <3>13. CASE s.count + 1 = Burst
      <4>1. u.pc = "poll"
        BY <3>2, <3>13
      <4>2. u.count = 0
        <5>1. Burst % Burst = 0
          BY <2>6
        <5> QED BY <5>1, <4>1, <3>2, <3>13
      <4>3. u.sent = (k + 1) * Burst
        BY <3>2, <3>6, <3>12, <3>13, <2>6
      <4> QED BY <4>1, <4>2, <4>3, <3>10, <3>12 DEF Streams, Beginning, Sending
    <3>14. CASE s.count + 1 # Burst
      <4>1. u.pc \in {"done", "word"}
        BY <3>2, <3>14
      <4>2. CASE u.pc = "done"
        BY <4>2, <3>10 DEF Streams, Beginning, Sending
      <4>3. CASE u.pc = "word"
        <5>1. (k * Burst + s.count + 1) % BlockWords # 0
          BY <3>14, <2>6, Constants, BlockEnd DEF Fits
        <5>2. s.sent + 1 = k * Burst + s.count + 1
          BY <3>6, <3>12, <2>6
        <5>3. u.count = (s.count + 1) % Burst
          BY <5>1, <5>2, <4>3, <3>2
        <5>4. u.count = s.count + 1
          BY <5>3, <3>14, <2>6
        <5>5. Len(board'.fifo) <= u.count
          BY <5>4, <3>5, <3>7, <3>11, <2>6
        <5>6. u.sent = k * Burst + u.count
          BY <5>2, <5>4, <3>2, <3>12, <2>6
        <5> QED BY <5>5, <5>6, <4>3, <3>10 DEF Streams, Beginning, Sending
      <4> QED BY <4>1, <4>2, <4>3
    <3> QED BY <3>13, <3>14
  <2> QED BY <2>7, <2>8, <2>9, <2>10, <2>11, <2>12, <2>13, <1>2 DEF Requests, Accesses
<1> QED BY <1>7, <1>8

LEMMA StreamingStep ==
  ASSUME Typed, Wired, Streaming, [Next]_vars, Local \cap Downloaders = {}, Fits
  PROVE  Streaming'
<1>1. CASE Quiet
  <2>1. /\ board' = board /\ errors' = errors
        /\ \A c \in Remote : cl'[c].io # "dead" =>
             /\ cl[c].io # "dead"
             /\ \/ /\ cl'[c].pc = cl[c].pc /\ cl'[c].sent = cl[c].sent
                   /\ cl'[c].count = cl[c].count
                \/ cl'[c].pc \in {"close", "exit", "end"}
    BY <1>1, QuietStep
  <2> SUFFICES ASSUME errors = 0, NEW c \in Remote \cap Downloaders, cl'[c].io # "dead"
               PROVE  Streams(c, cl'[c], board)
    BY <2>1 DEF Streaming
  <2>2. cl[c].io # "dead" /\ Streams(c, cl[c], board)
    BY <2>1 DEF Streaming
  <2>3. CASE cl'[c].pc \in {"close", "exit", "end"}
    BY <2>3 DEF Streams, Beginning, Sending
  <2>4. CASE /\ cl'[c].pc = cl[c].pc /\ cl'[c].sent = cl[c].sent
             /\ cl'[c].count = cl[c].count
    BY <2>2, <2>4 DEF Streams
  <2> QED BY <2>1, <2>3, <2>4
<1>2. CASE ParseRequest
  BY <1>2, ParseStreams
<1>3. CASE Board
  BY <1>3, BoardStreams
<1>4. CASE UNCHANGED vars
  BY <1>4 DEF vars, Streaming
<1> QED BY <1>1, <1>2, <1>3, <1>4 DEF Next, Server, Quiet

LEMMA StreamingInit == ASSUME Init PROVE Streaming
BY Constants DEF Init, Streaming, Streams, Fresh, Beginning, Sending

(* With the sizes of the code, and when all downloads go through the       *)
(* proxy: while no access fails, the words a program has sent are in the   *)
(* Virtex and the FIFO, all of them, in order, and no others.              *)
THEOREM StreamKept == Local \cap Downloaders = {} /\ Fits => (Spec => []StreamIntact)
<1> SUFFICES ASSUME Local \cap Downloaders = {}, Fits PROVE Spec => []StreamIntact
  OBVIOUS
<1>1. Init => Streaming
  BY StreamingInit
<1>2. (Typed /\ Wired) /\ Streaming /\ [Next]_vars => Streaming'
  BY StreamingStep
<1>3. Spec => Init /\ [][Next]_vars
  BY DEF Spec
<1>4. Streaming => StreamIntact
  BY DEF Streaming, Streams, StreamIntact, Alive, Sending
<1> QED BY <1>1, <1>2, <1>3, <1>4, ProxyInvariant, PTL

-----------------------------------------------------------------------------
(* Versions and their bounds, part by part and packed into one number. *)
Byte == 0 .. 255
Part == Byte \cup {Any}

(* After an open part come open parts only. *)
Trailing(w) ==
  /\ w[1] \in Part /\ w[2] \in Part /\ w[3] \in Part
  /\ w[1] = Any => w[2] = Any
  /\ w[2] = Any => w[3] = Any

(* The parts of a version fit into a byte each. *)
VersionsFit ==
  \A i \in Images : /\ i.mod = 1 => i.ver \in Byte
                    /\ i.mod = 2 => i.ver \in Nat /\ i.ver \div 65536 \in Byte

(* What selftest asks for: major, minor, and any revision. *)
BoundsFit ==
  \A c \in Remote \ Downloaders :
    Job[c].dir # None /\ Trailing(Job[c].min) /\ Trailing(Job[c].max)

(* Below, without the quantifiers. *)
LEMMA BelowParts ==
  ASSUME NEW v, NEW w
  PROVE  Below(v, w) <=>
           \/ v[1] # Any /\ w[1] # Any /\ v[1] < w[1]
           \/ /\ v[1] # Any /\ w[1] # Any /\ v[2] # Any /\ w[2] # Any
              /\ v[1] = w[1] /\ v[2] < w[2]
           \/ /\ v[1] # Any /\ w[1] # Any /\ v[2] # Any /\ w[2] # Any
              /\ v[3] # Any /\ w[3] # Any
              /\ v[1] = w[1] /\ v[2] = w[2] /\ v[3] < w[3]
<1> DEFINE FirstAt(k) == /\ \A j \in 1 .. k - 1 : v[j] = w[j]
                         /\ \A j \in 1 .. k : Any \notin {v[j], w[j]}
                         /\ v[k] < w[k]
<1>1. Below(v, w) <=> FirstAt(1) \/ FirstAt(2) \/ FirstAt(3)
  <2>1. Below(v, w) <=> \E k \in 1 .. 3 : FirstAt(k)
    BY DEF Below
  <2>2. 1 .. 3 = {1, 2, 3}
    OBVIOUS
  <2> HIDE DEF FirstAt
  <2> QED BY <2>1, <2>2
<1>2. /\ 1 - 1 = 0 /\ 2 - 1 = 1 /\ 3 - 1 = 2
      /\ 1 .. 0 = {} /\ 1 .. 1 = {1} /\ 1 .. 2 = {1, 2} /\ 1 .. 3 = {1, 2, 3}
  OBVIOUS
<1>3. FirstAt(1) <=> v[1] # Any /\ w[1] # Any /\ v[1] < w[1]
  BY <1>2
<1>4. FirstAt(2) <=> /\ v[1] # Any /\ w[1] # Any /\ v[2] # Any /\ w[2] # Any
                     /\ v[1] = w[1] /\ v[2] < w[2]
  BY <1>2
<1>5. FirstAt(3) <=> /\ v[1] # Any /\ w[1] # Any /\ v[2] # Any /\ w[2] # Any
                     /\ v[3] # Any /\ w[3] # Any
                     /\ v[1] = w[1] /\ v[2] = w[2] /\ v[3] < w[3]
  BY <1>2
<1> HIDE DEF FirstAt
<1> QED BY <1>1, <1>3, <1>4, <1>5

(* Numbers of three bytes are compared as their bytes are. *)
LEMMA BytesCompared ==
  ASSUME NEW a \in Byte, NEW b \in Byte, NEW c \in Byte,
         NEW x \in Byte, NEW y \in Byte, NEW z \in Byte
  PROVE  (a * 256 + b) * 256 + c < (x * 256 + y) * 256 + z <=>
           a < x \/ (a = x /\ b < y) \/ (a = x /\ b = y /\ c < z)
BY DEF Byte

(* A version against a bound: the packed numbers say what the parts say. *)
LEMMA PackedBelow ==
  ASSUME NEW p, NEW w, NEW n, p[1] \in Byte, p[2] \in Byte, p[3] \in Byte, Trailing(w),
         n = (p[1] * 256 + p[2]) * 256 + p[3]
  PROVE  /\ Packed(w, 0) <= n <=> ~Below(p, w)
         /\ n <= Packed(w, 255) <=> ~Below(w, p)
<1>1. PICK a \in Byte, b \in Byte, c \in Byte : a = p[1] /\ b = p[2] /\ c = p[3]
  OBVIOUS
<1>2. PICK x, y, z : x = w[1] /\ y = w[2] /\ z = w[3]
  OBVIOUS
<1>3. /\ x \in Part /\ y \in Part /\ z \in Part
      /\ x = Any => y = Any
      /\ y = Any => z = Any
  BY <1>2 DEF Trailing
<1>4. a # Any /\ b # Any /\ c # Any
  BY DEF Byte, Any
<1>5. ASSUME NEW d
      PROVE  Packed(w, d) = ((IF x = Any THEN d ELSE x) * 256 + (IF y = Any THEN d ELSE y)) * 256
                            + (IF z = Any THEN d ELSE z)
  BY <1>2 DEF Packed
<1>6. Below(p, w) <=> \/ x # Any /\ a < x
                      \/ x # Any /\ y # Any /\ a = x /\ b < y
                      \/ x # Any /\ y # Any /\ z # Any /\ a = x /\ b = y /\ c < z
  BY <1>1, <1>2, <1>4, BelowParts
<1>7. Below(w, p) <=> \/ x # Any /\ x < a
                      \/ x # Any /\ y # Any /\ x = a /\ y < b
                      \/ x # Any /\ y # Any /\ z # Any /\ x = a /\ y = b /\ z < c
  BY <1>1, <1>2, <1>4, BelowParts
<1>8. n = (a * 256 + b) * 256 + c
  BY <1>1
<1>9. CASE x = Any
  <2>1. y = Any /\ z = Any
    BY <1>3, <1>9
  <2>2. Packed(w, 0) = (0 * 256 + 0) * 256 + 0 /\ Packed(w, 255) = (255 * 256 + 255) * 256 + 255
    BY <2>1, <1>5, <1>9
  <2>3. ~Below(p, w) /\ ~Below(w, p)
    BY <2>1, <1>6, <1>7, <1>9
  <2>4. /\ (0 * 256 + 0) * 256 + 0 <= (a * 256 + b) * 256 + c
        /\ (a * 256 + b) * 256 + c <= (255 * 256 + 255) * 256 + 255
    BY SMT DEF Byte
  <2> QED BY <2>2, <2>3, <2>4, <1>8
<1>10. CASE x # Any /\ y = Any
  <2>1. z = Any /\ x \in Byte
    BY <1>3, <1>10 DEF Part
  <2>2. Packed(w, 0) = (x * 256 + 0) * 256 + 0 /\ Packed(w, 255) = (x * 256 + 255) * 256 + 255
    BY <2>1, <1>5, <1>10
  <2> QED BY <2>1, <2>2, <1>6, <1>7, <1>8, <1>10 DEF Byte
<1>11. CASE x # Any /\ y # Any /\ z = Any
  <2>1. x \in Byte /\ y \in Byte
    BY <1>3, <1>11 DEF Part
  <2>2. Packed(w, 0) = (x * 256 + y) * 256 + 0 /\ Packed(w, 255) = (x * 256 + y) * 256 + 255
    BY <1>5, <1>11
  <2> QED BY <2>1, <2>2, <1>6, <1>7, <1>8, <1>11 DEF Byte
<1>12. CASE x # Any /\ y # Any /\ z # Any
  <2>1. x \in Byte /\ y \in Byte /\ z \in Byte
    BY <1>3, <1>12 DEF Part
  <2>2. Packed(w, 0) = (x * 256 + y) * 256 + z /\ Packed(w, 255) = (x * 256 + y) * 256 + z
    BY <1>5, <1>12
  <2> QED BY <2>1, <2>2, <1>6, <1>7, <1>8, <1>12 DEF Byte
<1> QED BY <1>3, <1>9, <1>10, <1>11, <1>12

LEMMA ThreeBytes ==
  ASSUME NEW v \in Nat, NEW h \in Byte, h = v \div 65536
  PROVE  /\ ((v \div 256) % 256) \in Byte /\ (v % 256) \in Byte
         /\ v = (h * 256 + ((v \div 256) % 256)) * 256 + (v % 256)
<1>1. (v % 256) \in Byte /\ v = (v \div 256) * 256 + (v % 256) /\ (v \div 256) \in Nat
  BY SMT DEF Byte
<1>2. PICK q \in Nat : q = v \div 256
  BY <1>1
<1>3. (q % 256) \in Byte /\ q = (q \div 256) * 256 + (q % 256)
  BY SMT DEF Byte
<1>4. h = q \div 256
  BY <1>2, SMT
<1> QED BY <1>1, <1>2, <1>3, <1>4, SMT

(* The version of a bitfile: its parts, and the number that is compared. *)
LEMMA VersionOf ==
  ASSUME NEW i \in Images, VersionsFit, i.mod # 0,
         NEW info, info.mod = i.mod, info.ver = i.ver
  PROVE  LET p == Parts(i)
         IN  /\ p[1] \in Byte /\ p[2] \in Byte /\ p[3] \in Byte
             /\ VirtexVer(info) = (p[1] * 256 + p[2]) * 256 + p[3]
<1>1. i.mod \in 0 .. 2
  BY RegProxyAssumption DEF RegProxyAssumption
<1>2. CASE i.mod = 1
  <2>1. PICK v \in Byte : v = i.ver
    BY <1>2 DEF VersionsFit
  <2>2. Parts(i) = <<v, 0, 0>>
    BY <2>1, <1>2, SMT DEF Parts
  <2>3. v % 65536 = v
    BY SMT DEF Byte
  <2>4. SignedInt(v) = v * 65536
    BY <2>3, SMT DEF SignedInt, Byte
  <2>5. VirtexVer(info) = v * 65536
    BY <2>1, <2>4, <1>2, SMT DEF VirtexVer
  <2>6. v * 65536 = (v * 256 + 0) * 256 + 0 /\ 0 \in Byte
    BY SMT DEF Byte
  <2> QED BY <2>2, <2>5, <2>6, SMT
<1>3. CASE i.mod = 2
  <2>1. PICK v \in Nat, h \in Byte : v = i.ver /\ h = v \div 65536
    BY <1>3, SMT DEF VersionsFit
  <2>2. Parts(i) = <<h, (v \div 256) % 256, v % 256>>
    BY <2>1, <1>3, SMT DEF Parts
  <2>3. /\ ((v \div 256) % 256) \in Byte /\ (v % 256) \in Byte
        /\ v = (h * 256 + ((v \div 256) % 256)) * 256 + (v % 256)
    BY <2>1, ThreeBytes, SMT
  <2>4. VirtexVer(info) = v
    BY <2>1, <1>3, SMT DEF VirtexVer
  <2> QED BY <2>2, <2>3, <2>4, SMT
<1> QED BY <1>1, <1>2, <1>3

-----------------------------------------------------------------------------
(* What program c in state s has read of board b, without failures: once   *)
(* it found the board programmed the rest is about the same bitfile, and   *)
(* nf_download finds it programmed.                                        *)
Informed(c, s, b) ==
  /\ s.pc \in {"md5", "block", "verdict"} =>
       /\ s.info.mine = CpciVersion
       /\ s.info.prog => b.done
       /\ c \in Downloaders => s.info.prog
  /\ s.pc \in {"block", "verdict"} /\ s.info.prog => s.info.mod = Loaded(b).mod
  /\ s.pc = "verdict" /\ s.info.prog /\ s.info.mod # 0 =>
       /\ s.info.ver = Loaded(b).ver
       /\ s.info.cpci = Loaded(b).cpci
       /\ s.info.dir = Loaded(b).dir

Informing ==
  errors = 0 => \A c \in Remote : cl[c].io # "dead" => Informed(c, cl[c], board)

(* An answer of the server. *)
LEMMA ParseInforms ==
  ASSUME Typed, Wired, Loading, Informing, ParseRequest
  PROVE  Informing'
<1>1. PICK d \in Remote, s \in States, ok \in BOOLEAN, t \in States : ParseStep(d, s, ok, t)
  BY ParseShape
<1>2. /\ d \in Clients /\ cl' = [cl EXCEPT ![d] = t] /\ conns # << >> /\ d = conns[1].client
      /\ s = cl[d] /\ s.pc \in Requests /\ Sane(d, s)
      /\ board' = IF ok THEN Effect(d, s, board) ELSE board
      /\ errors' = errors + (IF ok THEN 0 ELSE 1)
  BY <1>1 DEF ParseStep
<1>3. cl'[d] = t /\ \A e \in Clients : e # d => cl'[e] = cl[e]
  BY <1>2, OneClient DEF Typed
<1>4. board \in Boards /\ Sized(board) /\ DoneMeansFile(board)
  BY DEF Typed
<1> SUFFICES ASSUME errors' = 0, NEW c \in Remote, cl'[c].io # "dead"
             PROVE  Informed(c, cl'[c], board')
  BY DEF Informing
<1>5. ok /\ errors = 0 /\ board' = Effect(d, s, board)
  <2>1. errors \in Nat
    BY Constants DEF Typed
  <2> QED BY <2>1, <1>2
<1>6. CASE c # d
  <2>1. cl'[c] = cl[c]
    BY <1>3, <1>6, Constants
  <2>2. cl[c].pc \notin Holding
    BY <2>1, <1>2, <1>6 DEF Wired, FirstHolds
  <2> QED BY <2>1, <2>2 DEF Informed, Holding
<1>7. CASE c = d
  <2>1. t.io # "dead" /\ s.io # "dead"
    BY <1>1, <1>3, <1>7 DEF ParseStep
  <2>2. PICK u \in States : AnswerStep(c, s, board', ok, u) /\ t.pc = u.pc /\ t.info = u.info
    BY <1>1, <1>7, <2>1, LiveReply
  <2>3. Informed(c, s, board)
    BY <2>1, <1>2, <1>5, <1>7 DEF Informing
  <2>4. SUFFICES Informed(c, u, board')
    BY <2>2, <1>3, <1>7 DEF Informed
  <2>5. CASE s.pc \in {"prog", "md5", "block"}
    <3>1. board' = board
      <4>1. s.pc \notin {"reset", "word"} => board' = board
        BY <1>2, <1>4, <1>5, EffectTyped
      <4> QED BY <4>1, <2>5
    <3>2. PICK st : st = Status(board)
      OBVIOUS
    <3>3. PICK block : block = IdBlock(board)
      OBVIOUS
    <3>4. u = AfterInfo(s, st, block)
      BY <3>1, <3>2, <3>3, <2>2, <2>5, <1>5 DEF AnswerStep, StatusOf, BlockOf
    <3>5. st.done = board.done /\ st.done \in BOOLEAN
      BY <3>2, <1>4 DEF Status, Boards
    <3>6. /\ block.mod \in 0 .. 2 /\ block.ver \in Int
          /\ block.cpci \in {i.cpci : i \in Images} \cup {None}
          /\ block.dir \in {i.dir : i \in Images} \cup {None}
      BY <3>3, <1>4, <1>5, IdBlockTyped
    <3>7. /\ s.pc = "prog" => /\ u.pc = "md5"
                              /\ u.info.prog = st.done /\ u.info.mine = CpciVersion
          /\ s.pc = "md5" =>  /\ u.pc = (IF block.mod = 0 THEN "verdict" ELSE "block")
                              /\ u.info.prog = s.info.prog /\ u.info.mine = s.info.mine
                              /\ u.info.mod = block.mod
          /\ s.pc = "block" => /\ u.pc = "verdict"
                               /\ u.info.prog = s.info.prog /\ u.info.mine = s.info.mine
                               /\ u.info.mod = s.info.mod /\ u.info.ver = block.ver
                               /\ u.info.cpci = block.cpci /\ u.info.dir = block.dir
      BY <3>4, <3>5, <3>6, <2>5, AfterInfoTyped
    <3>8. board.done => block = Loaded(board)
      <4>1. ASSUME board.done PROVE Loaded(board) # None
        BY <4>1, <1>4, LoadedTyped, RegProxyAssumption DEF RegProxyAssumption
      <4> QED BY <4>1, <3>3 DEF IdBlock
    <3>9. CASE s.pc = "prog"
      <4>1. ASSUME c \in Downloaders PROVE board.done
        BY <4>1, <3>9, <2>1, <1>2, <1>7 DEF Loading, Loads, Programmed
      <4> QED BY <4>1, <3>1, <3>5, <3>7, <3>9 DEF Informed
    <3>10. CASE s.pc = "md5"
      <4>1. /\ s.info.mine = CpciVersion /\ (s.info.prog => board.done)
            /\ (c \in Downloaders => s.info.prog)
        BY <3>10, <2>3 DEF Informed
      <4>2. u.pc = "verdict" => block.mod = 0
        BY <3>7, <3>10
      <4> QED BY <4>1, <4>2, <3>1, <3>7, <3>8, <3>10 DEF Informed
    <3>11. CASE s.pc = "block"
      <4>1. /\ s.info.mine = CpciVersion /\ (s.info.prog => board.done)
            /\ (c \in Downloaders => s.info.prog)
            /\ s.info.prog => s.info.mod = Loaded(board).mod
        BY <3>11, <2>3 DEF Informed
      <4> QED BY <4>1, <3>1, <3>7, <3>8, <3>11 DEF Informed
    <3> QED BY <3>9, <3>10, <3>11, <2>5
  <2>6. CASE s.pc \notin {"prog", "md5", "block"}
    <3>1. CASE s.pc \in {"check", "open", "reset", "close"}
      BY <3>1, <2>2 DEF AnswerStep, Informed
    <3>2. CASE s.pc = "word"
      <4>1. u = WordSent(s) /\ s.sent < Words
        BY <3>2, <2>2, <1>2, <1>7 DEF AnswerStep, Sane
      <4>2. u.pc \in {"poll", "done", "word"}
        BY <4>1, WordSentTyped
      <4> QED BY <4>2 DEF Informed
    <3>3. CASE s.pc \in {"status", "init1", "init2", "poll", "done"}
      <4>1. StatusStep(s, StatusOf(board', ok), u)
        BY <3>3, <2>2 DEF AnswerStep
      <4>2. u.pc \in {"exit", "init1", "init2", "word", "poll", "done", "prog"}
        BY <4>1, <3>3 DEF StatusStep
      <4> QED BY <4>2 DEF Informed
    <3> QED BY <3>1, <3>2, <3>3, <2>6, <1>2 DEF Requests, Accesses
  <2> QED BY <2>5, <2>6
<1> QED BY <1>6, <1>7

LEMMA InformingStep ==
  ASSUME Typed, Wired, Loading, Informing, [Next]_vars, Local \cap Downloaders = {}
  PROVE  Informing'
<1>1. CASE Quiet
  <2>1. /\ board' = board /\ errors' = errors
        /\ \A c \in Remote : cl'[c].io # "dead" =>
             /\ cl[c].io # "dead"
             /\ \/ cl'[c].pc = cl[c].pc /\ cl'[c].info = cl[c].info
                \/ cl'[c].pc \in {"close", "exit", "end"}
    BY <1>1, QuietStep
  <2> SUFFICES ASSUME errors = 0, NEW c \in Remote, cl'[c].io # "dead"
               PROVE  Informed(c, cl'[c], board)
    BY <2>1 DEF Informing
  <2>2. cl[c].io # "dead" /\ Informed(c, cl[c], board)
    BY <2>1 DEF Informing
  <2>3. CASE cl'[c].pc \in {"close", "exit", "end"}
    BY <2>3 DEF Informed
  <2>4. CASE cl'[c].pc = cl[c].pc /\ cl'[c].info = cl[c].info
    BY <2>2, <2>4 DEF Informed
  <2> QED BY <2>1, <2>3, <2>4
<1>2. CASE ParseRequest
  BY <1>2, ParseInforms
<1>3. CASE Board
  <2>1. cl' = cl /\ ~board.done /\ (errors' = 0 => errors = 0)
    <3>1. CASE Cleared
      BY <3>1 DEF Cleared, Typed, DoneMeansFile
    <3>2. CASE Shift
      BY <3>2, ShiftShape DEF Shift
    <3> QED BY <3>1, <3>2, <1>3 DEF Board
  <2> SUFFICES ASSUME errors = 0, NEW c \in Remote, cl[c].io # "dead"
               PROVE  Informed(c, cl[c], board')
    BY <2>1 DEF Informing
  <2>2. Informed(c, cl[c], board)
    BY DEF Informing
  <2> QED BY <2>1, <2>2 DEF Informed
<1>4. CASE UNCHANGED vars
  BY <1>4 DEF vars, Informing
<1> QED BY <1>1, <1>2, <1>3, <1>4 DEF Next, Server, Quiet

LEMMA InformingInit == ASSUME Init PROVE Informing
BY Constants DEF Init, Informing, Informed, Fresh

(* What was read decides as the board would. *)
LEMMA InfoDecides ==
  ASSUME Typed, Loading, Informing, VersionsFit, BoundsFit
  PROVE  InfoTrue
<1> SUFFICES ASSUME NEW c \in Remote, errors = 0, cl[c].io # "dead", cl[c].pc = "verdict"
             PROVE  LET info == cl[c].info
                        found == IF c \in Downloaders THEN VerifyDevInfo(info)
                                 ELSE CheckVirtexBitfile(info, Job[c])
                        there == IF c \in Downloaders
                                 THEN Loaded(board).mod = 0 \/ Loaded(board).cpci = CpciVersion
                                 ELSE Compatible(board, Job[c])
                    IN  /\ found => there
                        /\ there /\ info.prog => found
  BY DEF InfoTrue, Alive
<1>1. PICK info : info = cl[c].info
  OBVIOUS
<1>2. PICK i : i = Loaded(board)
  OBVIOUS
<1>3. /\ info.mine = CpciVersion /\ (info.prog => board.done)
      /\ c \in Downloaders => info.prog
      /\ info.prog => info.mod = i.mod
      /\ info.prog /\ info.mod # 0 => info.ver = i.ver /\ info.cpci = i.cpci /\ info.dir = i.dir
  BY <1>1, <1>2 DEF Informing, Informed
<1>4. CASE c \in Downloaders
  <2>1. VerifyDevInfo(info) <=> i.mod = 0 \/ i.cpci = CpciVersion
    BY <1>3, <1>4 DEF VerifyDevInfo
  <2> QED BY <2>1, <1>1, <1>2, <1>4
<1>5. CASE c \notin Downloaders
  <2>1. PICK w : w = Job[c]
    OBVIOUS
  <2>2. w.dir # None /\ Trailing(w.min) /\ Trailing(w.max)
    BY <2>1, <1>5 DEF BoundsFit
  <2>3. CASE ~info.prog
    <3>1. ~CheckVirtexBitfile(info, w)
      BY <2>3 DEF CheckVirtexBitfile
    <3> QED BY <3>1, <2>1, <2>3, <1>1, <1>5
  <2>4. CASE info.prog
    <3>1. i \in Images /\ i # None
      BY <2>4, <1>2, <1>3, LoadedTyped, RegProxyAssumption DEF Typed, RegProxyAssumption
    <3>2. Compatible(board, w) <=> /\ i.mod # 0 /\ i.dir = w.dir
                                   /\ ~Below(Parts(i), w.min) /\ ~Below(w.max, Parts(i))
      BY <3>1, <1>2 DEF Compatible
    <3>3. CheckVirtexBitfile(info, w) <=> /\ i.mod # 0 /\ i.dir = w.dir
                                          /\ Packed(w.min, 0) <= VirtexVer(info)
                                          /\ VirtexVer(info) <= Packed(w.max, 255)
      BY <2>2, <2>4, <1>3 DEF CheckVirtexBitfile, ProjDir
    <3>4. ASSUME i.mod # 0
          PROVE  /\ Packed(w.min, 0) <= VirtexVer(info) <=> ~Below(Parts(i), w.min)
                 /\ VirtexVer(info) <= Packed(w.max, 255) <=> ~Below(w.max, Parts(i))
      <4>1. info.mod = i.mod /\ info.ver = i.ver
        BY <3>4, <2>4, <1>3
      <4>2. PICK p, n : p = Parts(i) /\ n = VirtexVer(info)
        OBVIOUS
      <4>3. /\ p[1] \in Byte /\ p[2] \in Byte /\ p[3] \in Byte
            /\ n = (p[1] * 256 + p[2]) * 256 + p[3]
        BY <4>1, <4>2, <3>1, <3>4, VersionOf
      <4>4. PICK x, y : x = w.min /\ y = w.max
        OBVIOUS
      <4>5. Trailing(x) /\ Trailing(y)
        BY <4>4, <2>2
      <4>6. Packed(x, 0) <= n <=> ~Below(p, x)
        BY <4>3, <4>5, PackedBelow
      <4>7. n <= Packed(y, 255) <=> ~Below(y, p)
        BY <4>3, <4>5, PackedBelow
      <4> QED BY <4>2, <4>4, <4>6, <4>7
    <3>5. CheckVirtexBitfile(info, w) <=> Compatible(board, w)
      BY <3>2, <3>3, <3>4
    <3> QED BY <3>5, <2>1, <1>1, <1>5
  <2> QED BY <2>3, <2>4
<1> QED BY <1>4, <1>5

(* Without failures: what nf2_read_info collected in many accesses is true *)
(* of the board when it is used, and checkVirtexBitfile's numbers decide   *)
(* as the parts of the versions would: when all downloads go through the   *)
(* proxy, the parts fit into a byte, and only the last parts of a bound    *)
(* are open.                                                               *)
THEOREM InformationHolds ==
  Local \cap Downloaders = {} /\ VersionsFit /\ BoundsFit => (Spec => []InfoTrue)
<1> SUFFICES ASSUME Local \cap Downloaders = {}, VersionsFit, BoundsFit
             PROVE  Spec => []InfoTrue
  OBVIOUS
<1>1. Init => Loading /\ Informing
  BY LoadingInit, InformingInit
<1>2. (Typed /\ Wired) /\ (Loading /\ Informing) /\ [Next]_vars => (Loading /\ Informing)'
  BY LoadingStep, InformingStep
<1>3. Spec => Init /\ [][Next]_vars
  BY DEF Spec
<1>4. Typed /\ Loading /\ Informing => InfoTrue
  BY InfoDecides
<1> QED BY <1>1, <1>2, <1>3, <1>4, ProxyInvariant, PTL
=============================================================================
