------------------------- MODULE SconeRoutingProofs -------------------------
(***************************************************************************)
(* Proofs about SconeRtable, for any width of addresses, any routes and    *)
(* any number of rows: the variables keep their types, the rows written so *)
(* far route as get_next_hop does (WrittenRowsRoute), and static routes    *)
(* are changed only by the operator (StaticsAreTheOperators).              *)
(*                                                                         *)
(* The inductive invariant says from which entry each row was written: a   *)
(* function f maps the rows to the places of the list, increasing, without *)
(* leaving out an active entry, and to the place behind the end for the    *)
(* rows of zeroes.  The list is sorted by mask since somebody first        *)
(* changed it, so the first row that matches is one of the longest prefix. *)
(*                                                                         *)
(* And about Dijkstra, for any number of routers and any subnets: a walk   *)
(* along prev_router ends (WalkEnds), and the routes are shortest paths    *)
(* (RoutesShortest).  Sound is the invariant of the loop of compute_rtable *)
(* within a run, and Tree that of prev_router from one run to the next:    *)
(* the pointers lead down a rank.  The loop, the walk and the reference    *)
(* are recursive functions over 0 .. n; Iterated shows that each exists,   *)
(* and UpTo is the induction over their rounds.                            *)
(***************************************************************************)
EXTENDS SconeRtable, Dijkstra, FiniteSetTheorems, SequenceTheorems, WellFoundedInduction, TLAPS

(* Longer masks come first. *)
Sorted == \A i, j \in DOMAIN rtable : i < j => rtable[i].len >= rtable[j].len

(* The entry for the next row is an active one, if there is one left. *)
AtEntry == cur = Len(rtable) + 1 \/ rtable[cur].active

(* Row i was written from place f[i] of the list. *)
Images(f) ==
  /\ \A i \in 1 .. row : f[i] <= Len(rtable) =>
       f[i] < cur /\ rtable[f[i]].active /\ hw[i] = RowOf(rtable[f[i]])
  /\ \A i \in 1 .. row : f[i] = Len(rtable) + 1 => cur = Len(rtable) + 1 /\ hw[i] = ZeroRow
  /\ \A i, j \in 1 .. row : i < j => f[i] < f[j] \/ f[j] = Len(rtable) + 1
  /\ \A k \in 1 .. Len(rtable) : k < cur /\ rtable[k].active => \E i \in 1 .. row : f[i] = k

Written == \E f \in [1 .. row -> 1 .. Len(rtable) + 1] : Images(f)

IInv ==
  /\ TypeOK
  /\ writing \/ row > 0 => Sorted /\ AtEntry
  /\ Written

-----------------------------------------------------------------------------
(* The least-number principle, from the well-foundedness of < on Nat. *)
LEMMA Least ==
  ASSUME NEW S, S \subseteq Nat, S # {}
  PROVE  \E i \in S : \A j \in S : i <= j
<1> DEFINE R == OpToRel(<, Nat)
<1>1. IsWellFoundedOn(R, Nat)
  BY NatLessThanWellFounded
<1> HIDE DEF R
<1>2. PICK i \in S : \A y \in S : ~ (<<y, i>> \in R)
  BY <1>1, WFMin
<1>3. \A y, x \in Nat : y < x => <<y, x>> \in R
  BY DEF R, OpToRel
<1>4. \A y \in S : ~(y < i)
  BY <1>2, <1>3
<1> QED BY <1>4

LEMMA Preceding ==
  ASSUME NEW k \in Int, NEW c \in Int, 1 <= k, k < c
  PROVE  k \in 1 .. c - 1
OBVIOUS

(* What Sorts returns: entries of s at kept places, each of them once. *)
LEMMA SortsBijective ==
  ASSUME NEW s, NEW kept \in SUBSET DOMAIN s, s \in Seq(Entries),
         NEW t \in Sorts(s, kept)
  PROVE  /\ IsFiniteSet(kept) /\ Cardinality(kept) \in Nat
         /\ \E p \in Bijection(1 .. Cardinality(kept), kept) :
              /\ t = [i \in 1 .. Cardinality(kept) |-> s[p[i]]]
              /\ \A i, j \in 1 .. Cardinality(kept) : i < j =>
                   \/ Before(s[p[i]], s[p[j]])
                   \/ ~Before(s[p[j]], s[p[i]]) /\ p[i] < p[j]
<1>1. DOMAIN s = 1 .. Len(s) /\ Len(s) \in Nat
  OBVIOUS
<1>2. IsFiniteSet(DOMAIN s)
  BY <1>1, FS_Interval
<1>3. IsFiniteSet(kept)
  BY <1>2, FS_Subset
<1> DEFINE n == Cardinality(kept)
<1>4. n \in Nat
  BY <1>3, FS_CardinalityType
<1>5. PICK p \in [1 .. n -> kept] :
        /\ t = [i \in 1 .. n |-> s[p[i]]]
        /\ \A i, j \in 1 .. n : i < j =>
             \/ Before(s[p[i]], s[p[j]])
             \/ ~Before(s[p[j]], s[p[i]]) /\ p[i] < p[j]
  BY DEF Sorts
<1>6. \A e \in Entries : ~Before(e, e)
  <2> SUFFICES ASSUME NEW e \in Entries PROVE ~Before(e, e)
    OBVIOUS
  <2>1. e.len \in Int /\ e.ip \in Int
    BY DEF Entries, Addrs
  <2> QED BY <2>1 DEF Before
<1> HIDE DEF n
<1>7. \A i, j \in 1 .. n : i < j => p[i] # p[j]
  <2> SUFFICES ASSUME NEW i \in 1 .. n, NEW j \in 1 .. n, i < j, p[i] = p[j] PROVE FALSE
    OBVIOUS
  <2>1. s[p[i]] \in Entries /\ p[i] \in 1 .. Len(s)
    BY <1>1, <1>4, <1>5
  <2>2. ~Before(s[p[i]], s[p[j]])
    BY <2>1, <1>6
  <2> QED BY <2>1, <2>2, <1>5
<1>8. p \in Injection(1 .. n, kept)
  <2> SUFFICES ASSUME NEW i \in 1 .. n, NEW j \in 1 .. n, p[i] = p[j] PROVE i = j
    BY <1>5 DEF Injection, IsInjective
  <2>1. i < j \/ j < i \/ i = j
    BY <1>4
  <2> QED BY <2>1, <1>7
<1>9. Cardinality(1 .. n) = n
  BY <1>4, FS_Interval
<1>10. p \in Surjection(1 .. n, kept)
  BY <1>3, <1>8, <1>9, FS_Injection DEF n
<1> QED BY <1>3, <1>4, <1>5, <1>8, <1>10 DEF Bijection, n

LEMMA SortsTyped ==
  ASSUME NEW s, NEW kept \in SUBSET DOMAIN s, s \in Seq(Entries),
         NEW t \in Sorts(s, kept)
  PROVE  /\ t \in Seq(Entries)
         /\ \A i, j \in DOMAIN t : i < j => t[i].len >= t[j].len
<1> DEFINE n == Cardinality(kept)
<1>1. PICK p \in Bijection(1 .. n, kept) :
        /\ t = [i \in 1 .. n |-> s[p[i]]]
        /\ \A i, j \in 1 .. n : i < j =>
             \/ Before(s[p[i]], s[p[j]])
             \/ ~Before(s[p[j]], s[p[i]]) /\ p[i] < p[j]
  BY SortsBijective
<1>2. n \in Nat
  BY SortsBijective
<1> HIDE DEF n
<1>3. p \in [1 .. n -> kept]
  BY <1>1 DEF Bijection, Injection
<1>4. \A i \in 1 .. n : s[p[i]] \in Entries
  BY <1>3
<1>5. t \in Seq(Entries)
  BY <1>1, <1>2, <1>4
<1>6. ASSUME NEW i \in 1 .. n, NEW j \in 1 .. n, i < j PROVE t[i].len >= t[j].len
  <2>1. t[i] = s[p[i]] /\ t[j] = s[p[j]]
    BY <1>1
  <2>2. s[p[i]].len \in Int /\ s[p[j]].len \in Int
    BY <1>4 DEF Entries
  <2>3. Before(s[p[i]], s[p[j]]) \/ ~Before(s[p[j]], s[p[i]])
    BY <1>1, <1>6
  <2> QED BY <2>1, <2>2, <2>3 DEF Before
<1>7. DOMAIN t = 1 .. n
  BY <1>1
<1> QED BY <1>5, <1>6, <1>7

-----------------------------------------------------------------------------
(* What everybody who changes the table leaves to the loop that writes it. *)
LEMMA TriggerStep ==
  ASSUME TypeOK, NEW s, s \in Seq(Entries), NEW kept \in SUBSET DOMAIN s,
         TriggerRtableModified(s, kept)
  PROVE  /\ rtable' \in Seq(Entries) /\ cur' \in 1 .. Len(rtable)' + 1
         /\ hw' = hw /\ row' = 0 /\ writing' = TRUE
         /\ Sorted' /\ AtEntry' /\ Written'
<1>1. /\ rtable' \in Sorts(s, kept) /\ cur' \in NextActive(rtable', 1)
      /\ hw' = hw /\ row' = 0 /\ writing' = TRUE
  BY DEF TriggerRtableModified
<1>2. rtable' \in Seq(Entries) /\ Sorted'
  BY <1>1, SortsTyped DEF Sorted
<1>3. /\ cur' \in 1 .. Len(rtable') + 1
      /\ cur' = Len(rtable') + 1 \/ rtable'[cur'].active
      /\ \A i \in 1 .. cur' - 1 : ~rtable'[i].active
  BY <1>1 DEF NextActive
<1>4. Len(rtable') \in Nat
  BY <1>2
<1>5. Written'
  <2> DEFINE f == [i \in 1 .. 0 |-> 1]
  <2>1. f \in [1 .. row' -> 1 .. Len(rtable') + 1]
    BY <1>1
  <2> HIDE DEF f
  <2>2. Images(f)'
    <3>1. \A i : i \in 1 .. row' => FALSE
      BY <1>1
    <3>2. ASSUME NEW k \in 1 .. Len(rtable'), k < cur' PROVE ~rtable'[k].active
      <4>1. cur' \in Int /\ k \in Int /\ 1 <= k
        BY <1>3, <1>4
      <4>3. k \in 1 .. cur' - 1
        BY <4>1, <3>2, Preceding
      <4> QED BY <4>3, <1>3
    <3> QED BY <3>1, <3>2, Zenon DEF Images
  <2> QED BY <2>1, <2>2 DEF Written
<1> QED BY <1>1, <1>2, <1>3, <1>5 DEF AtEntry

(* One more row is written. *)
LEMMA WriteRowStep ==
  ASSUME IInv, WriteRow
  PROVE  IInv'
<1>1. /\ writing /\ row' = row + 1 /\ writing' = ~LastRow(row + 1)
      /\ rtable' = rtable /\ up' = up /\ topo' = topo /\ dirty' = dirty /\ seen' = seen
      /\ dij' = IF dij = "write" /\ LastRow(row + 1) THEN "loop" ELSE dij
  BY DEF WriteRow
<1>2. /\ cur <= Len(rtable) => /\ hw' = [hw EXCEPT ![row + 1] = RowOf(rtable[cur])]
                               /\ cur' \in NextActive(rtable, cur + 1)
      /\ ~(cur <= Len(rtable)) => /\ hw' = [hw EXCEPT ![row + 1] = ZeroRow]
                                  /\ cur' = cur
  BY DEF WriteRow
<1>3. /\ rtable \in Seq(Entries) /\ up \subseteq Ifaces /\ hw \in [1 .. Depth -> Rows]
      /\ row \in 0 .. Depth /\ cur \in 1 .. Len(rtable) + 1 /\ row < Depth
      /\ topo \in Views /\ dirty \in BOOLEAN /\ seen \in Views
      /\ dij \in {"wait", "woken", "lock", "write", "loop"}
  BY <1>1 DEF IInv, TypeOK
<1>4. Sorted /\ AtEntry /\ Written
  BY <1>1 DEF IInv
<1>5. Len(rtable) \in Nat /\ DOMAIN rtable = 1 .. Len(rtable) /\ Depth \in Nat
  BY <1>3, SconeRtableAssumption DEF SconeRtableAssumption
<1>n. PICK N : N = Len(rtable)
  OBVIOUS
<1>6. \A e \in Entries : RowOf(e) \in Rows
  BY DEF Entries, Rows, RowOf
<1>7. ZeroRow \in Rows
  <2>1. 0 \in Addrs /\ 0 \in 0 .. Width
    BY SconeRtableAssumption DEF SconeRtableAssumption, Addrs
  <2> QED BY <2>1 DEF Rows, ZeroRow
<1>8. hw' \in [1 .. Depth -> Rows]
  <2>1. cur <= Len(rtable) => rtable[cur] \in Entries
    BY <1>3, <1>5
  <2> QED BY <2>1, <1>2, <1>3, <1>6, <1>7
<1>9. cur' \in 1 .. N + 1 /\ (cur' = N + 1 \/ rtable[cur'].active)
  <2>1. CASE cur <= N
    BY <2>1, <1>2, <1>3, <1>5, <1>n DEF NextActive
  <2>2. CASE ~(cur <= N)
    <3>1. cur = N + 1
      BY <2>2, <1>3, <1>5, <1>n
    <3>2. cur' = cur
      BY <2>2, <1>2, <1>n
    <3> QED BY <3>1, <3>2, <1>5, <1>n
  <2> QED BY <2>1, <2>2
<1>10. TypeOK'
  <2>1. row' \in 0 .. Depth /\ writing' \in BOOLEAN /\ (writing' => row' < Depth)
    <3>1. row + 1 \in 0 .. Depth /\ (~LastRow(row + 1) => row + 1 < Depth)
      BY <1>3, <1>5 DEF LastRow
    <3>2. writing' \in BOOLEAN
      BY <1>1 DEF LastRow
    <3> QED BY <3>1, <3>2, <1>1
  <2>2. dij' \in {"wait", "woken", "lock", "write", "loop"}
    BY <1>1, <1>3
  <2> QED BY <2>1, <2>2, <1>1, <1>3, <1>8, <1>9, <1>n DEF TypeOK
<1>11. Sorted' /\ AtEntry'
  BY <1>1, <1>4, <1>9, <1>n DEF Sorted, AtEntry
<1>12. Written'
  <2>1. PICK f \in [1 .. row -> 1 .. N + 1] : Images(f)
    BY <1>4, <1>n DEF Written
  <2>g. PICK g : g = [i \in 1 .. row + 1 |-> IF i = row + 1 THEN cur ELSE f[i]]
    OBVIOUS
  <2>2. g \in [1 .. row' -> 1 .. N + 1]
    BY <1>1, <1>3, <1>5, <2>1, <2>g, <1>n
  <2>n. N \in Nat /\ row \in Nat /\ cur \in 1 .. N + 1 /\ row + 1 \in 1 .. Depth
    BY <1>3, <1>5, <1>n
  <2>3. ASSUME NEW i \in 1 .. row PROVE g[i] = f[i] /\ f[i] \in 1 .. N + 1
    <3>1. i \in 1 .. row + 1 /\ i # row + 1
      BY <2>n
    <3> QED BY <3>1, <2>1, <2>g
  <2>r. g[row + 1] = cur
    BY <2>n, <2>g
  <2>4. ASSUME NEW i \in 1 .. row PROVE hw'[i] = hw[i]
    <3>1. i \in 1 .. Depth /\ i # row + 1
      BY <2>n, <1>5
    <3> QED BY <3>1, <1>2, <1>3
  <2>5. \A i \in 1 .. row : f[i] <= N =>
          f[i] < cur /\ rtable[f[i]].active /\ hw[i] = RowOf(rtable[f[i]])
    BY <2>1, <1>n DEF Images
  <2>6. \A i \in 1 .. row : f[i] = N + 1 => cur = N + 1 /\ hw[i] = ZeroRow
    BY <2>1, <1>n DEF Images
  <2>7. \A i, j \in 1 .. row : i < j => f[i] < f[j] \/ f[j] = N + 1
    BY <2>1, <1>n DEF Images
  <2>8. \A k \in 1 .. N : k < cur /\ rtable[k].active => \E i \in 1 .. row : f[i] = k
    BY <2>1, <1>n DEF Images
  <2>9. \A i \in 1 .. row + 1 : i \in 1 .. row \/ i = row + 1
    BY <1>3, <1>5
  <2>a. cur <= N => rtable[cur].active
    BY <1>4, <2>n, <1>n DEF AtEntry
  <2>10. cur <= N => /\ cur' \in Nat /\ cur < cur'
                     /\ \A i \in cur + 1 .. cur' - 1 : ~rtable[i].active
                     /\ hw'[row + 1] = RowOf(rtable[cur])
    <3> SUFFICES ASSUME cur <= N
                 PROVE  /\ cur' \in Nat /\ cur < cur'
                        /\ \A i \in cur + 1 .. cur' - 1 : ~rtable[i].active
                        /\ hw'[row + 1] = RowOf(rtable[cur])
      OBVIOUS
    <3>1. /\ hw' = [hw EXCEPT ![row + 1] = RowOf(rtable[cur])]
          /\ cur' \in NextActive(rtable, cur + 1)
      BY <1>2, <1>n
    <3>2. /\ cur' \in cur + 1 .. N + 1
          /\ \A i \in cur + 1 .. cur' - 1 : ~rtable[i].active
      BY <3>1, <1>n DEF NextActive
    <3>3. cur' \in Nat /\ cur < cur'
      BY <3>2, <2>n
    <3>4. hw'[row + 1] = RowOf(rtable[cur])
      BY <3>1, <1>3, <2>n
    <3> QED BY <3>2, <3>3, <3>4
  <2>11. ~(cur <= N) => cur = N + 1 /\ cur' = cur /\ hw'[row + 1] = ZeroRow
    <3> SUFFICES ASSUME ~(cur <= N) PROVE cur = N + 1 /\ cur' = cur /\ hw'[row + 1] = ZeroRow
      OBVIOUS
    <3>1. cur = N + 1
      BY <2>n
    <3>2. cur' = cur /\ hw' = [hw EXCEPT ![row + 1] = ZeroRow]
      BY <1>2, <1>n
    <3> QED BY <3>1, <3>2, <1>3, <2>n
  <2>12. ASSUME NEW i \in 1 .. row + 1, g[i] <= N
         PROVE  g[i] < cur' /\ rtable[g[i]].active /\ hw'[i] = RowOf(rtable[g[i]])
    <3>1. CASE i = row + 1
      BY <3>1, <2>12, <2>r, <2>a, <2>10
    <3>2. CASE i \in 1 .. row
      <4>1. g[i] = f[i] /\ f[i] \in 1 .. N + 1 /\ hw'[i] = hw[i]
        BY <3>2, <2>3, <2>4
      <4>2. f[i] < cur /\ rtable[f[i]].active /\ hw[i] = RowOf(rtable[f[i]])
        BY <3>2, <4>1, <2>12, <2>5
      <4>3. cur' \in Nat /\ cur <= cur'
        BY <2>10, <2>11, <2>n
      <4>4. f[i] < cur'
        BY <4>1, <4>2, <4>3, <2>n
      <4> QED BY <4>1, <4>2, <4>4
    <3> QED BY <3>1, <3>2, <2>9
  <2>13. ASSUME NEW i \in 1 .. row + 1, g[i] = N + 1
         PROVE  cur' = N + 1 /\ hw'[i] = ZeroRow
    <3>1. CASE i = row + 1
      BY <3>1, <2>13, <2>r, <2>n, <2>11
    <3>2. CASE i \in 1 .. row
      <4>1. f[i] = N + 1 /\ hw'[i] = hw[i]
        BY <3>2, <2>3, <2>4, <2>13
      <4>2. cur = N + 1 /\ hw[i] = ZeroRow
        BY <3>2, <4>1, <2>6
      <4> QED BY <4>1, <4>2, <2>11, <2>n
    <3> QED BY <3>1, <3>2, <2>9
  <2>14. ASSUME NEW i \in 1 .. row + 1, NEW j \in 1 .. row + 1, i < j
         PROVE  g[i] < g[j] \/ g[j] = N + 1
    <3>0. i \in 1 .. row
      BY <2>14, <2>n
    <3>1. g[i] = f[i] /\ f[i] \in 1 .. N + 1
      BY <3>0, <2>3
    <3>2. CASE j = row + 1
      <4>1. CASE cur <= N
        <5>1. f[i] # N + 1
          BY <3>0, <4>1, <2>6, <2>n
        <5>2. f[i] < cur
          <6>1. f[i] <= N
            BY <5>1, <3>1, <2>n
          <6> QED BY <6>1, <3>0, <2>5
        <5> QED BY <5>2, <3>1, <3>2, <2>r
      <4> QED BY <4>1, <3>2, <2>r, <2>n
    <3>3. CASE j \in 1 .. row
      BY <3>0, <3>1, <3>3, <2>3, <2>7, <2>14
    <3> QED BY <3>2, <3>3, <2>9
  <2>15. ASSUME NEW k \in 1 .. N, k < cur', rtable[k].active
         PROVE \E i \in 1 .. row + 1 : g[i] = k
    <3>1. CASE k < cur
      <4>1. PICK i \in 1 .. row : f[i] = k
        BY <3>1, <2>15, <2>8
      <4>2. g[i] = k
        BY <4>1, <2>3
      <4>3. i \in 1 .. row + 1
        BY <2>n
      <4> QED BY <4>2, <4>3
    <3>2. CASE k = cur
      BY <3>2, <2>r, <2>n
    <3>3. CASE k > cur
      BY <3>3, <2>15, <2>10, <2>11, <2>n
    <3> QED BY <3>1, <3>2, <3>3, <2>n
  <2>16. Images(g)'
    BY <1>1, <2>12, <2>13, <2>14, <2>15, <1>n DEF Images
  <2> QED BY <1>1, <2>2, <2>16, <1>n DEF Written
<1> QED BY <1>10, <1>11, <1>12 DEF IInv

-----------------------------------------------------------------------------
(* The lists that the callers of trigger_rtable_modified hand to it. *)
LEMMA MapTyped ==
  ASSUME NEW S, NEW T, NEW s \in Seq(S), NEW g, g = [k \in DOMAIN s |-> g[k]],
         \A k \in DOMAIN s : g[k] \in T
  PROVE  g \in Seq(T) /\ Len(g) = Len(s) /\ DOMAIN g = DOMAIN s
<1>1. Len(s) \in Nat /\ DOMAIN s = 1 .. Len(s)
  OBVIOUS
<1>2. PICK n \in Nat : n = Len(s)
  BY <1>1
<1>3. g = [k \in 1 .. n |-> g[k]] /\ \A k \in 1 .. n : g[k] \in T
  BY <1>1, <1>2
<1>4. g \in [1 .. n -> T]
  BY <1>3
<1>5. g \in Seq(T) /\ Len(g) = n
  BY <1>4
<1> QED BY <1>1, <1>2, <1>4, <1>5

LEMMA EntryTyped == \A r \in Routes, b \in BOOLEAN : Entry(r, b) \in Entries
BY DEF Routes, Entries, Entry

LEMMA DynamicTyped ==
  ASSUME topo \in Views
  PROVE  Dynamic \in Seq(Entries) /\ Len(Dynamic) = Len(topo) /\ topo \in Seq(Routes)
<1>1. topo \in Seq(Routes)
  BY SconeRtableAssumption DEF SconeRtableAssumption
<1>2. ASSUME NEW k \in DOMAIN topo PROVE Dynamic[k] \in Entries
  <2>1. topo[k] \in Routes
    BY <1>1
  <2> QED BY <2>1, EntryTyped DEF Dynamic
<1>3. Dynamic = [k \in DOMAIN topo |-> Dynamic[k]]
  BY DEF Dynamic
<1> HIDE DEF Dynamic
<1> QED BY <1>1, <1>2, <1>3, MapTyped

LEMMA FlaggedTyped ==
  ASSUME rtable \in Seq(Entries), NEW f
  PROVE  /\ Activated(f) \in Seq(Entries) /\ DOMAIN Activated(f) = DOMAIN rtable
         /\ Deactivated(f) \in Seq(Entries) /\ DOMAIN Deactivated(f) = DOMAIN rtable
<1>1. ASSUME NEW e \in Entries, NEW b \in BOOLEAN
      PROVE  [e EXCEPT !.active = b] \in Entries
  BY DEF Entries
<1>2. \A k \in DOMAIN rtable : rtable[k] \in Entries
  OBVIOUS
<1>3. /\ Activated(f) = [k \in DOMAIN rtable |-> Activated(f)[k]]
      /\ \A k \in DOMAIN rtable : Activated(f)[k] \in Entries
  BY <1>1, <1>2 DEF Activated
<1>4. /\ Deactivated(f) = [k \in DOMAIN rtable |-> Deactivated(f)[k]]
      /\ \A k \in DOMAIN rtable : Deactivated(f)[k] \in Entries
  BY <1>1, <1>2 DEF Deactivated
<1>5. Activated(f) \in Seq(Entries) /\ DOMAIN Activated(f) = DOMAIN rtable
  BY <1>3, MapTyped
<1>6. Deactivated(f) \in Seq(Entries) /\ DOMAIN Deactivated(f) = DOMAIN rtable
  BY <1>4, MapTyped
<1> QED BY <1>5, <1>6

(* Any change of the table re-establishes the invariant. *)
LEMMA ChangeStep ==
  ASSUME IInv,
         NEW s, s \in Seq(Entries), NEW kept \in SUBSET DOMAIN s,
         TriggerRtableModified(s, kept),
         up' \subseteq Ifaces, topo' \in Views, dirty' \in BOOLEAN, seen' \in Views,
         dij' \in {"wait", "woken", "lock", "write", "loop"}
  PROVE  IInv'
<1>1. TypeOK
  BY DEF IInv
<1>2. /\ rtable' \in Seq(Entries) /\ cur' \in 1 .. Len(rtable)' + 1
      /\ hw' = hw /\ row' = 0 /\ writing' = TRUE
      /\ Sorted' /\ AtEntry' /\ Written'
  BY <1>1, TriggerStep
<1>3. hw \in [1 .. Depth -> Rows] /\ 0 \in 0 .. Depth /\ 0 < Depth
  BY <1>1, SconeRtableAssumption DEF TypeOK, SconeRtableAssumption
<1>4. TypeOK'
  BY <1>2, <1>3 DEF TypeOK
<1> QED BY <1>2, <1>4 DEF IInv

(* A step that leaves the table and its rows alone. *)
LEMMA QuietStep ==
  ASSUME IInv, UNCHANGED <<rtable, hw, row, cur, writing>>,
         up' \subseteq Ifaces, topo' \in Views, dirty' \in BOOLEAN, seen' \in Views,
         dij' \in {"wait", "woken", "lock", "write", "loop"}
  PROVE  IInv'
<1>1. TypeOK'
  BY DEF IInv, TypeOK
<1>2. (Sorted' <=> Sorted) /\ (AtEntry' <=> AtEntry) /\ (Written' <=> Written)
  BY DEF Sorted, AtEntry, Written, Images
<1> QED BY <1>1, <1>2 DEF IInv

LEMMA InitEstablishes ==
  ASSUME Init
  PROVE  IInv
<1>1. File \in Seq(Routes) /\ Depth \in Nat \ {0}
  BY SconeRtableAssumption DEF SconeRtableAssumption
<1>2. rtable \in Seq(Entries)
  <2>0. rtable = [k \in DOMAIN File |-> Entry(File[k], TRUE)]
    BY DEF Init
  <2>1. ASSUME NEW k \in DOMAIN File PROVE rtable[k] \in Entries
    <3>1. File[k] \in Routes
      BY <1>1
    <3> QED BY <2>0, <3>1, EntryTyped
  <2>2. rtable = [k \in DOMAIN File |-> rtable[k]]
    BY <2>0
  <2> QED BY <1>1, <2>1, <2>2, MapTyped
<1>3. ZeroRow \in Rows
  <2>1. 0 \in Addrs /\ 0 \in 0 .. Width
    BY SconeRtableAssumption DEF SconeRtableAssumption, Addrs
  <2> QED BY <2>1 DEF Rows, ZeroRow
<1>4. TypeOK
  <2>1. hw \in [1 .. Depth -> Rows] /\ up \subseteq Ifaces
    BY <1>3 DEF Init
  <2>2. row \in 0 .. Depth /\ cur \in 1 .. Len(rtable) + 1 /\ writing \in BOOLEAN /\ ~writing
    <3>1. Len(rtable) \in Nat
      BY <1>2
    <3>2. row = 0 /\ cur = 1 /\ writing = FALSE
      BY DEF Init
    <3>3. writing \in BOOLEAN /\ ~writing
      BY <3>2
    <3> QED BY <1>1, <3>1, <3>2, <3>3
  <2>3. topo \in Views /\ seen \in Views /\ dirty \in BOOLEAN /\ dij = "wait"
    BY SconeRtableAssumption DEF Init, SconeRtableAssumption
  <2> QED BY <1>2, <2>1, <2>2, <2>3 DEF TypeOK
<1>5. Written
  <2> DEFINE f == [i \in 1 .. 0 |-> 1]
  <2>0. row = 0 /\ cur = 1
    BY DEF Init
  <2>1. f \in [1 .. row -> 1 .. Len(rtable) + 1]
    BY <2>0
  <2> HIDE DEF f
  <2>2. \A i : i \in 1 .. row => FALSE
    BY <2>0
  <2>3. \A k \in 1 .. Len(rtable) : ~(k < cur)
    BY <1>2, <2>0
  <2>4. Images(f)
    BY <2>2, <2>3, Zenon DEF Images
  <2> QED BY <2>1, <2>4 DEF Written
<1>6. ~(writing \/ row > 0)
  BY DEF Init
<1> QED BY <1>4, <1>5, <1>6 DEF IInv

-----------------------------------------------------------------------------
LEMMA NextKeeps ==
  ASSUME IInv, [Next]_vars
  PROVE  IInv'
<1> DEFINE Dijs == {"wait", "woken", "lock", "write", "loop"}
<1>0. /\ rtable \in Seq(Entries) /\ up \subseteq Ifaces /\ topo \in Views
      /\ dirty \in BOOLEAN /\ seen \in Views /\ dij \in Dijs
  BY DEF IInv, TypeOK
<1>1. DOMAIN rtable = 1 .. Len(rtable) /\ Len(rtable) \in Nat
  BY <1>0
<1>d. ASSUME DijkstraTrigger PROVE dirty' \in BOOLEAN /\ dij' \in Dijs
  BY <1>0, <1>d DEF DijkstraTrigger
<1>2. CASE WriteRow
  BY <1>2, WriteRowStep
<1>3. ASSUME NEW r \in Operator, CliRouteAdd(r) PROVE IInv'
  <2>1. /\ TriggerRtableModified(Append(rtable, Entry(r, TRUE)), 1 .. Len(rtable) + 1)
        /\ UNCHANGED <<up, topo, dirty, dij, seen>>
    BY <1>3 DEF CliRouteAdd
  <2>2. Entry(r, TRUE) \in Entries
    BY EntryTyped, SconeRtableAssumption DEF SconeRtableAssumption
  <2>3. /\ Append(rtable, Entry(r, TRUE)) \in Seq(Entries)
        /\ DOMAIN Append(rtable, Entry(r, TRUE)) = 1 .. Len(rtable) + 1
    <3>1. PICK e \in Entries : e = Entry(r, TRUE)
      BY <2>2
    <3>2. Append(rtable, e) \in Seq(Entries) /\ Len(Append(rtable, e)) = Len(rtable) + 1
      BY <1>0
    <3>3. DOMAIN Append(rtable, e) = 1 .. Len(Append(rtable, e))
      BY <3>2
    <3> QED BY <3>1, <3>2, <3>3, Zenon
  <2> HIDE DEF Dijs
  <2> QED BY <1>0, <2>1, <2>3, ChangeStep DEF Dijs
<1>4. ASSUME NEW r \in Operator, CliRouteDel(r) PROVE IInv'
  <2> DEFINE others == {k \in DOMAIN rtable : ~(rtable[k].ip = r.ip /\ rtable[k].len = r.len)}
  <2>1. TriggerRtableModified(rtable, others) /\ UNCHANGED <<up, topo, dirty, dij, seen>>
    BY <1>4 DEF CliRouteDel
  <2>2. others \in SUBSET DOMAIN rtable
    OBVIOUS
  <2> HIDE DEF others
  <2> QED BY <1>0, <2>1, <2>2, ChangeStep
<1>5. ASSUME NEW f \in Ifaces, NEW v \in Views, IfaceUp(f, v) PROVE IInv'
  <2>1. /\ up' = up \cup {f} /\ topo' = v /\ seen' = seen /\ DijkstraTrigger
        /\ TriggerRtableModified(Activated(f), DOMAIN rtable)
    BY <1>5 DEF IfaceUp
  <2>2. Activated(f) \in Seq(Entries) /\ DOMAIN rtable \in SUBSET DOMAIN Activated(f)
    BY <1>0, FlaggedTyped
  <2> QED BY <1>0, <1>d, <2>1, <2>2, ChangeStep
<1>6. ASSUME NEW f \in Ifaces, NEW v \in Views, IfaceDown(f, v) PROVE IInv'
  <2>1. /\ up' = up \ {f} /\ topo' = v /\ seen' = seen /\ DijkstraTrigger
        /\ TriggerRtableModified(Deactivated(f), Staying(f))
    BY <1>6 DEF IfaceDown
  <2>2. Deactivated(f) \in Seq(Entries) /\ Staying(f) \in SUBSET DOMAIN Deactivated(f)
    BY <1>0, FlaggedTyped DEF Staying
  <2> QED BY <1>0, <1>d, <2>1, <2>2, ChangeStep
<1>7. ASSUME NEW v \in Views, TopologyChange(v) PROVE IInv'
  <2>1. /\ topo' = v /\ DijkstraTrigger
        /\ UNCHANGED <<rtable, up, hw, row, cur, writing, seen>>
    BY <1>7 DEF TopologyChange
  <2> QED BY <1>0, <1>d, <2>1, QuietStep
<1>8. CASE DijkstraRun
  <2>1. /\ TriggerRtableModified(rtable \o Dynamic, Statics \cup DynamicPlaces)
        /\ dij' = "write" /\ seen' = topo /\ UNCHANGED <<up, topo, dirty>>
    BY <1>8 DEF DijkstraRun
  <2>2. Dynamic \in Seq(Entries) /\ Len(Dynamic) = Len(topo)
    BY <1>0, DynamicTyped
  <2>3. /\ rtable \o Dynamic \in Seq(Entries)
        /\ DOMAIN (rtable \o Dynamic) = 1 .. Len(rtable) + Len(topo) /\ Len(topo) \in Nat
    BY <1>0, <2>2
  <2>4. Statics \cup DynamicPlaces \in SUBSET DOMAIN (rtable \o Dynamic)
    BY <1>1, <2>3 DEF Statics, DynamicPlaces
  <2> QED BY <1>0, <2>1, <2>3, <2>4, ChangeStep
<1>9. CASE DijkstraTimeout \/ DijkstraClear \/ DijkstraWait
  <2>1. /\ UNCHANGED <<rtable, up, hw, row, cur, writing, topo, seen>>
        /\ dirty' \in BOOLEAN /\ dij' \in Dijs
    BY <1>0, <1>9 DEF DijkstraTimeout, DijkstraClear, DijkstraWait
  <2> QED BY <1>0, <2>1, QuietStep
<1>10. CASE UNCHANGED vars
  BY <1>0, <1>10, QuietStep DEF vars
<1> QED
  BY <1>2, <1>3, <1>4, <1>5, <1>6, <1>7, <1>8, <1>9, <1>10
  DEF Next, Cli, DijkstraThread

(* The first row that matches d was written from the entry that            *)
(* get_next_hop finds: an entry before it would have a row before it.      *)
LEMMA RowsRoute ==
  ASSUME IInv
  PROVE  WrittenRowsRoute
<1> SUFFICES ASSUME NEW d \in Addrs
             PROVE  /\ Hits(d) # {} /\ FirstHit(d) <= row =>
                         GetNextHop(d) = IF hw[FirstHit(d)].port = NoPort THEN NoRoute
                                                                         ELSE HwLookup(d)
                    /\ row = Depth /\ Hits(d) = {} => \A i \in DOMAIN hw : hw[i].port # NoPort
  BY DEF WrittenRowsRoute
<1>0. /\ rtable \in Seq(Entries) /\ hw \in [1 .. Depth -> Rows] /\ row \in 0 .. Depth
      /\ cur \in 1 .. Len(rtable) + 1
  BY DEF IInv, TypeOK
<1>n. PICK N : N = Len(rtable)
  OBVIOUS
<1>1. /\ N \in Nat /\ DOMAIN rtable = 1 .. N /\ DOMAIN hw = 1 .. Depth /\ row \in Nat
      /\ Depth \in Nat \ {0} /\ cur \in 1 .. N + 1 /\ Hits(d) \subseteq Nat
  BY <1>0, <1>n, SconeRtableAssumption DEF SconeRtableAssumption, Hits
<1>2. PICK f \in [1 .. row -> 1 .. N + 1] : Images(f)
  BY <1>n DEF IInv, Written
<1>3. \A i \in 1 .. row : f[i] \in 1 .. N => rtable[f[i]].active /\ hw[i] = RowOf(rtable[f[i]])
  BY <1>1, <1>2, <1>n DEF Images
<1>4. \A i \in 1 .. row : f[i] = N + 1 => cur = N + 1 /\ hw[i] = ZeroRow
  BY <1>2, <1>n DEF Images
<1>5. \A i, j \in 1 .. row : i < j => f[i] < f[j] \/ f[j] = N + 1
  BY <1>2, <1>n DEF Images
<1>6. \A k \in 1 .. N : k < cur /\ rtable[k].active => \E i \in 1 .. row : f[i] = k
  BY <1>2, <1>n DEF Images
<1>7. \A i \in 1 .. row : f[i] \in 1 .. N \/ f[i] = N + 1
  BY <1>1, <1>2
<1>c. \A i \in 1 .. row : f[i] \in 1 .. N => f[i] < cur
  BY <1>1, <1>2, <1>n DEF Images
<1>8. \A k \in 1 .. N : rtable[k] \in Entries
  BY <1>0, <1>n
<1>9. \A i \in 1 .. row : f[i] \in 1 .. N => hw[i].port # NoPort
  <2>1. \A e \in Entries : RowOf(e).port # NoPort
    BY SconeRtableAssumption DEF SconeRtableAssumption, Entries, RowOf
  <2> QED BY <2>1, <1>3, <1>8
<1>10. \A e : Covers(RowOf(e), d) <=> Covers(e, d)
  BY DEF Covers, RowOf
<1>11. ASSUME Hits(d) # {}, FirstHit(d) <= row
       PROVE  GetNextHop(d) = IF hw[FirstHit(d)].port = NoPort THEN NoRoute ELSE HwLookup(d)
  <2>1. PICK h : h = FirstHit(d)
    OBVIOUS
  <2>2. h \in Hits(d) /\ \A j \in Hits(d) : h <= j
    <3>1. \E i \in Hits(d) : \A j \in Hits(d) : i <= j
      BY <1>1, <1>11, Least
    <3> QED BY <2>1, <3>1 DEF FirstHit
  <2>3. h \in 1 .. row /\ Covers(hw[h], d)
    BY <1>1, <1>11, <2>1, <2>2 DEF Hits
  <2> DEFINE matches == {k \in DOMAIN rtable : rtable[k].active /\ Covers(rtable[k], d)}
  <2>4. ASSUME NEW k \in matches, k < cur PROVE \E j \in 1 .. row : f[j] = k /\ h <= j
    <3>1. k \in 1 .. N /\ rtable[k].active /\ Covers(rtable[k], d)
      BY <1>1
    <3>2. PICK j \in 1 .. row : f[j] = k
      BY <1>6, <2>4, <3>1
    <3>3. j \in Hits(d)
      <4>1. Covers(hw[j], d)
        BY <1>3, <1>10, <3>1, <3>2
      <4>2. j \in DOMAIN hw
        BY <1>0, <1>1
      <4> QED BY <4>1, <4>2 DEF Hits
    <3> QED BY <2>2, <3>2, <3>3
  <2>5. CASE f[h] = N + 1
    <3>1. cur = N + 1 /\ hw[h].port = NoPort
      BY <1>4, <2>3, <2>5 DEF ZeroRow
    <3>2. matches = {}
      <4> SUFFICES ASSUME NEW k \in matches PROVE FALSE
        OBVIOUS
      <4>1. k \in 1 .. N
        BY <1>1
      <4>2. PICK j \in 1 .. row : f[j] = k /\ h <= j
        BY <1>1, <2>4, <3>1, <4>1
      <4>3. h # j
        BY <2>5, <4>1, <4>2, <1>1
      <4>4. f[h] < f[j] \/ f[j] = N + 1
        BY <1>5, <2>3, <4>2, <4>3, <1>1
      <4> QED BY <2>5, <4>1, <4>2, <4>4, <1>1
    <3> QED BY <2>1, <3>1, <3>2 DEF GetNextHop
  <2>6. CASE f[h] \in 1 .. N
    <3>1. PICK m : m = f[h]
      OBVIOUS
    <3>2. m \in 1 .. N /\ rtable[m].active /\ hw[h] = RowOf(rtable[m]) /\ m < cur
      BY <1>3, <1>c, <2>3, <2>6, <3>1
    <3>3. m \in matches
      BY <1>1, <1>10, <2>3, <3>2
    <3>4. ASSUME NEW k \in matches PROVE m <= k
      <4>1. k \in 1 .. N
        BY <1>1
      <4>2. CASE k < cur
        <5>1. PICK j \in 1 .. row : f[j] = k /\ h <= j
          BY <2>4, <4>2
        <5>2. CASE h = j
          BY <5>1, <5>2, <3>1, <3>2, <1>1
        <5>3. CASE h < j
          BY <5>1, <5>3, <3>1, <3>2, <4>1, <1>1, <1>5, <2>3
        <5> QED BY <5>1, <5>2, <5>3, <2>3, <1>1
      <4>3. CASE ~(k < cur)
        BY <3>2, <4>1, <4>3, <1>1
      <4> QED BY <4>2, <4>3
    <3>5. Sorted
      <4>1. row > 0
        BY <2>3, <1>1
      <4> QED BY <4>1 DEF IInv
    <3>6. ASSUME NEW k \in matches
          PROVE  \/ rtable[m].len > rtable[k].len
                 \/ rtable[m].len = rtable[k].len /\ m <= k
      <4>1. k \in 1 .. N /\ m <= k
        BY <1>1, <3>4
      <4>2. rtable[m].len \in Int /\ rtable[k].len \in Int
        BY <1>8, <3>2, <4>1 DEF Entries
      <4>3. CASE m = k
        BY <4>1, <4>2, <4>3
      <4>4. CASE m < k
        <5>1. rtable[m].len >= rtable[k].len
          BY <1>1, <3>2, <3>5, <4>1, <4>4 DEF Sorted
        <5> QED BY <4>1, <4>2, <5>1
      <4> QED BY <3>2, <4>1, <4>3, <4>4, <1>1
    <3> DEFINE lpm == CHOOSE k \in matches : \A j \in matches :
                        \/ rtable[k].len > rtable[j].len
                        \/ rtable[k].len = rtable[j].len /\ k <= j
    <3>7. lpm \in matches /\ \A j \in matches :
                        \/ rtable[lpm].len > rtable[j].len
                        \/ rtable[lpm].len = rtable[j].len /\ lpm <= j
      BY <3>3, <3>6
    <3>8. GetNextHop(d) = Via(rtable[lpm], rtable[lpm].iface, d)
      BY <3>3 DEF GetNextHop
    <3>l. lpm \in 1 .. N
      BY <1>1, <3>7
    <3> HIDE DEF lpm, matches
    <3>9. lpm = m
      <4>1. rtable[m].len \in Int /\ rtable[lpm].len \in Int
        BY <1>8, <3>2, <3>l DEF Entries
      <4>2. m <= lpm
        BY <3>4, <3>7
      <4>3. lpm <= m
        BY <3>3, <3>6, <3>7, <4>1
      <4> QED BY <4>2, <4>3, <3>2, <3>l, <1>1
    <3>10. hw[h].port # NoPort
      BY <1>9, <2>3, <2>6
    <3>11. HwLookup(d) = Via(hw[h], hw[h].port, d)
      BY <2>1 DEF HwLookup
    <3>12. Via(hw[h], hw[h].port, d) = Via(rtable[m], rtable[m].iface, d)
      BY <3>2 DEF Via, RowOf
    <3> QED BY <2>1, <3>8, <3>9, <3>10, <3>11, <3>12
  <2> QED BY <1>7, <2>3, <2>5, <2>6
<1>12. ASSUME row = Depth, Hits(d) = {}, NEW i \in DOMAIN hw PROVE hw[i].port # NoPort
  <2>1. i \in 1 .. row
    BY <1>1, <1>12
  <2>2. Covers(ZeroRow, d)
    <3>1. PICK host : host = 2 ^ Width
      OBVIOUS
    <3>2. host \in Nat \ {0} /\ d \in 0 .. host - 1
      BY <3>1, SconeRtableAssumption DEF SconeRtableAssumption, Addrs
    <3>3. d \div host = 0 \div host
      BY <3>2
    <3>4. Width - 0 = Width
      BY SconeRtableAssumption DEF SconeRtableAssumption
    <3> QED BY <3>1, <3>3, <3>4 DEF Covers, ZeroRow
  <2>3. hw[i] # ZeroRow
    BY <1>12, <2>2 DEF Hits
  <2>4. f[i] \in 1 .. N
    BY <1>4, <1>7, <2>1, <2>3
  <2> QED BY <1>9, <2>1, <2>4
<1> QED BY <1>11, <1>12

-----------------------------------------------------------------------------
(* Every row that write_rtable_to_hw has written comes from an active      *)
(* entry of the sorted list, in the list's order and with none left out.   *)
THEOREM RtableInvariant == Spec => []IInv
<1>1. Init => IInv
  BY InitEstablishes
<1>2. IInv /\ [Next]_vars => IInv'
  BY NextKeeps
<1> QED BY <1>1, <1>2, PTL DEF Spec

(* The variables keep their types, for any routes and any number of rows.  *)
THEOREM TypeCorrect == Spec => []TypeOK
<1>1. IInv => TypeOK
  BY DEF IInv
<1> QED BY <1>1, RtableInvariant, PTL

(* The rows that write_rtable_to_hw has written so far route every         *)
(* destination as get_next_hop does, whatever the routes, the width of the *)
(* addresses and the size of the hardware table.                           *)
THEOREM HardwareRoutes == Spec => []WrittenRowsRoute
<1>1. IInv => WrittenRowsRoute
  BY RowsRoute
<1> QED BY <1>1, RtableInvariant, PTL

-----------------------------------------------------------------------------
(* The places of the operator's route r in the list s. *)
PlacesOf(s, r) == {k \in DOMAIN s : s[k].static /\ Entry(s[k], TRUE) = Entry(r, TRUE)}

(* Sorting loses and doubles no route whose places are kept: the bijection *)
(* of SortsBijective is one between the places before and after.           *)
LEMMA SortsKeepsCopies ==
  ASSUME NEW s, NEW kept \in SUBSET DOMAIN s, s \in Seq(Entries),
         NEW t \in Sorts(s, kept), NEW r, PlacesOf(s, r) \subseteq kept
  PROVE  Copies(t, r) = Copies(s, r)
<1> DEFINE n == Cardinality(kept)
<1>1. PICK p \in Bijection(1 .. n, kept) : t = [i \in 1 .. n |-> s[p[i]]]
  BY SortsBijective
<1>2. n \in Nat /\ IsFiniteSet(kept)
  BY SortsBijective
<1> HIDE DEF n
<1>3. /\ p \in [1 .. n -> kept]
      /\ \A i, j \in 1 .. n : p[i] = p[j] => i = j
      /\ \A k \in kept : \E i \in 1 .. n : p[i] = k
  BY <1>1 DEF Bijection, Injection, Surjection, IsInjective
<1> DEFINE A == PlacesOf(t, r)
           B == PlacesOf(s, r)
           g == [i \in A |-> p[i]]
<1>4. DOMAIN t = 1 .. n /\ \A i \in 1 .. n : t[i] = s[p[i]] /\ p[i] \in DOMAIN s
  BY <1>1, <1>3
<1>5. A \subseteq 1 .. n /\ \A i \in 1 .. n : i \in A <=> p[i] \in B
  BY <1>4 DEF PlacesOf
<1> HIDE DEF A, B
<1>6. g \in Bijection(A, B)
  <2>1. g \in [A -> B] /\ \A i \in A : g[i] = p[i]
    BY <1>5
  <2>2. \A i, j \in A : g[i] = g[j] => i = j
    BY <1>3, <1>5, <2>1
  <2>3. \A k \in B : \E i \in A : g[i] = k
    <3> SUFFICES ASSUME NEW k \in B PROVE \E i \in A : g[i] = k
      OBVIOUS
    <3>1. PICK i \in 1 .. n : p[i] = k
      BY <1>3 DEF B
    <3> QED BY <1>5, <2>1, <3>1
  <2> QED BY <2>1, <2>2, <2>3 DEF Bijection, Injection, Surjection, IsInjective
<1>7. IsFiniteSet(A)
  <2>1. IsFiniteSet(1 .. n)
    BY <1>2, FS_Interval
  <2> QED BY <1>5, <2>1, FS_Subset
<1>8. Cardinality(A) = Cardinality(B)
  BY <1>6, <1>7, FS_Bijection DEF ExistsBijection
<1> QED BY <1>8 DEF Copies, PlacesOf, A, B

(* The flags of deactivate_routes and activate_routes, and the routes      *)
(* dijkstra_thread appends, change no place of a static route.             *)
LEMMA FlagsKeepPlaces ==
  ASSUME rtable \in Seq(Entries), NEW f, NEW r
  PROVE  /\ PlacesOf(Activated(f), r) = PlacesOf(rtable, r)
         /\ PlacesOf(Deactivated(f), r) = PlacesOf(rtable, r)
<1>1. \A k \in DOMAIN rtable : rtable[k] \in Entries
  OBVIOUS
<1>2. ASSUME NEW e \in Entries, NEW b \in BOOLEAN
      PROVE  /\ [e EXCEPT !.active = b].static = e.static
             /\ Entry([e EXCEPT !.active = b], TRUE) = Entry(e, TRUE)
  BY DEF Entries, Entry
<1>3. /\ DOMAIN Activated(f) = DOMAIN rtable
      /\ \A k \in DOMAIN rtable : Activated(f)[k] = rtable[k]
                                  \/ Activated(f)[k] = [rtable[k] EXCEPT !.active = TRUE]
  BY DEF Activated
<1>4. /\ DOMAIN Deactivated(f) = DOMAIN rtable
      /\ \A k \in DOMAIN rtable : Deactivated(f)[k] = rtable[k]
                                  \/ Deactivated(f)[k] = [rtable[k] EXCEPT !.active = FALSE]
  BY DEF Deactivated
<1>5. \A k \in DOMAIN rtable :
        /\ Activated(f)[k].static = rtable[k].static
        /\ Entry(Activated(f)[k], TRUE) = Entry(rtable[k], TRUE)
  BY <1>1, <1>2, <1>3
<1>6. \A k \in DOMAIN rtable :
        /\ Deactivated(f)[k].static = rtable[k].static
        /\ Entry(Deactivated(f)[k], TRUE) = Entry(rtable[k], TRUE)
  BY <1>1, <1>2, <1>4
<1> QED BY <1>3, <1>4, <1>5, <1>6 DEF PlacesOf

LEMMA DynamicKeepsPlaces ==
  ASSUME rtable \in Seq(Entries), topo \in Views, NEW r
  PROVE  PlacesOf(rtable \o Dynamic, r) = PlacesOf(rtable, r)
<1>1. Dynamic \in Seq(Entries) /\ Len(Dynamic) = Len(topo) /\ topo \in Seq(Routes)
  BY DynamicTyped
<1>2. \A k \in 1 .. Len(topo) : Dynamic[k].static = FALSE
  BY <1>1 DEF Dynamic, Entry
<1>3. PICK D : D = Dynamic
  OBVIOUS
<1>4. PICK N \in Nat, M \in Nat : N = Len(rtable) /\ M = Len(D)
  BY <1>1, <1>3
<1>5. \A k \in 1 .. M : ~D[k].static
  BY <1>1, <1>2, <1>3, <1>4
<1>6. /\ DOMAIN (rtable \o D) = 1 .. N + M /\ DOMAIN rtable = 1 .. N
      /\ \A k \in 1 .. N : (rtable \o D)[k] = rtable[k]
      /\ \A k \in N + 1 .. N + M : (rtable \o D)[k] = D[k - N]
  BY <1>1, <1>3, <1>4
<1>7. PICK z : z = rtable \o D
  OBVIOUS
<1>8. ASSUME NEW k \in 1 .. N + M, k \notin 1 .. N PROVE ~z[k].static
  <2>1. k \in N + 1 .. N + M /\ k - N \in 1 .. M
    BY <1>8
  <2> QED BY <1>5, <1>6, <1>7, <2>1
<1>9. \A k : k \in 1 .. N => k \in 1 .. N + M
  OBVIOUS
<1>10. DOMAIN z = 1 .. N + M /\ DOMAIN rtable = 1 .. N /\ \A k \in 1 .. N : z[k] = rtable[k]
  BY <1>6, <1>7
<1>11. PlacesOf(z, r) = PlacesOf(rtable, r)
  <2>1. ASSUME NEW k \in PlacesOf(z, r) PROVE k \in PlacesOf(rtable, r)
    BY <1>8, <1>10 DEF PlacesOf
  <2>2. ASSUME NEW k \in PlacesOf(rtable, r) PROVE k \in PlacesOf(z, r)
    <3>1. k \in 1 .. N /\ k \in 1 .. N + M
      BY <1>9, <1>10 DEF PlacesOf
    <3> QED BY <3>1, <1>10 DEF PlacesOf
  <2> QED BY <2>1, <2>2
<1> QED BY <1>3, <1>7, <1>11

LEMMA CopiesByPlaces ==
  ASSUME NEW s, NEW t, NEW r, PlacesOf(s, r) = PlacesOf(t, r)
  PROVE  Copies(s, r) = Copies(t, r)
BY DEF Copies, PlacesOf

(* Interfaces that go down and come up, and dijkstra_thread, neither lose  *)
(* nor double a static route, for any routes: only the operator's two      *)
(* commands change how often one is in the table.                          *)
THEOREM StaticsKept == Spec => StaticsAreTheOperators
<1> DEFINE Cmd == \E q \in Operator : CliRouteAdd(q) \/ CliRouteDel(q)
           P == \A r \in Operator : Copies(rtable', r) # Copies(rtable, r) => Cmd
<1>1. ASSUME TypeOK, [Next]_vars PROVE [P]_vars
  <2>0. rtable \in Seq(Entries) /\ topo \in Views
    BY <1>1 DEF TypeOK
  <2>1. CASE Cmd
    BY <2>1
  <2>2. CASE rtable' = rtable
    BY <2>2
  <2>3. ASSUME NEW f \in Ifaces, NEW v \in Views, IfaceUp(f, v), NEW r \in Operator
        PROVE  Copies(rtable', r) = Copies(rtable, r)
    <3>1. rtable' \in Sorts(Activated(f), DOMAIN rtable)
      BY <2>3 DEF IfaceUp, TriggerRtableModified
    <3>2. Activated(f) \in Seq(Entries) /\ DOMAIN Activated(f) = DOMAIN rtable
      BY <2>0, FlaggedTyped
    <3>3. PlacesOf(Activated(f), r) = PlacesOf(rtable, r)
      BY <2>0, FlagsKeepPlaces
    <3>4. PlacesOf(Activated(f), r) \subseteq DOMAIN rtable
      BY <3>3 DEF PlacesOf
    <3>5. Copies(rtable', r) = Copies(Activated(f), r)
      BY <3>1, <3>2, <3>4, SortsKeepsCopies
    <3> QED BY <3>3, <3>5, CopiesByPlaces
  <2>4. ASSUME NEW f \in Ifaces, NEW v \in Views, IfaceDown(f, v), NEW r \in Operator
        PROVE  Copies(rtable', r) = Copies(rtable, r)
    <3>1. rtable' \in Sorts(Deactivated(f), Staying(f))
      BY <2>4 DEF IfaceDown, TriggerRtableModified
    <3>2. Deactivated(f) \in Seq(Entries) /\ DOMAIN Deactivated(f) = DOMAIN rtable
      BY <2>0, FlaggedTyped
    <3>3. PlacesOf(Deactivated(f), r) = PlacesOf(rtable, r)
      BY <2>0, FlagsKeepPlaces
    <3>4. /\ PlacesOf(Deactivated(f), r) \subseteq Staying(f)
          /\ Staying(f) \in SUBSET DOMAIN Deactivated(f)
      BY <3>2, <3>3 DEF PlacesOf, Staying
    <3>5. Copies(rtable', r) = Copies(Deactivated(f), r)
      BY <3>1, <3>2, <3>4, SortsKeepsCopies
    <3> QED BY <3>3, <3>5, CopiesByPlaces
  <2>5. ASSUME DijkstraRun, NEW r \in Operator
        PROVE  Copies(rtable', r) = Copies(rtable, r)
    <3>1. rtable' \in Sorts(rtable \o Dynamic, Statics \cup DynamicPlaces)
      BY <2>5 DEF DijkstraRun, TriggerRtableModified
    <3>2. Dynamic \in Seq(Entries) /\ Len(Dynamic) = Len(topo)
      BY <2>0, DynamicTyped
    <3>3. /\ rtable \o Dynamic \in Seq(Entries)
          /\ DOMAIN (rtable \o Dynamic) = 1 .. Len(rtable) + Len(topo) /\ Len(topo) \in Nat
          /\ DOMAIN rtable = 1 .. Len(rtable) /\ Len(rtable) \in Nat
      BY <2>0, <3>2
    <3>4. Statics \cup DynamicPlaces \in SUBSET DOMAIN (rtable \o Dynamic)
      BY <3>3 DEF Statics, DynamicPlaces
    <3>5. PlacesOf(rtable \o Dynamic, r) = PlacesOf(rtable, r)
      BY <2>0, DynamicKeepsPlaces
    <3>6. PlacesOf(rtable \o Dynamic, r) \subseteq Statics \cup DynamicPlaces
      BY <3>5 DEF PlacesOf, Statics
    <3>7. Copies(rtable', r) = Copies(rtable \o Dynamic, r)
      BY <3>1, <3>3, <3>4, <3>6, SortsKeepsCopies
    <3> QED BY <3>5, <3>7, CopiesByPlaces
  <2>6. CASE \/ WriteRow \/ DijkstraTimeout \/ DijkstraClear \/ DijkstraWait
             \/ (\E v \in Views : TopologyChange(v)) \/ UNCHANGED vars
    <3>1. rtable' = rtable
      BY <2>6 DEF WriteRow, DijkstraTimeout, DijkstraClear, DijkstraWait, TopologyChange, vars
    <3> QED BY <3>1
  <2> QED
    BY <1>1, <2>1, <2>3, <2>4, <2>5, <2>6 DEF Next, Cli, DijkstraThread
<1>2. TypeOK /\ [Next]_vars => [P]_vars
  BY <1>1
<1> QED BY <1>2, TypeCorrect, PTL DEF Spec, StaticsAreTheOperators

-----------------------------------------------------------------------------
(* Induction up to n, over the set of the numbers a claim holds of. *)
LEMMA UpTo ==
  ASSUME NEW n \in Nat, NEW G, 0 \in G, \A i \in 1 .. n : i - 1 \in G => i \in G
  PROVE  \A i \in 0 .. n : i \in G
<1> DEFINE Bad == {i \in 0 .. n : i \notin G}
<1>1. ASSUME Bad # {} PROVE FALSE
  <2>1. Bad \subseteq Nat
    OBVIOUS
  <2>2. PICK i \in Bad : \A y \in Bad : i <= y
    BY <1>1, <2>1, Least
  <2>3. i \in 1 .. n
    OBVIOUS
  <2>4. i - 1 \in 0 .. n /\ ~(i <= i - 1)
    BY <2>3
  <2>5. i - 1 \in G
    BY <2>2, <2>4
  <2> QED BY <2>2, <2>3, <2>5
<1> QED BY <1>1

(* f goes from a on by F. *)
Goes(f, a, F, n) == f[0] = a /\ \A i \in 1 .. n : f[i] = F[f[i - 1]]

(* What a recursive function over the rounds of a loop is defined by has a
   solution. *)
LEMMA Iterated ==
  ASSUME NEW S, NEW a \in S, NEW F \in [S -> S], NEW n \in Nat
  PROVE  \E f \in [0 .. n -> S] : Goes(f, a, F, n)
<1> DEFINE G == {i \in Nat : \E f \in [0 .. i -> S] : Goes(f, a, F, i)}
<1>1. 0 \in G
  <2>1. PICK f : f = [i \in 0 .. 0 |-> a]
    OBVIOUS
  <2>2. f \in [0 .. 0 -> S] /\ Goes(f, a, F, 0)
    BY <2>1 DEF Goes
  <2> QED BY <2>2
<1>2. ASSUME NEW i \in 1 .. n, i - 1 \in G PROVE i \in G
  <2>1. PICK g \in [0 .. i - 1 -> S] : Goes(g, a, F, i - 1)
    BY <1>2
  <2>2. PICK f : f = [k \in 0 .. i |-> IF k = i THEN F[g[i - 1]] ELSE g[k]]
    OBVIOUS
  <2>3. i - 1 \in 0 .. i - 1 /\ i \in Nat
    OBVIOUS
  <2>4. g[i - 1] \in S /\ F[g[i - 1]] \in S
    BY <2>1, <2>3
  <2>5. \A k \in 0 .. i : f[k] = IF k = i THEN F[g[i - 1]] ELSE g[k]
    BY <2>2
  <2>6. f \in [0 .. i -> S]
    <3>1. \A k \in 0 .. i : (IF k = i THEN F[g[i - 1]] ELSE g[k]) \in S
      BY <2>1, <2>3, <2>4
    <3> QED BY <2>2, <3>1
  <2>7. f[0] = a
    BY <2>1, <2>3, <2>5 DEF Goes
  <2>8. ASSUME NEW k \in 1 .. i PROVE f[k] = F[f[k - 1]]
    <3>1. k \in 0 .. i /\ k - 1 \in 0 .. i /\ k - 1 # i
      BY <2>3
    <3>2. f[k - 1] = g[k - 1]
      BY <2>5, <3>1
    <3>3. CASE k = i
      BY <2>5, <3>1, <3>2, <3>3
    <3>4. CASE k # i
      <4>1. k \in 1 .. i - 1
        BY <3>4, <2>3
      <4> QED BY <2>1, <2>5, <3>1, <3>2, <3>4, <4>1 DEF Goes
    <3> QED BY <3>3, <3>4
  <2>9. Goes(f, a, F, i)
    BY <2>7, <2>8 DEF Goes
  <2> QED BY <2>3, <2>6, <2>9
<1>3. n \in 0 .. n
  OBVIOUS
<1>4. n \in G
  <2> HIDE DEF G
  <2> QED BY <1>1, <1>2, <1>3, UpTo
<1> QED BY <1>4

-----------------------------------------------------------------------------
(* The list and what the routers advertise, in every state *)
Sane ==
  /\ list \in Seq(Routers) /\ Us \in Known
  /\ \A j, k \in 1 .. Len(list) : list[j] = list[k] => j = k
  /\ \A r \in Routers : \A s \in Subnets[r] : adv[r][s] \in Peers(r, s) \cup {Null}

LEMMA RoutersFinite ==
  /\ IsFiniteSet(Routers) /\ Cardinality(Routers) \in Nat /\ Cardinality(Routers) >= 1
  /\ Infinity = Cardinality(Routers) + 1 /\ Infinity \in Nat
<1>1. IsFiniteSet(Others) /\ Us \notin Others
  BY DijkstraAssumption
<1>2. IsFiniteSet(Others \cup {Us}) /\ Cardinality(Others \cup {Us}) = Cardinality(Others) + 1
  BY <1>1, FS_AddElement
<1>3. Routers = Others \cup {Us}
  BY DEF Routers
<1>4. Cardinality(Others) \in Nat
  BY <1>1, FS_CardinalityType
<1> QED BY <1>2, <1>3, <1>4 DEF Infinity

LEMMA KnownFinite ==
  ASSUME Sane
  PROVE  /\ IsFiniteSet(Known) /\ Cardinality(Known) = Len(list) /\ Len(list) \in Nat
         /\ Known \subseteq Routers /\ Len(list) <= Cardinality(Routers)
<1>1. list \in Seq(Routers) /\ Len(list) \in Nat /\ list \in [1 .. Len(list) -> Routers]
  BY DEF Sane
<1>2. Known \subseteq Routers
  BY <1>1 DEF Known
<1>3. list \in Bijection(1 .. Len(list), Known)
  <2>1. list \in [1 .. Len(list) -> Known]
    BY <1>1 DEF Known
  <2>2. \A j, k \in 1 .. Len(list) : list[j] = list[k] => j = k
    BY DEF Sane
  <2>3. \A x \in Known : \E k \in 1 .. Len(list) : list[k] = x
    BY DEF Known
  <2> QED BY <2>1, <2>2, <2>3 DEF Bijection, Injection, Surjection, IsInjective
<1>4. ExistsBijection(1 .. Len(list), Known)
  BY <1>3 DEF ExistsBijection
<1>5. IsFiniteSet(1 .. Len(list)) /\ Cardinality(1 .. Len(list)) = Len(list)
  BY <1>1, FS_Interval
<1>6. IsFiniteSet(Known) /\ Cardinality(Known) = Len(list)
  BY <1>4, <1>5, FS_Bijection
<1>7. Cardinality(Known) <= Cardinality(Routers)
  BY <1>2, RoutersFinite, FS_Subset
<1> QED BY <1>1, <1>2, <1>6, <1>7

LEMMA NeighboursKnown ==
  ASSUME NEW w
  PROVE  Neighbours(w) \subseteq Known
BY DEF Neighbours, IsActive

-----------------------------------------------------------------------------
(* compute_rtable's loop *)
Pointers == Routers \cup {Null, Freed}
Ds == [dist : [Routers -> 0 .. Infinity], found : [Routers -> BOOLEAN],
       prev : [Routers -> Pointers]]

(* k is d after update_neighbor_distance of w. *)
Updated(d, w, k) ==
  /\ k \in Ds /\ k.found = d.found
  /\ \A v \in Routers :
       IF v \in Neighbours(w) /\ ~d.found[v] /\ d.dist[w] + 1 < d.dist[v]
       THEN k.dist[v] = d.dist[w] + 1 /\ k.prev[v] = w
       ELSE k.dist[v] = d.dist[v] /\ k.prev[v] = d.prev[v]

LEMMA UpdateFacts ==
  ASSUME NEW d \in Ds, NEW w \in Routers
  PROVE  Updated(d, w, UpdateNeighborDistance(d, w))
<1>1. PICK C : C = {v \in Neighbours(w) : ~d.found[v] /\ d.dist[w] + 1 < d.dist[v]}
  OBVIOUS
<1>2. PICK k : k = UpdateNeighborDistance(d, w)
  OBVIOUS
<1>3. k = [dist  |-> [v \in Routers |-> IF v \in C THEN d.dist[w] + 1 ELSE d.dist[v]],
           found |-> d.found,
           prev  |-> [v \in Routers |-> IF v \in C THEN w ELSE d.prev[v]]]
  BY <1>1, <1>2 DEF UpdateNeighborDistance, Ds
<1>4. Infinity \in Nat
  BY RoutersFinite
<1>5. /\ d.dist \in [Routers -> 0 .. Infinity] /\ d.found \in [Routers -> BOOLEAN]
      /\ d.prev \in [Routers -> Pointers]
  BY DEF Ds
<1>6. \A v \in Routers : v \in C => d.dist[w] + 1 \in 0 .. Infinity
  BY <1>1, <1>4, <1>5
<1>7. w \in Pointers
  BY DEF Pointers
<1>8. k \in Ds
  <2>1. k.dist \in [Routers -> 0 .. Infinity]
    BY <1>3, <1>5, <1>6
  <2>2. k.prev \in [Routers -> Pointers]
    BY <1>3, <1>5, <1>7
  <2> QED BY <1>3, <1>5, <2>1, <2>2 DEF Ds
<1>9. \A v \in Routers : v \in C <=> (v \in Neighbours(w) /\ ~d.found[v] /\ d.dist[w] + 1 < d.dist[v])
  BY <1>1
<1> QED BY <1>2, <1>3, <1>8, <1>9 DEF Updated

(* get_shortest finds one of the closest of the routers that are left. *)
LEMMA ShortestFacts ==
  ASSUME Sane, NEW d \in Ds, Left(d) # {}
  PROVE  /\ GetShortest(d) \in Routers /\ GetShortest(d) \in Known
         /\ ~d.found[GetShortest(d)] /\ d.dist[GetShortest(d)] < Infinity
         /\ \A v \in Known : ~d.found[v] /\ d.dist[v] < Infinity => d.dist[GetShortest(d)] <= d.dist[v]
<1> DEFINE L == Left(d)
           First(k) == \A j \in L : \/ d.dist[list[k]] < d.dist[list[j]]
                                    \/ d.dist[list[k]] = d.dist[list[j]] /\ k <= j
<1>1. list \in Seq(Routers) /\ L \subseteq 1 .. Len(list) /\ \A k \in 1 .. Len(list) : list[k] \in Routers
  BY DEF Sane, Left
<1>2. \A k \in L : d.dist[list[k]] \in Nat /\ k \in Nat
  BY <1>1 DEF Ds
<1>3. \E k \in L : First(k)
  <2> DEFINE V == {d.dist[list[k]] : k \in L}
  <2>1. V \subseteq Nat /\ V # {}
    BY <1>2
  <2>2. PICK m \in V : \A y \in V : m <= y
    BY <2>1, Least
  <2> DEFINE K == {k \in L : d.dist[list[k]] = m}
  <2>3. K \subseteq Nat /\ K # {}
    BY <1>2, <2>2
  <2>4. PICK k \in K : \A j \in K : k <= j
    BY <2>3, Least
  <2>5. ASSUME NEW j \in L PROVE \/ d.dist[list[k]] < d.dist[list[j]]
                                 \/ d.dist[list[k]] = d.dist[list[j]] /\ k <= j
    <3>1. m <= d.dist[list[j]] /\ d.dist[list[k]] = m /\ m \in Nat /\ d.dist[list[j]] \in Nat
      BY <1>2, <2>2
    <3>2. d.dist[list[j]] = m => k <= j
      BY <2>4
    <3> QED BY <3>1, <3>2
  <2> QED BY <2>4, <2>5
<1>4. PICK k : k = CHOOSE x \in L : First(x)
  OBVIOUS
<1>5. k \in L /\ First(k)
  BY <1>3, <1>4
<1>6. GetShortest(d) = list[k]
  BY <1>4 DEF GetShortest
<1>7. list[k] \in Routers /\ list[k] \in Known /\ ~d.found[list[k]] /\ d.dist[list[k]] < Infinity
  BY <1>1, <1>5 DEF Left, Known
<1>8. ASSUME NEW v \in Known, ~d.found[v], d.dist[v] < Infinity PROVE d.dist[list[k]] <= d.dist[v]
  <2>1. PICK j \in 1 .. Len(list) : list[j] = v
    BY DEF Known
  <2>2. j \in L
    BY <1>8, <2>1 DEF Left
  <2>3. d.dist[list[k]] \in Nat /\ d.dist[list[j]] \in Nat
    BY <1>2, <1>5, <2>2
  <2> QED BY <1>5, <2>1, <2>2, <2>3
<1> QED BY <1>6, <1>7, <1>8

(* e is d with the shortest path to w found. *)
Marked(d, w, e) ==
  /\ e \in Ds /\ e.dist = d.dist /\ e.prev = d.prev
  /\ \A v \in Routers : e.found[v] <=> (d.found[v] \/ v = w)

LEMMA MarkFacts ==
  ASSUME NEW d \in Ds, NEW w \in Routers, NEW e, e = [d EXCEPT !.found = [@ EXCEPT ![w] = TRUE]]
  PROVE  Marked(d, w, e)
<1>1. PICK F : F = [d.found EXCEPT ![w] = TRUE]
  OBVIOUS
<1>2. d.found \in [Routers -> BOOLEAN]
  BY DEF Ds
<1>3. F \in [Routers -> BOOLEAN] /\ \A v \in Routers : F[v] <=> (d.found[v] \/ v = w)
  BY <1>1, <1>2
<1>4. e = [dist |-> d.dist, found |-> F, prev |-> d.prev]
  BY <1>1 DEF Ds
<1>5. d.dist \in [Routers -> 0 .. Infinity] /\ d.prev \in [Routers -> Pointers]
  BY DEF Ds
<1>6. e \in Ds
  <2>1. F \in [Routers -> BOOLEAN]
    BY <1>3
  <2> QED BY ONLY <1>4, <1>5, <2>1 DEF Ds
<1>7. e.dist = d.dist /\ e.prev = d.prev /\ e.found = F
  BY <1>4
<1> QED BY <1>3, <1>6, <1>7 DEF Marked

Start == [dist  |-> [r \in Routers |-> IF r = Us THEN 0 ELSE Infinity],
          found |-> [r \in Routers |-> r = Us],
          prev  |-> prev]

Loops(f) ==
  f = [n \in 0 .. Len(list) |->
         IF n = 0 THEN UpdateNeighborDistance(Start, Us) ELSE Round(f[n - 1])]

LEMMA RoundsDef == Rounds = (CHOOSE f : Loops(f))[Len(list)]
BY DEF Rounds, Loops, Start

LEMMA StartType ==
  ASSUME prev \in [Routers -> Pointers]
  PROVE  Start \in Ds
<1>1. Infinity \in Nat
  BY RoutersFinite
<1>2. \A r \in Routers : (IF r = Us THEN 0 ELSE Infinity) \in 0 .. Infinity
  BY <1>1
<1>3. [r \in Routers |-> IF r = Us THEN 0 ELSE Infinity] \in [Routers -> 0 .. Infinity]
  BY <1>2
<1>4. [r \in Routers |-> r = Us] \in [Routers -> BOOLEAN]
  OBVIOUS
<1> QED BY <1>3, <1>4 DEF Start, Ds

LEMMA RoundType ==
  ASSUME Sane, NEW d \in Ds
  PROVE  Round(d) \in Ds
<1>1. CASE Left(d) = {}
  BY <1>1 DEF Round
<1>2. CASE Left(d) # {}
  <2>1. PICK w, e : w = GetShortest(d) /\ e = [d EXCEPT !.found = [@ EXCEPT ![w] = TRUE]]
    OBVIOUS
  <2>2. w \in Routers
    BY <1>2, <2>1, ShortestFacts
  <2>3. e \in Ds
    BY <2>1, <2>2, MarkFacts DEF Marked
  <2>4. Round(d) = UpdateNeighborDistance(e, w)
    BY <1>2, <2>1 DEF Round
  <2>5. Updated(e, w, UpdateNeighborDistance(e, w))
    BY <2>2, <2>3, UpdateFacts
  <2> QED BY <2>4, <2>5 DEF Updated
<1> QED BY <1>1, <1>2

LEMMA LoopsExist ==
  ASSUME Sane, prev \in [Routers -> Pointers]
  PROVE  \E f : Loops(f)
<1>1. PICK a, F : a = UpdateNeighborDistance(Start, Us) /\ F = [d \in Ds |-> Round(d)]
  OBVIOUS
<1>2. Us \in Routers
  BY DEF Routers
<1>3. a \in Ds
  BY <1>1, <1>2, StartType, UpdateFacts DEF Updated
<1>4. F \in [Ds -> Ds]
  BY <1>1, RoundType
<1>5. Len(list) \in Nat
  BY DEF Sane
<1>6. PICK f \in [0 .. Len(list) -> Ds] : Goes(f, a, F, Len(list))
  BY <1>3, <1>4, <1>5, Iterated
<1>7. ASSUME NEW n \in 0 .. Len(list)
      PROVE  f[n] = IF n = 0 THEN UpdateNeighborDistance(Start, Us) ELSE Round(f[n - 1])
  <2>1. CASE n = 0
    BY <1>1, <1>6, <2>1 DEF Goes
  <2>2. CASE n # 0
    <3>1. n \in 1 .. Len(list) /\ n - 1 \in 0 .. Len(list)
      BY <1>5, <2>2
    <3>2. f[n] = F[f[n - 1]] /\ f[n - 1] \in Ds
      BY <1>6, <3>1 DEF Goes
    <3> QED BY <1>1, <2>2, <3>2
  <2> QED BY <2>1, <2>2
<1>8. Loops(f)
  BY <1>6, <1>7 DEF Loops
<1> QED BY <1>8

(* What holds after every round.  The neighbours of x, whose turn it is, may
   not have been looked at yet. *)
Found(d) == {v \in Routers : d.found[v]}
Near(d, v) == d.dist[v] < Infinity

ComesVia(d, v) ==
  /\ d.prev[v] \in Routers /\ d.found[d.prev[v]] /\ v \in Neighbours(d.prev[v])
  /\ d.dist[v] = d.dist[d.prev[v]] + 1

SoundBut(d, x) ==
  /\ d \in Ds /\ d.dist[Us] = 0 /\ d.found[Us]
  /\ \A v \in Routers : Near(d, v) => v \in Known /\ d.dist[v] <= Cardinality(Found(d))
  /\ \A v \in Routers : d.found[v] => Near(d, v) /\ d.dist[v] + 1 <= Cardinality(Found(d))
  /\ \A v \in Routers : Near(d, v) /\ v # Us => ComesVia(d, v)
  /\ \A v \in Routers : ~Near(d, v) \/ v = Us => d.prev[v] = prev[v]
  /\ \A w \in Routers \ {x} : \A v \in Neighbours(w) : d.found[w] => d.dist[v] <= d.dist[w] + 1
  /\ \A w, v \in Routers : d.found[w] /\ ~d.found[v] => d.dist[w] <= d.dist[v]

Sound(d) == SoundBut(d, Null)

LEMMA FoundFinite ==
  ASSUME NEW d
  PROVE  IsFiniteSet(Found(d)) /\ Cardinality(Found(d)) \in Nat
<1>1. IsFiniteSet(Routers) /\ Found(d) \in SUBSET Routers
  BY RoutersFinite DEF Found
<1> QED BY <1>1, FS_Subset, FS_CardinalityType

LEMMA StartSound ==
  ASSUME Sane, prev \in [Routers -> Pointers]
  PROVE  SoundBut(Start, Us)
<1>1. Start \in Ds /\ Us \in Routers /\ Infinity \in Nat /\ Infinity > 0
  BY StartType, RoutersFinite DEF Routers
<1>2. /\ \A v \in Routers : Start.dist[v] = IF v = Us THEN 0 ELSE Infinity
      /\ \A v \in Routers : Start.found[v] <=> v = Us
      /\ Start.prev = prev
  BY DEF Start
<1>3. Found(Start) = {Us}
  BY <1>1, <1>2 DEF Found
<1>4. Cardinality(Found(Start)) = 1
  BY <1>3, FS_Singleton
<1>5. \A v \in Routers : Near(Start, v) <=> v = Us
  BY <1>1, <1>2 DEF Near
<1>6. Us \in Known
  BY DEF Sane
<1> QED BY <1>1, <1>2, <1>4, <1>5, <1>6 DEF SoundBut

LEMMA SettleSound ==
  ASSUME Sane, NEW d, NEW w \in Routers, SoundBut(d, w), d.found[w],
         \A u \in Routers : d.found[u] => d.dist[u] <= d.dist[w],
         NEW k, Updated(d, w, k)
  PROVE  Sound(k) /\ Found(k) = Found(d)
<1> DEFINE Closer(v) == v \in Neighbours(w) /\ ~d.found[v] /\ d.dist[w] + 1 < d.dist[v]
           c == Cardinality(Found(d))
<1>1. d \in Ds /\ k \in Ds /\ k.found = d.found /\ Us \in Routers /\ Infinity \in Nat
  BY RoutersFinite DEF SoundBut, Updated, Routers
<1>2. \A v \in Routers : d.dist[v] \in Nat /\ k.dist[v] \in Nat /\ d.dist[v] <= Infinity
  BY <1>1 DEF Ds
<1>3. \A v \in Routers : Closer(v) => k.dist[v] = d.dist[w] + 1 /\ k.prev[v] = w
  BY DEF Updated
<1>4. \A v \in Routers : ~Closer(v) => k.dist[v] = d.dist[v] /\ k.prev[v] = d.prev[v]
  BY DEF Updated
<1>5. Found(k) = Found(d) /\ c \in Nat
  BY <1>1, FoundFinite DEF Found
<1>6. \A v \in Routers : d.found[v] => k.dist[v] = d.dist[v] /\ k.prev[v] = d.prev[v]
  BY <1>4
<1>7. ASSUME NEW v \in Routers, Closer(v) PROVE Near(k, v) /\ v \in Known
  <2>1. v \in Known
    BY <1>7, NeighboursKnown
  <2>2. k.dist[v] = d.dist[w] + 1 /\ d.dist[w] + 1 < d.dist[v] /\ d.dist[v] <= Infinity
    BY <1>2, <1>3, <1>7
  <2> QED BY <1>1, <1>2, <2>1, <2>2 DEF Near
<1>8. Near(d, w) /\ d.dist[w] + 1 <= c
  BY DEF SoundBut
<1>9. ASSUME NEW v \in Routers, Near(k, v) PROVE v \in Known /\ k.dist[v] <= c
  <2>1. CASE Closer(v)
    BY <1>3, <1>7, <1>8, <2>1
  <2>2. CASE ~Closer(v)
    BY <1>4, <1>9, <2>2 DEF SoundBut, Near
  <2> QED BY <2>1, <2>2
<1>10. ASSUME NEW v \in Routers, k.found[v] PROVE Near(k, v) /\ k.dist[v] + 1 <= c
  BY <1>1, <1>6, <1>10 DEF SoundBut, Near
<1>11. ASSUME NEW v \in Routers, Near(k, v), v # Us PROVE ComesVia(k, v)
  <2>1. CASE Closer(v)
    <3>1. k.prev[v] = w /\ k.dist[v] = d.dist[w] + 1 /\ k.dist[w] = d.dist[w] /\ k.found[w]
      BY <1>1, <1>3, <1>6, <2>1
    <3> QED BY <2>1, <3>1 DEF ComesVia
  <2>2. CASE ~Closer(v)
    <3>1. ComesVia(d, v)
      BY <1>4, <1>11, <2>2 DEF SoundBut, Near
    <3>2. k.prev[v] = d.prev[v] /\ k.dist[v] = d.dist[v]
      BY <1>4, <2>2
    <3>3. k.dist[d.prev[v]] = d.dist[d.prev[v]]
      BY <1>6, <3>1 DEF ComesVia
    <3> QED BY <1>1, <3>1, <3>2, <3>3 DEF ComesVia
  <2> QED BY <2>1, <2>2
<1>12. ASSUME NEW v \in Routers, ~Near(k, v) \/ v = Us PROVE k.prev[v] = prev[v]
  <2>1. ~Closer(v)
    BY <1>7, <1>12 DEF SoundBut
  <2>2. k.prev[v] = d.prev[v] /\ k.dist[v] = d.dist[v]
    BY <1>4, <2>1
  <2> QED BY <1>12, <2>2 DEF SoundBut, Near
<1>13. ASSUME NEW u \in Routers, NEW v \in Neighbours(u), k.found[u] PROVE k.dist[v] <= k.dist[u] + 1
  <2>1. v \in Routers
    BY KnownFinite, NeighboursKnown
  <2>2. d.found[u] /\ k.dist[u] = d.dist[u] /\ d.dist[u] <= d.dist[w]
    BY <1>1, <1>6, <1>13
  <2>3. CASE u = w
    <3>1. CASE Closer(v)
      BY <1>2, <1>3, <2>1, <2>2, <2>3, <3>1
    <3>2. CASE ~Closer(v)
      <4>1. k.dist[v] = d.dist[v]
        BY <1>4, <2>1, <3>2
      <4>2. d.found[v] \/ d.dist[v] <= d.dist[w] + 1
        BY <1>2, <1>13, <2>1, <2>3, <3>2
      <4>3. d.found[v] => d.dist[v] <= d.dist[w]
        BY <2>1
      <4> QED BY <1>2, <2>1, <2>2, <2>3, <4>1, <4>2, <4>3
    <3> QED BY <3>1, <3>2
  <2>4. CASE u # w
    <3>1. d.dist[v] <= d.dist[u] + 1
      BY <2>2, <2>4 DEF SoundBut
    <3>2. k.dist[v] <= d.dist[v]
      BY <1>2, <1>3, <1>4, <2>1
    <3> QED BY <1>2, <2>1, <2>2, <3>1, <3>2
  <2> QED BY <2>3, <2>4
<1>14. ASSUME NEW u \in Routers, NEW v \in Routers, k.found[u], ~k.found[v] PROVE k.dist[u] <= k.dist[v]
  <2>1. d.found[u] /\ ~d.found[v] /\ k.dist[u] = d.dist[u] /\ d.dist[u] <= d.dist[w]
    BY <1>1, <1>6, <1>14
  <2>2. d.dist[u] <= d.dist[v]
    BY <2>1 DEF SoundBut
  <2> QED BY <1>2, <1>3, <1>4, <2>1, <2>2
<1>15. k.dist[Us] = 0 /\ k.found[Us]
  BY <1>1, <1>6 DEF SoundBut
<1>16. \A u \in Routers \ {Null} : u \in Routers
  OBVIOUS
<1> QED BY <1>1, <1>5, <1>9, <1>10, <1>11, <1>12, <1>13, <1>14, <1>15, <1>16 DEF Sound, SoundBut

LEMMA MarkSound ==
  ASSUME Sane, NEW d, Sound(d), NEW w \in Routers, ~d.found[w], Near(d, w),
         \A v \in Known : ~d.found[v] /\ Near(d, v) => d.dist[w] <= d.dist[v],
         NEW e, e \in Ds, e.dist = d.dist, e.prev = d.prev,
         \A v \in Routers : e.found[v] <=> (d.found[v] \/ v = w)
  PROVE  /\ SoundBut(e, w) /\ e.found[w] /\ Cardinality(Found(e)) = Cardinality(Found(d)) + 1
         /\ \A u \in Routers : e.found[u] => e.dist[u] <= e.dist[w]
<1> DEFINE c == Cardinality(Found(d))
<1>1. Found(e) = Found(d) \cup {w} /\ w \notin Found(d)
  BY DEF Found
<1>2. Cardinality(Found(e)) = c + 1 /\ c \in Nat
  BY <1>1, FoundFinite, FS_AddElement
<1>3. d \in Ds /\ Infinity \in Nat /\ Us \in Routers
  BY RoutersFinite DEF Sound, SoundBut, Routers
<1>4. \A v \in Routers : d.dist[v] \in Nat /\ d.dist[v] <= Infinity
  BY <1>3 DEF Ds
<1>5. \A v \in Routers : Near(e, v) <=> Near(d, v)
  BY DEF Near
<1>6. \A v \in Routers : Near(d, v) => v \in Known /\ d.dist[v] <= c
  BY DEF Sound, SoundBut
<1>7. ASSUME NEW v \in Routers, Near(e, v) PROVE v \in Known /\ e.dist[v] <= c + 1
  BY <1>2, <1>4, <1>5, <1>6, <1>7
<1>8. ASSUME NEW v \in Routers, e.found[v] PROVE Near(e, v) /\ e.dist[v] + 1 <= c + 1
  <2>1. CASE v = w
    BY <1>2, <1>4, <1>5, <1>6, <2>1
  <2>2. CASE v # w
    <3>1. Near(d, v) /\ d.dist[v] + 1 <= c
      BY <1>8, <2>2 DEF Sound, SoundBut
    <3> QED BY <1>2, <1>4, <1>5, <3>1
  <2> QED BY <2>1, <2>2
<1>9. ASSUME NEW v \in Routers, Near(e, v), v # Us PROVE ComesVia(e, v)
  <2>1. ComesVia(d, v)
    BY <1>5, <1>9 DEF Sound, SoundBut
  <2> QED BY <2>1 DEF ComesVia
<1>10. ASSUME NEW v \in Routers, ~Near(e, v) \/ v = Us PROVE e.prev[v] = prev[v]
  BY <1>5, <1>10 DEF Sound, SoundBut
<1>11. ASSUME NEW u \in Routers \ {w}, NEW v \in Neighbours(u), e.found[u] PROVE e.dist[v] <= e.dist[u] + 1
  <2>1. d.found[u] /\ u \in Routers \ {Null}
    BY <1>11, DijkstraAssumption
  <2> QED BY <2>1 DEF Sound, SoundBut
<1>12. ASSUME NEW u \in Routers, NEW v \in Routers, e.found[u], ~e.found[v] PROVE e.dist[u] <= e.dist[v]
  <2>1. ~d.found[v]
    BY <1>12
  <2>2. CASE u = w
    <3>1. CASE Near(d, v)
      BY <1>6, <2>1, <2>2, <3>1
    <3>2. CASE ~Near(d, v)
      BY <1>3, <1>4, <2>2, <3>2 DEF Near
    <3> QED BY <3>1, <3>2
  <2>3. CASE u # w
    BY <1>12, <2>1, <2>3 DEF Sound, SoundBut
  <2> QED BY <2>2, <2>3
<1>13. ASSUME NEW u \in Routers, e.found[u] PROVE e.dist[u] <= e.dist[w]
  <2>1. CASE u = w
    BY <1>4, <2>1
  <2>2. CASE u # w
    BY <1>13, <2>2 DEF Sound, SoundBut
  <2> QED BY <2>1, <2>2
<1>14. e.dist[Us] = 0 /\ e.found[Us] /\ e.found[w]
  BY <1>3 DEF Sound, SoundBut
<1>15. SoundBut(e, w)
  BY <1>2, <1>7, <1>8, <1>9, <1>10, <1>11, <1>12, <1>14 DEF SoundBut
<1> QED BY <1>2, <1>13, <1>14, <1>15

(* A round keeps what is known, and finds the path to one more router. *)
LEMMA RoundSound ==
  ASSUME Sane, NEW d, Sound(d), Left(d) # {}
  PROVE  Sound(Round(d)) /\ Cardinality(Found(Round(d))) = Cardinality(Found(d)) + 1
<1>1. d \in Ds
  BY DEF Sound, SoundBut
<1>2. PICK w, e : w = GetShortest(d) /\ e = [d EXCEPT !.found = [@ EXCEPT ![w] = TRUE]]
  OBVIOUS
<1>3. /\ w \in Routers /\ ~d.found[w] /\ Near(d, w)
      /\ \A v \in Known : ~d.found[v] /\ Near(d, v) => d.dist[w] <= d.dist[v]
  BY <1>1, <1>2, ShortestFacts DEF Near
<1>4. /\ e \in Ds /\ e.dist = d.dist /\ e.prev = d.prev
      /\ \A v \in Routers : e.found[v] <=> (d.found[v] \/ v = w)
  <2>1. w \in Routers /\ e = [d EXCEPT !.found = [@ EXCEPT ![w] = TRUE]]
    BY <1>2, <1>3
  <2>2. Marked(d, w, e)
    BY <1>1, <2>1, MarkFacts
  <2> QED BY <2>2 DEF Marked
<1>5. /\ SoundBut(e, w) /\ e.found[w] /\ Cardinality(Found(e)) = Cardinality(Found(d)) + 1
      /\ \A u \in Routers : e.found[u] => e.dist[u] <= e.dist[w]
  BY <1>3, <1>4, MarkSound
<1>6. PICK k : k = UpdateNeighborDistance(e, w)
  OBVIOUS
<1>7. Updated(e, w, k)
  BY <1>3, <1>4, <1>6, UpdateFacts
<1>8. Sound(k) /\ Found(k) = Found(e)
  BY <1>3, <1>5, <1>7, SettleSound
<1>9. Round(d) = k
  BY <1>2, <1>6 DEF Round
<1> QED BY <1>5, <1>8, <1>9

(* compute_rtable's loop ends with every router that has a distance found. *)
LEMMA RoundsFacts ==
  ASSUME Sane, prev \in [Routers -> Pointers]
  PROVE  Sound(Rounds) /\ Left(Rounds) = {}
<1>1. PICK f : f = CHOOSE g : Loops(g)
  OBVIOUS
<1>2. Loops(f)
  BY <1>1, LoopsExist
<1>3. PICK n : n = Len(list)
  OBVIOUS
<1>4. n \in Nat /\ Cardinality(Known) = n /\ IsFiniteSet(Known)
  BY <1>3, KnownFinite
<1>5. f[0] = UpdateNeighborDistance(Start, Us) /\ \A i \in 1 .. n : f[i] = Round(f[i - 1])
  BY <1>2, <1>3, <1>4 DEF Loops
<1> DEFINE Done(d, i) == Sound(d) /\ (Left(d) = {} \/ Cardinality(Found(d)) >= i + 1)
           G == {i \in Nat : Done(f[i], i)}
<1>6. 0 \in G
  <2>1. Us \in Routers /\ Start \in Ds /\ SoundBut(Start, Us)
    BY StartType, StartSound DEF Routers
  <2>2. Updated(Start, Us, f[0])
    BY <1>5, <2>1, UpdateFacts
  <2>3. /\ \A v \in Routers : Start.found[v] <=> v = Us
        /\ Start.dist[Us] = 0
    BY <2>1 DEF Start
  <2>4. \A v \in Routers : Start.found[v] => Start.dist[v] <= Start.dist[Us]
    BY <2>3
  <2>5. Sound(f[0]) /\ Found(f[0]) = Found(Start)
    BY <2>1, <2>2, <2>3, <2>4, SettleSound
  <2>6. Found(Start) = {Us}
    BY <2>1, <2>3 DEF Found
  <2>7. Cardinality(Found(f[0])) = 1
    BY <2>5, <2>6, FS_Singleton
  <2> QED BY <2>5, <2>7
<1>7. ASSUME NEW i \in 1 .. n, i - 1 \in G PROVE i \in G
  <2>1. PICK d : d = f[i - 1]
    OBVIOUS
  <2>2. f[i] = Round(d) /\ Done(d, i - 1) /\ i \in Nat
    BY <1>5, <1>7, <2>1
  <2>3. CASE Left(d) = {}
    BY <2>2, <2>3 DEF Round
  <2>4. CASE Left(d) # {}
    <3>1. Sound(Round(d)) /\ Cardinality(Found(Round(d))) = Cardinality(Found(d)) + 1
      BY <2>2, <2>4, RoundSound
    <3>2. Cardinality(Found(d)) \in Nat /\ Cardinality(Found(d)) >= (i - 1) + 1
      BY <2>2, <2>4, FoundFinite
    <3>3. Cardinality(Found(Round(d))) >= i + 1
      BY <2>2, <3>1, <3>2
    <3> QED BY <2>2, <3>1, <3>3
  <2> QED BY <2>3, <2>4
<1>8. n \in G
  <2> HIDE DEF G
  <2>1. n \in 0 .. n
    BY <1>4
  <2> QED BY <1>4, <1>6, <1>7, <2>1, UpTo
<1>9. Rounds = f[n]
  BY <1>1, <1>3, RoundsDef
<1>10. Done(Rounds, n)
  BY <1>8, <1>9
<1>11. Found(Rounds) \subseteq Known
  BY <1>10 DEF Sound, SoundBut, Found
<1>12. Cardinality(Found(Rounds)) <= n
  BY <1>4, <1>11, FS_Subset
<1>13. Cardinality(Found(Rounds)) \in Nat
  BY FoundFinite
<1> QED BY <1>4, <1>10, <1>12, <1>13

(* What the loop leaves behind: every router with a distance is found, and
   its neighbours have one. *)
Final(d) ==
  /\ d \in Ds /\ d.dist[Us] = 0
  /\ \A v \in Routers : Near(d, v) => v \in Known /\ d.dist[v] <= Len(list)
  /\ \A v \in Routers : Near(d, v) /\ v # Us => ComesVia(d, v)
  /\ \A v \in Routers : Near(d, v) <=> d.found[v]
  /\ \A v \in Routers : ~Near(d, v) \/ v = Us => d.prev[v] = prev[v]
  /\ \A w \in Routers : \A v \in Neighbours(w) : Near(d, w) => d.dist[v] <= d.dist[w] + 1 /\ Near(d, v)

LEMMA RoundsFinal ==
  ASSUME Sane, prev \in [Routers -> Pointers]
  PROVE  Final(Rounds)
<1>1. PICK d : d = Rounds
  OBVIOUS
<1>2. Sound(d) /\ Left(d) = {}
  BY <1>1, RoundsFacts
<1>3. Found(d) \subseteq Known /\ d \in Ds
  BY <1>2 DEF Sound, SoundBut, Found
<1>4. /\ Cardinality(Found(d)) <= Len(list) /\ Cardinality(Found(d)) \in Nat /\ Len(list) \in Nat
      /\ Len(list) < Infinity /\ Infinity \in Nat /\ Known \subseteq Routers
  BY <1>3, KnownFinite, RoutersFinite, FoundFinite, FS_Subset
<1>5. \A v \in Routers : d.dist[v] \in Nat
  BY <1>3 DEF Ds
<1>6. ASSUME NEW v \in Routers, Near(d, v) PROVE v \in Known /\ d.dist[v] <= Len(list)
  <2>1. v \in Known /\ d.dist[v] <= Cardinality(Found(d))
    BY <1>2, <1>6 DEF Sound, SoundBut
  <2> QED BY <1>4, <1>5, <2>1
<1>7. ASSUME NEW v \in Routers, Near(d, v) PROVE d.found[v]
  <2>1. PICK k \in 1 .. Len(list) : list[k] = v
    BY <1>6, <1>7 DEF Known
  <2> QED BY <1>2, <1>7, <2>1 DEF Left, Near
<1>12. \A v \in Routers : d.found[v] => Near(d, v)
  BY <1>2 DEF Sound, SoundBut
<1>8. ASSUME NEW w \in Routers, NEW v \in Neighbours(w), Near(d, w)
      PROVE  d.dist[v] <= d.dist[w] + 1 /\ Near(d, v)
  <2>1. v \in Routers /\ w \in Routers \ {Null}
    BY <1>4, NeighboursKnown, DijkstraAssumption
  <2>2. d.found[w]
    BY <1>7, <1>8
  <2>3. d.dist[v] <= d.dist[w] + 1
    BY <1>2, <2>1, <2>2 DEF Sound, SoundBut
  <2>4. d.dist[w] + 1 <= Cardinality(Found(d))
    BY <1>2, <2>2 DEF Sound, SoundBut
  <2>5. d.dist[v] < Infinity
    BY <1>4, <1>5, <2>1, <2>3, <2>4
  <2> QED BY <2>3, <2>5 DEF Near
<1>9. d.dist[Us] = 0
  BY <1>2 DEF Sound, SoundBut
<1>10. \A v \in Routers : Near(d, v) /\ v # Us => ComesVia(d, v)
  BY <1>2 DEF Sound, SoundBut
<1>11. \A v \in Routers : ~Near(d, v) \/ v = Us => d.prev[v] = prev[v]
  BY <1>2 DEF Sound, SoundBut
<1> QED BY <1>1, <1>3, <1>6, <1>7, <1>8, <1>9, <1>10, <1>11, <1>12 DEF Final

-----------------------------------------------------------------------------
(* The reference: hops over active links *)
Out(T) == T \cup UNION {Neighbours(r) : r \in T}

Spreads(v, w) ==
  w = [n \in 0 .. Cardinality(Routers) |-> IF n = 0 THEN {v} ELSE Out(w[n - 1])]

LEMMA FromDef ==
  ASSUME NEW v
  PROVE  From(v) = CHOOSE w : Spreads(v, w)
BY DEF From, Spreads, Out

LEMMA FromFacts ==
  ASSUME Sane, NEW v \in Routers
  PROVE  /\ From(v)[0] = {v}
         /\ \A n \in 1 .. Cardinality(Routers) : From(v)[n] = Out(From(v)[n - 1])
<1>1. PICK N, F, S : N = Cardinality(Routers) /\ S = SUBSET Routers /\ F = [T \in S |-> Out(T)]
  OBVIOUS
<1>2. N \in Nat
  BY <1>1, RoutersFinite
<1>3. F \in [S -> S]
  <2>1. \A T \in S : Out(T) \in S
    BY <1>1, KnownFinite, NeighboursKnown DEF Out
  <2> QED BY <1>1, <2>1
<1>4. {v} \in S
  BY <1>1
<1>5. PICK f \in [0 .. N -> S] : Goes(f, {v}, F, N)
  BY <1>2, <1>3, <1>4, Iterated
<1>6. ASSUME NEW n \in 0 .. N PROVE f[n] = IF n = 0 THEN {v} ELSE Out(f[n - 1])
  <2>1. CASE n = 0
    BY <1>5, <2>1 DEF Goes
  <2>2. CASE n # 0
    <3>1. n \in 1 .. N /\ n - 1 \in 0 .. N
      BY <1>2, <2>2
    <3>2. f[n] = F[f[n - 1]] /\ f[n - 1] \in S
      BY <1>5, <3>1 DEF Goes
    <3> QED BY <1>1, <2>2, <3>2
  <2> QED BY <2>1, <2>2
<1>7. Spreads(v, f)
  BY <1>1, <1>5, <1>6 DEF Spreads
<1>8. Spreads(v, From(v))
  BY <1>7, FromDef
<1>9. PICK w : w = From(v)
  OBVIOUS
<1>10. w = [n \in 0 .. N |-> IF n = 0 THEN {v} ELSE Out(w[n - 1])]
  BY ONLY <1>1, <1>8, <1>9 DEF Spreads
<1>11. \A n \in 0 .. N : w[n] = IF n = 0 THEN {v} ELSE Out(w[n - 1])
  BY <1>10
<1>12. w[0] = {v}
  BY <1>2, <1>11
<1>13. \A n \in 1 .. N : w[n] = Out(w[n - 1])
  BY <1>2, <1>11
<1> QED BY <1>1, <1>9, <1>12, <1>13

(* compute_rtable's distances are the numbers of hops. *)
LEMMA HopsFacts ==
  ASSUME Sane, NEW d, Final(d)
  PROVE  /\ Reachable = {v \in Routers : Near(d, v)}
         /\ \A v \in Reachable : Hops(v) = d.dist[v]
<1> DEFINE W == Within
<1>1. PICK N : N = Cardinality(Routers)
  OBVIOUS
<1>2. N \in Nat /\ Infinity = N + 1 /\ Len(list) <= N /\ Len(list) \in Nat /\ Us \in Routers
      /\ Known \subseteq Routers
  BY <1>1, RoutersFinite, KnownFinite DEF Routers
<1>3. W[0] = {Us} /\ \A n \in 1 .. N : W[n] = Out(W[n - 1])
  BY <1>1, <1>2, FromFacts DEF Within
<1>4. \A v \in Routers : d.dist[v] \in Nat
  BY DEF Final, Ds
<1>5. \A n \in 0 .. N : \A v \in W[n] : v \in Routers /\ Near(d, v) /\ d.dist[v] <= n
  <2> DEFINE G == {n \in Nat : \A v \in W[n] : v \in Routers /\ Near(d, v) /\ d.dist[v] <= n}
  <2>1. 0 \in G
    BY <1>2, <1>3 DEF Final, Near
  <2>2. ASSUME NEW n \in 1 .. N, n - 1 \in G PROVE n \in G
    <3>1. n \in Nat /\ n - 1 \in Nat /\ \A v \in W[n - 1] : v \in Routers /\ Near(d, v) /\ d.dist[v] <= n - 1
      BY <1>2, <2>2
    <3>2. ASSUME NEW v \in W[n] PROVE v \in Routers /\ Near(d, v) /\ d.dist[v] <= n
      <4>1. CASE v \in W[n - 1]
        BY <1>4, <3>1, <4>1
      <4>2. CASE v \notin W[n - 1]
        <5>1. PICK r \in W[n - 1] : v \in Neighbours(r)
          BY <1>3, <2>2, <3>2, <4>2 DEF Out
        <5>2. r \in Routers /\ Near(d, r) /\ d.dist[r] <= n - 1
          BY <3>1, <5>1
        <5>3. d.dist[v] <= d.dist[r] + 1 /\ Near(d, v)
          BY <5>1, <5>2 DEF Final
        <5>4. v \in Routers
          BY <1>2, <5>1, NeighboursKnown
        <5> QED BY <1>4, <3>1, <5>2, <5>3, <5>4
      <4> QED BY <4>1, <4>2
    <3> QED BY <3>1, <3>2
  <2>3. \A n \in 0 .. N : n \in G
    <3> HIDE DEF G
    <3> QED BY <1>2, <2>1, <2>2, UpTo
  <2> QED BY <2>3
<1>6. \A n \in 0 .. N : \A v \in Routers : Near(d, v) /\ d.dist[v] = n => v \in W[n]
  <2> DEFINE G == {n \in Nat : \A v \in Routers : Near(d, v) /\ d.dist[v] = n => v \in W[n]}
  <2>1. 0 \in G
    <3>1. ASSUME NEW v \in Routers, Near(d, v), d.dist[v] = 0, v # Us PROVE FALSE
      <4>1. ComesVia(d, v)
        BY <3>1 DEF Final
      <4>2. d.dist[v] = d.dist[d.prev[v]] + 1 /\ d.prev[v] \in Routers
        BY <4>1 DEF ComesVia
      <4> QED BY <1>4, <3>1, <4>2
    <3> QED BY <1>3, <3>1
  <2>2. ASSUME NEW n \in 1 .. N, n - 1 \in G PROVE n \in G
    <3>1. ASSUME NEW v \in Routers, Near(d, v), d.dist[v] = n PROVE v \in W[n]
      <4>1. v # Us
        BY <3>1 DEF Final
      <4>2. ComesVia(d, v)
        BY <3>1, <4>1 DEF Final
      <4>3. PICK p : p = d.prev[v]
        OBVIOUS
      <4>4. p \in Routers /\ v \in Neighbours(p) /\ d.dist[v] = d.dist[p] + 1 /\ Near(d, p)
        BY <4>2, <4>3 DEF ComesVia, Final
      <4>5. d.dist[p] = n - 1
        BY <1>4, <3>1, <4>4
      <4>6. p \in W[n - 1]
        BY <2>2, <4>4, <4>5
      <4> QED BY <1>3, <4>4, <4>6 DEF Out
    <3> QED BY <3>1
  <2>3. \A n \in 0 .. N : n \in G
    <3> HIDE DEF G
    <3> QED BY <1>2, <2>1, <2>2, UpTo
  <2> QED BY <2>3
<1>7. \A v \in Routers : Near(d, v) => d.dist[v] \in 0 .. N /\ v \in W[d.dist[v]]
  <2>1. ASSUME NEW v \in Routers, Near(d, v) PROVE d.dist[v] \in 0 .. N
    <3>1. d.dist[v] <= Len(list)
      BY <2>1 DEF Final
    <3> QED BY <1>2, <1>4, <3>1
  <2> QED BY <1>6, <2>1
<1>8. ASSUME NEW v \in Routers, Near(d, v) PROVE v \in W[N]
  <2>1. PICK k : k = d.dist[v]
    OBVIOUS
  <2>2. k \in 0 .. N /\ v \in W[k]
    BY <1>7, <1>8, <2>1
  <2> DEFINE G == {i \in Nat : k + i <= N => v \in W[k + i]}
  <2>3. 0 \in G
    BY <2>2
  <2>4. ASSUME NEW i \in 1 .. N - k, i - 1 \in G PROVE i \in G
    <3>1. i \in Nat /\ k + i \in 1 .. N /\ k + (i - 1) = (k + i) - 1 /\ k + (i - 1) <= N
      BY <1>2, <2>2
    <3>2. v \in W[(k + i) - 1]
      BY <2>4, <3>1
    <3>3. v \in W[k + i]
      BY <1>3, <3>1, <3>2 DEF Out
    <3> QED BY <3>1, <3>3
  <2>5. N - k \in Nat /\ N - k \in 0 .. N - k
    BY <1>2, <2>2
  <2>6. N - k \in G
    <3> HIDE DEF G
    <3> QED BY <2>3, <2>4, <2>5, UpTo
  <2>7. k + (N - k) = N
    BY <1>2, <2>2
  <2> QED BY <1>2, <2>6, <2>7
<1>9. Reachable = W[N]
  BY <1>1 DEF Reachable
<1>10. Reachable = {v \in Routers : Near(d, v)}
  <2>1. N \in 0 .. N
    BY <1>2
  <2> QED BY <1>5, <1>8, <1>9, <2>1
<1>11. ASSUME NEW v \in Reachable PROVE Hops(v) = d.dist[v]
  <2> DEFINE P(n) == v \in W[n] /\ \A m \in 0 .. n - 1 : v \notin W[m]
  <2>1. PICK k : k = d.dist[v]
    OBVIOUS
  <2>2. v \in Routers /\ k \in 0 .. N /\ v \in W[k]
    BY <1>7, <1>10, <1>11, <2>1
  <2>3. P(k)
    <3>1. ASSUME NEW m \in 0 .. k - 1, v \in W[m] PROVE FALSE
      <4>1. m \in 0 .. N /\ ~(k <= m)
        BY <1>2, <2>2
      <4> QED BY <1>5, <2>1, <3>1, <4>1
    <3> QED BY <2>2, <3>1
  <2>4. ASSUME NEW n \in 0 .. N, P(n) PROVE n = k
    <3>1. k <= n
      BY <1>5, <2>1, <2>4
    <3>2. ~(k \in 0 .. n - 1)
      BY <2>2, <2>4
    <3> QED BY <1>2, <2>2, <3>1, <3>2
  <2>5. PICK n : n = CHOOSE x \in 0 .. N : P(x)
    OBVIOUS
  <2>6. n \in 0 .. N /\ P(n)
    BY <2>2, <2>3, <2>5
  <2>7. Hops(v) = n
    BY <1>1, <2>5 DEF Hops
  <2> QED BY <2>1, <2>4, <2>6, <2>7
<1> QED BY <1>10, <1>11

-----------------------------------------------------------------------------
(* add_route_wrappers' walk *)
Walks(d, f) ==
  f = [n \in 0 .. Len(list) + 1 |->
         IF n = 0 THEN [x \in Routers |-> "prev_router has a cycle"] ELSE Onward(d, f[n - 1])]

Ends == [Routers -> Routers \cup BadWalks]

LEMMA WalkDef ==
  ASSUME NEW d, NEW r
  PROVE  Walk(d, r) = (CHOOSE f : Walks(d, f))[Len(list) + 1][r]
BY DEF Walk, Walks

(* One step of the walk. *)
LEMMA OnwardFacts ==
  ASSUME NEW d \in Ds, NEW g \in Ends
  PROVE  /\ Onward(d, g) \in Ends
         /\ \A x \in Routers :
              /\ d.prev[x] = Freed => Onward(d, g)[x] = "prev_router is freed"
              /\ d.prev[x] = Null => Onward(d, g)[x] = "prev_router is NULL"
              /\ d.prev[x] \in Routers => Onward(d, g)[x] = IF d.dist[d.prev[x]] = 0 THEN x ELSE g[d.prev[x]]
<1>1. /\ Freed \notin Routers /\ Null \notin Routers /\ Freed # Null
      /\ "prev_router is freed" \in BadWalks /\ "prev_router is NULL" \in BadWalks
  BY DijkstraAssumption DEF BadWalks
<1>2. \A x \in Routers : d.prev[x] \in Pointers
  BY DEF Ds
<1>3. PICK h : h = Onward(d, g)
  OBVIOUS
<1>4. ASSUME NEW x \in Routers
      PROVE  /\ h[x] \in Routers \cup BadWalks
             /\ d.prev[x] = Freed => h[x] = "prev_router is freed"
             /\ d.prev[x] = Null => h[x] = "prev_router is NULL"
             /\ d.prev[x] \in Routers => h[x] = IF d.dist[d.prev[x]] = 0 THEN x ELSE g[d.prev[x]]
  <2>1. h[x] = CASE d.prev[x] = Freed -> "prev_router is freed"
                 [] d.prev[x] = Null -> "prev_router is NULL"
                 [] d.prev[x] \in Routers -> IF d.dist[d.prev[x]] = 0 THEN x ELSE g[d.prev[x]]
    BY <1>3 DEF Onward
  <2>2. CASE d.prev[x] = Freed
    BY <1>1, <2>1, <2>2
  <2>3. CASE d.prev[x] = Null
    BY <1>1, <2>1, <2>3
  <2>4. CASE d.prev[x] \in Routers
    <3>1. h[x] = IF d.dist[d.prev[x]] = 0 THEN x ELSE g[d.prev[x]]
      BY <1>1, <2>1, <2>4
    <3>2. g[d.prev[x]] \in Routers \cup BadWalks
      BY <2>4 DEF Ends
    <3> QED BY <1>1, <2>4, <3>1, <3>2
  <2>5. d.prev[x] \in Routers \/ d.prev[x] = Null \/ d.prev[x] = Freed
    BY <1>2 DEF Pointers
  <2> QED BY <2>2, <2>3, <2>4, <2>5
<1>5. h \in Ends
  <2> DEFINE E(x) == CASE d.prev[x] = Freed -> "prev_router is freed"
                       [] d.prev[x] = Null -> "prev_router is NULL"
                       [] d.prev[x] \in Routers -> IF d.dist[d.prev[x]] = 0 THEN x ELSE g[d.prev[x]]
  <2>1. h = [x \in Routers |-> E(x)]
    BY <1>3 DEF Onward
  <2> HIDE DEF E
  <2>2. \A x \in Routers : E(x) \in Routers \cup BadWalks
    BY <1>4, <2>1
  <2> QED BY <2>1, <2>2 DEF Ends
<1> QED BY <1>3, <1>4, <1>5

(* f is where the walks of at most n steps end. *)
WalksTo(d, f) ==
  /\ f \in [0 .. Len(list) + 1 -> Ends]
  /\ \A x \in Routers : f[0][x] = "prev_router has a cycle"
  /\ \A n \in 1 .. Len(list) + 1 : f[n] = Onward(d, f[n - 1])
  /\ \A x \in Routers : Walk(d, x) = f[Len(list) + 1][x]

LEMMA WalkFacts ==
  ASSUME Sane, NEW d \in Ds
  PROVE  \E f : WalksTo(d, f)
<1>0. PICK N : N = Len(list) + 1
  OBVIOUS
<1>2. N \in Nat
  BY <1>0, KnownFinite
<1>1. PICK a, F : a = [x \in Routers |-> "prev_router has a cycle"] /\ F = [g \in Ends |-> Onward(d, g)]
  OBVIOUS
<1>3. a \in Ends
  BY <1>1 DEF Ends, BadWalks
<1>4. F \in [Ends -> Ends]
  BY <1>1, OnwardFacts
<1>5. PICK f \in [0 .. N -> Ends] : Goes(f, a, F, N)
  BY <1>2, <1>3, <1>4, Iterated
<1>6. ASSUME NEW n \in 0 .. N PROVE f[n] = IF n = 0 THEN a ELSE Onward(d, f[n - 1])
  <2>1. CASE n = 0
    BY <1>5, <2>1 DEF Goes
  <2>2. CASE n # 0
    <3>1. n \in 1 .. N /\ n - 1 \in 0 .. N
      BY <1>2, <2>2
    <3>2. f[n] = F[f[n - 1]] /\ f[n - 1] \in Ends
      BY <1>5, <3>1 DEF Goes
    <3> QED BY <1>1, <2>2, <3>2
  <2> QED BY <2>1, <2>2
<1>7. Walks(d, f)
  BY <1>0, <1>1, <1>5, <1>6 DEF Walks
<1>8. PICK h : h = CHOOSE g : Walks(d, g)
  OBVIOUS
<1>9. Walks(d, h)
  BY <1>7, <1>8
<1>10. h = [n \in 0 .. N |-> IF n = 0 THEN a ELSE Onward(d, h[n - 1])]
  BY ONLY <1>0, <1>1, <1>9 DEF Walks
<1>11. \A n \in 0 .. N : h[n] = IF n = 0 THEN a ELSE Onward(d, h[n - 1])
  BY <1>10
<1>12. h[0] = a
  BY <1>2, <1>11
<1>13. \A n \in 1 .. N : h[n] = Onward(d, h[n - 1])
  BY <1>2, <1>11
<1>14. \A n \in 0 .. N : h[n] \in Ends
  <2> DEFINE G == {n \in Nat : h[n] \in Ends}
  <2>1. 0 \in G
    BY <1>3, <1>12
  <2>2. ASSUME NEW n \in 1 .. N, n - 1 \in G PROVE n \in G
    <3>1. n \in Nat /\ h[n - 1] \in Ends /\ h[n] = Onward(d, h[n - 1])
      BY <1>13, <2>2
    <3>2. h[n] \in Ends
      BY <3>1, OnwardFacts
    <3> QED BY <3>1, <3>2
  <2>3. \A n \in 0 .. N : n \in G
    <3> HIDE DEF G
    <3> QED BY <1>2, <2>1, <2>2, UpTo
  <2> QED BY <2>3
<1>15. h \in [0 .. N -> Ends]
  BY <1>10, <1>14
<1>16. \A x \in Routers : Walk(d, x) = h[N][x]
  BY <1>0, <1>1, <1>8, WalkDef
<1>17. \A x \in Routers : h[0][x] = "prev_router has a cycle"
  BY <1>1, <1>12
<1> QED BY <1>0, <1>1, <1>13, <1>15, <1>16, <1>17 DEF WalksTo

(* From a router that can be reached the walk ends at one of our neighbours,
   on a shortest path. *)
OnTheWay(d, x, y) == y \in Routers /\ y \in Neighbours(Us) /\ x \in From(y)[d.dist[x] - 1]

LEMMA WalkNear ==
  ASSUME Sane, NEW d, Final(d), NEW x \in Routers, Near(d, x), x # Us
  PROVE  OnTheWay(d, x, Walk(d, x))
<1>1. d \in Ds /\ d.dist[Us] = 0 /\ Us \in Routers
  BY DEF Final, Routers
<1>2. PICK f : WalksTo(d, f)
  BY <1>1, WalkFacts
<1>3. PICK L : L = Len(list)
  OBVIOUS
<1>4. L \in Nat /\ L <= Cardinality(Routers) /\ Cardinality(Routers) \in Nat
  BY <1>3, KnownFinite, RoutersFinite
<1>5. \A v \in Routers : d.dist[v] \in Nat
  BY <1>1 DEF Ds
<1>6. /\ f \in [0 .. L + 1 -> Ends]
      /\ \A n \in 1 .. L + 1 : f[n] = Onward(d, f[n - 1])
      /\ \A v \in Routers : Walk(d, v) = f[L + 1][v]
  BY <1>2, <1>3 DEF WalksTo
<1>7. \A v \in Routers : Near(d, v) /\ v # Us => ComesVia(d, v)
  BY DEF Final
<1>8. \A v \in Routers : Near(d, v) /\ v # Us => d.dist[v] \in Nat /\ d.dist[v] >= 1
  BY <1>5, <1>7 DEF ComesVia
<1>9. \A v \in Routers : Near(d, v) => d.dist[v] <= L
  BY <1>3 DEF Final
<1>10. \A v \in Routers : d.found[v] => Near(d, v)
  BY DEF Final
<1> DEFINE Good(n) == \A v \in Routers : Near(d, v) /\ v # Us /\ d.dist[v] <= n => OnTheWay(d, v, f[n][v])
           G == {n \in Nat : Good(n)}
<1>11. 0 \in G
  <2>1. \A v \in Routers : ~(Near(d, v) /\ v # Us /\ d.dist[v] <= 0)
    BY <1>8
  <2> QED BY <2>1
<1>12. ASSUME NEW n \in 1 .. L + 1, n - 1 \in G PROVE n \in G
  <2>1. n \in Nat /\ n - 1 \in 0 .. L + 1
    BY <1>4
  <2>2. Good(n - 1)
    BY <1>12
  <2>3. ASSUME NEW v \in Routers, Near(d, v), v # Us, d.dist[v] <= n PROVE OnTheWay(d, v, f[n][v])
    <3>1. PICK p : p = d.prev[v]
      OBVIOUS
    <3>2. p \in Routers /\ Near(d, p) /\ v \in Neighbours(p) /\ d.dist[v] = d.dist[p] + 1
      BY <1>7, <1>10, <2>3, <3>1 DEF ComesVia
    <3>3. f[n - 1] \in Ends /\ f[n] = Onward(d, f[n - 1])
      BY <1>6, <2>1
    <3>4. f[n][v] = IF d.dist[p] = 0 THEN v ELSE f[n - 1][p]
      <4>1. PICK g : g = f[n - 1]
        OBVIOUS
      <4>2. g \in Ends /\ d \in Ds /\ d.prev[v] \in Routers
        BY <1>1, <3>1, <3>2, <3>3, <4>1
      <4>3. Onward(d, g)[v] = IF d.dist[d.prev[v]] = 0 THEN v ELSE g[d.prev[v]]
        BY <4>2, OnwardFacts
      <4> QED BY <3>1, <3>3, <4>1, <4>3
    <3>5. CASE p = Us
      <4>1. f[n][v] = v /\ v \in Neighbours(Us) /\ d.dist[v] - 1 = 0
        BY <1>1, <3>2, <3>4, <3>5
      <4>2. From(v)[0] = {v}
        BY FromFacts
      <4>3. v \in From(v)[d.dist[v] - 1]
        BY <4>1, <4>2
      <4> QED BY <4>1, <4>3 DEF OnTheWay
    <3>6. CASE p # Us
      <4>1. PICK e : e = d.dist[p]
        OBVIOUS
      <4>2. e \in Nat /\ e >= 1 /\ e <= L /\ d.dist[v] = e + 1 /\ d.dist[v] <= n
        BY <1>8, <1>9, <2>3, <3>2, <3>6, <4>1
      <4>3. e <= n - 1 /\ e # 0 /\ e \in 1 .. Cardinality(Routers) /\ d.dist[v] - 1 = e
        BY <1>4, <2>1, <4>2
      <4>4. PICK y : y = f[n - 1][p]
        OBVIOUS
      <4>5. OnTheWay(d, p, y) /\ f[n][v] = y
        BY <2>2, <3>2, <3>4, <3>6, <4>1, <4>3, <4>4
      <4>6. From(y)[e] = Out(From(y)[e - 1])
        BY <4>3, <4>5, FromFacts DEF OnTheWay
      <4>7. p \in From(y)[e - 1]
        BY <4>1, <4>5 DEF OnTheWay
      <4>8. v \in From(y)[e]
        BY <3>2, <4>6, <4>7 DEF Out
      <4>9. v \in From(y)[d.dist[v] - 1]
        BY <4>3, <4>8
      <4> QED BY <4>5, <4>9 DEF OnTheWay
    <3> QED BY <3>5, <3>6
  <2> QED BY <2>1, <2>3
<1>13. L + 1 \in G
  <2> HIDE DEF G
  <2>1. L + 1 \in Nat /\ L + 1 \in 0 .. L + 1
    BY <1>4
  <2> QED BY <1>11, <1>12, <2>1, UpTo
<1>14. Good(L + 1) /\ d.dist[x] <= L + 1
  BY <1>4, <1>5, <1>9, <1>13
<1> QED BY <1>6, <1>14

-----------------------------------------------------------------------------
(* The pointers that the runs leave behind form a tree with us at the top,
   but for the ones whose router is gone. *)
Ranked(P, h) == \A v \in Routers : P[v] \in Routers => h[P[v]] < h[v]

Tree(P) ==
  /\ P \in [Routers -> Known \cup {Null, Freed}] /\ P[Us] = Null
  /\ \A v \in Routers : P[v] \in Routers => P[v] = Us \/ P[P[v]] # Null
  /\ \A v \in Routers : P[v] # Null => v \in Known
  /\ \E h \in [Routers -> Nat] : Ranked(P, h)

LEMMA RunTree ==
  ASSUME Sane, Tree(prev)
  PROVE  Tree(Rounds.prev)
<1>1. PICK d : d = Rounds
  OBVIOUS
<1>2. Known \subseteq Routers /\ Us \in Routers /\ Us \in Known
  BY KnownFinite DEF Routers, Sane
<1>3. prev \in [Routers -> Pointers]
  BY <1>2 DEF Tree, Pointers
<1>4. Final(d)
  BY <1>1, <1>3, RoundsFinal
<1>5. d \in Ds /\ d.prev \in [Routers -> Pointers] /\ Infinity \in Nat
  BY <1>4, RoutersFinite DEF Final, Ds
<1>6. \A v \in Routers : d.dist[v] \in Nat /\ d.dist[v] <= Infinity
  BY <1>5 DEF Ds
<1>7. ASSUME NEW v \in Routers, Near(d, v), v # Us
      PROVE  /\ d.prev[v] \in Routers /\ Near(d, d.prev[v]) /\ d.dist[v] = d.dist[d.prev[v]] + 1
             /\ d.prev[v] \in Known /\ v \in Known
  <2>1. ComesVia(d, v) /\ v \in Known
    BY <1>4, <1>7 DEF Final
  <2>2. d.prev[v] \in Routers /\ Near(d, d.prev[v])
    BY <1>4, <2>1 DEF ComesVia, Final
  <2>3. d.prev[v] \in Known
    BY <1>4, <2>2 DEF Final
  <2> QED BY <2>1, <2>2, <2>3 DEF ComesVia
<1>8. \A v \in Routers : ~Near(d, v) \/ v = Us => d.prev[v] = prev[v]
  BY <1>4 DEF Final
<1>9. Near(d, Us) /\ d.prev[Us] = Null
  <2>1. d.dist[Us] = 0 /\ Infinity > 0
    BY <1>4, RoutersFinite DEF Final
  <2>2. d.prev[Us] = Null
    BY <1>2, <1>8 DEF Tree
  <2> QED BY <2>1, <2>2 DEF Near
<1>10. Null \notin Routers /\ Freed \notin Routers
  BY DijkstraAssumption
<1>11. d.prev \in [Routers -> Known \cup {Null, Freed}]
  <2>1. ASSUME NEW v \in Routers PROVE d.prev[v] \in Known \cup {Null, Freed}
    <3>1. CASE Near(d, v) /\ v # Us
      BY <1>7, <3>1
    <3>2. CASE ~Near(d, v) \/ v = Us
      BY <1>8, <3>2 DEF Tree
    <3> QED BY <3>1, <3>2
  <2> QED BY <1>5, <2>1
<1>12. ASSUME NEW v \in Routers, d.prev[v] \in Routers PROVE d.prev[v] = Us \/ d.prev[d.prev[v]] # Null
  <2>1. PICK p : p = d.prev[v]
    OBVIOUS
  <2>2. CASE Near(d, p) /\ p # Us
    BY <1>7, <1>10, <1>12, <2>1, <2>2
  <2>3. CASE p = Us
    BY <2>1, <2>3
  <2>4. CASE ~Near(d, p)
    <3>1. ~Near(d, v) \/ v = Us
      BY <1>7, <2>1, <2>4
    <3>2. d.prev[v] = prev[v] /\ d.prev[p] = prev[p]
      BY <1>8, <1>12, <2>1, <2>4, <3>1
    <3>3. prev[v] \in Routers => prev[v] = Us \/ prev[prev[v]] # Null
      BY DEF Tree
    <3> QED BY <1>12, <2>1, <3>2, <3>3
  <2> QED BY <2>2, <2>3, <2>4
<1>13. ASSUME NEW v \in Routers, d.prev[v] # Null PROVE v \in Known
  <2>1. CASE Near(d, v) /\ v # Us
    BY <1>7, <2>1
  <2>2. CASE ~Near(d, v) \/ v = Us
    BY <1>8, <1>13, <2>2 DEF Tree
  <2> QED BY <2>1, <2>2
<1>14. \E h \in [Routers -> Nat] : Ranked(d.prev, h)
  <2>1. PICK g \in [Routers -> Nat] : Ranked(prev, g)
    BY DEF Tree
  <2>2. PICK h : h = [v \in Routers |-> IF Near(d, v) THEN d.dist[v] ELSE Infinity + g[v]]
    OBVIOUS
  <2>3. \A v \in Routers : (Near(d, v) => h[v] = d.dist[v]) /\ (~Near(d, v) => h[v] = Infinity + g[v])
    BY <2>2
  <2>4. \A v \in Routers : (IF Near(d, v) THEN d.dist[v] ELSE Infinity + g[v]) \in Nat
    BY <1>5, <1>6, <2>1
  <2>5. h \in [Routers -> Nat]
    BY <2>2, <2>4
  <2>6. ASSUME NEW v \in Routers, d.prev[v] \in Routers PROVE h[d.prev[v]] < h[v]
    <3>1. PICK p : p = d.prev[v]
      OBVIOUS
    <3>2. CASE Near(d, v)
      <4>1. v # Us
        BY <1>9, <1>10, <2>6
      <4>2. Near(d, p) /\ d.dist[v] = d.dist[p] + 1 /\ p \in Routers
        BY <1>7, <3>1, <3>2, <4>1
      <4>3. h[p] = d.dist[p] /\ h[v] = d.dist[v]
        BY <2>3, <3>2, <4>2
      <4> QED BY <1>6, <3>1, <4>2, <4>3
    <3>3. CASE ~Near(d, v)
      <4>1. p = prev[v] /\ p \in Routers /\ h[v] = Infinity + g[v] /\ g[v] \in Nat /\ g[p] \in Nat
        BY <1>8, <2>1, <2>3, <2>6, <3>1, <3>3
      <4>2. g[p] < g[v]
        BY <2>1, <4>1 DEF Ranked
      <4>3. CASE Near(d, p)
        <5>1. h[p] = d.dist[p] /\ d.dist[p] < Infinity /\ d.dist[p] \in Nat
          BY <1>6, <2>3, <4>1, <4>3 DEF Near
        <5> QED BY <1>5, <3>1, <4>1, <4>2, <5>1
      <4>4. CASE ~Near(d, p)
        <5>1. h[p] = Infinity + g[p]
          BY <2>3, <4>1, <4>4
        <5> QED BY <1>5, <3>1, <4>1, <4>2, <5>1
      <4> QED BY <4>3, <4>4
    <3> QED BY <3>2, <3>3
  <2> QED BY <2>5, <2>6 DEF Ranked
<1> QED BY <1>1, <1>9, <1>11, <1>12, <1>13, <1>14 DEF Tree

(* A walk along the pointers ends, and not at NULL: every step of it goes
   down in the list, which has fewer routers than the walk has steps. *)
LEMMA WalkTree ==
  ASSUME Sane, NEW d, Final(d), Tree(d.prev), NEW x \in Routers, d.prev[x] # Null
  PROVE  Walk(d, x) # "prev_router has a cycle" /\ Walk(d, x) # "prev_router is NULL"
<1>1. d \in Ds /\ d.dist[Us] = 0 /\ Us \in Routers
  BY DEF Final, Routers
<1>2. PICK f : WalksTo(d, f)
  BY <1>1, WalkFacts
<1>3. PICK L : L = Len(list)
  OBVIOUS
<1>4. L \in Nat /\ Cardinality(Known) = L /\ IsFiniteSet(Known) /\ Known \subseteq Routers
  BY <1>3, KnownFinite
<1>5. PICK h \in [Routers -> Nat] : Ranked(d.prev, h)
  BY DEF Tree
<1>6. /\ f \in [0 .. L + 1 -> Ends]
      /\ \A n \in 1 .. L + 1 : f[n] = Onward(d, f[n - 1])
      /\ \A v \in Routers : f[0][v] = "prev_router has a cycle"
      /\ \A v \in Routers : Walk(d, v) = f[L + 1][v]
  BY <1>2, <1>3 DEF WalksTo
<1> DEFINE Below(v) == {u \in Known : h[u] < h[v]}
           Fine(n, v) == /\ f[n][v] # "prev_router is NULL"
                         /\ f[n][v] = "prev_router has a cycle" => Cardinality(Below(v)) >= n
           G == {n \in Nat : \A v \in Routers : d.prev[v] # Null => Fine(n, v)}
<1>7. \A v : IsFiniteSet(Below(v)) /\ Cardinality(Below(v)) \in Nat /\ Cardinality(Below(v)) <= L
  <2>1. \A v : Below(v) \in SUBSET Known
    OBVIOUS
  <2> QED BY <1>4, <2>1, FS_Subset, FS_CardinalityType
<1>8. 0 \in G
  <2>1. ASSUME NEW v \in Routers PROVE Fine(0, v)
    <3>1. f[0][v] = "prev_router has a cycle"
      BY <1>6
    <3>2. PICK c : c = Cardinality(Below(v))
      OBVIOUS
    <3>3. c \in Nat
      BY <1>7, <3>2
    <3>4. c >= 0
      BY ONLY <3>3
    <3> HIDE DEF Below
    <3> QED BY <3>1, <3>2, <3>4
  <2> HIDE DEF Fine
  <2> QED BY <2>1
<1>9. ASSUME NEW n \in 1 .. L + 1, n - 1 \in G PROVE n \in G
  <2>1. n \in Nat /\ n - 1 \in 0 .. L + 1
    BY <1>4
  <2>2. ASSUME NEW v \in Routers, d.prev[v] # Null PROVE Fine(n, v)
    <3>1. PICK g : g = f[n - 1]
      OBVIOUS
    <3>2. g \in Ends /\ f[n] = Onward(d, g)
      BY <1>6, <2>1, <3>1
    <3>3. /\ d.prev[v] = Freed => f[n][v] = "prev_router is freed"
          /\ d.prev[v] \in Routers => f[n][v] = IF d.dist[d.prev[v]] = 0 THEN v ELSE g[d.prev[v]]
      <4>1. d \in Ds /\ g \in Ends
        BY <1>1, <3>2
      <4>2. /\ d.prev[v] = Freed => Onward(d, g)[v] = "prev_router is freed"
            /\ d.prev[v] \in Routers => Onward(d, g)[v] = IF d.dist[d.prev[v]] = 0 THEN v ELSE g[d.prev[v]]
        BY <4>1, OnwardFacts
      <4> QED BY <3>2, <4>2
    <3>4. CASE d.prev[v] = Freed
      BY <3>3, <3>4
    <3>5. CASE d.prev[v] \in Routers
      <4>1. PICK p : p = d.prev[v]
        OBVIOUS
      <4>2. CASE d.dist[p] = 0
        <5>1. f[n][v] = v /\ v \in Routers
          BY <3>3, <3>5, <4>1, <4>2
        <5>2. "prev_router is NULL" \notin Routers /\ "prev_router has a cycle" \notin Routers
          BY DijkstraAssumption DEF BadWalks
        <5> QED BY <5>1, <5>2
      <4>3. CASE d.dist[p] # 0
        <5>1. p # Us /\ p \in Routers
          BY <1>1, <3>5, <4>1, <4>3
        <5>2. d.prev[p] # Null /\ h[p] < h[v] /\ p \in Known
          <6>1. d.prev[p] # Null
            BY <3>5, <4>1, <5>1 DEF Tree
          <6>2. h[p] < h[v]
            BY <1>5, <3>5, <4>1 DEF Ranked
          <6>3. p \in Known
            BY <5>1, <6>1 DEF Tree
          <6> QED BY <6>1, <6>2, <6>3
        <5>3. f[n][v] = f[n - 1][p]
          BY <3>1, <3>3, <3>5, <4>1, <4>3
        <5>4. Fine(n - 1, p)
          BY <1>9, <5>1, <5>2
        <5>5. Cardinality(Below(v)) >= Cardinality(Below(p)) + 1
          <6>1. \A u \in Known : h[u] \in Nat
            BY <1>4, <1>5
          <6>2. h[v] \in Nat /\ h[p] \in Nat
            BY <1>5, <5>1
          <6>3. Below(p) \cup {p} \subseteq Below(v) /\ p \notin Below(p)
            BY <5>2, <6>1, <6>2
          <6>4. Cardinality(Below(p) \cup {p}) = Cardinality(Below(p)) + 1
            BY <1>7, <6>3, FS_AddElement
          <6>5. Cardinality(Below(p) \cup {p}) <= Cardinality(Below(v))
            BY <1>7, <6>3, FS_Subset
          <6>6. Cardinality(Below(p)) \in Nat /\ Cardinality(Below(v)) \in Nat
            BY <1>7
          <6> HIDE DEF Below
          <6> QED BY <6>4, <6>5, <6>6
        <5>6. Cardinality(Below(p)) \in Nat /\ Cardinality(Below(v)) \in Nat
          BY <1>7
        <5>7. PICK a, b : a = Cardinality(Below(p)) /\ b = Cardinality(Below(v))
          OBVIOUS
        <5>8. ASSUME a >= n - 1 PROVE b >= n
          <6>1. a \in Nat /\ b \in Nat /\ b >= a + 1
            BY <5>5, <5>6, <5>7
          <6> QED BY ONLY <2>1, <5>8, <6>1
        <5> HIDE DEF Below
        <5> QED BY <5>3, <5>4, <5>7, <5>8
      <4> QED BY <4>2, <4>3
    <3>6. d.prev[v] \in Routers \/ d.prev[v] = Null \/ d.prev[v] = Freed
      BY <1>1 DEF Ds, Pointers
    <3> QED BY <2>2, <3>4, <3>5, <3>6
  <2> QED BY <2>1, <2>2
<1>10. L + 1 \in G
  <2> HIDE DEF G
  <2>1. L + 1 \in Nat /\ L + 1 \in 0 .. L + 1
    BY <1>4
  <2> QED BY <1>8, <1>9, <2>1, UpTo
<1>11. Fine(L + 1, x)
  BY <1>10
<1>12. Cardinality(Below(x)) \in Nat /\ Cardinality(Below(x)) <= L
  BY <1>7
<1>13. PICK c : c = Cardinality(Below(x))
  OBVIOUS
<1>14. ~(c >= L + 1)
  <2>1. c \in Nat /\ c <= L
    BY <1>12, <1>13
  <2> QED BY ONLY <1>4, <2>1
<1> HIDE DEF Below
<1> QED BY <1>6, <1>11, <1>13, <1>14

(* What add_route_wrappers may run into after a run. *)
LEMMA FaultFacts ==
  ASSUME Sane, Tree(prev), NEW e \in Faults(Rounds)
  PROVE  e = "prev_router is freed" /\ Known \ Reachable # {}
<1>1. PICK d : d = Rounds
  OBVIOUS
<1>2. Known \subseteq Routers
  BY KnownFinite
<1>3. prev \in [Routers -> Pointers]
  BY <1>2 DEF Tree, Pointers
<1>4. Final(d) /\ Tree(d.prev)
  BY <1>1, <1>3, RoundsFinal, RunTree
<1>5. PICK s \in AllSubnets : \E k \in Owners(s) : e = NextRid(d, list[k], s)
  BY <1>1 DEF Faults
<1>6. PICK k \in Owners(s) : e = NextRid(d, list[k], s)
  BY <1>5
<1>7. PICK x : x = list[k]
  OBVIOUS
<1>8. x \in Known /\ x \in Routers /\ s \in Subnets[x]
  BY <1>2, <1>6, <1>7 DEF Owners, Known
<1>9. e \in BadWalks /\ BadWalks \cap (Routers \cup {Null}) = {}
  <2>1. e \in BadWalks
    BY DEF Faults
  <2>2. BadWalks \cap (Routers \cup {Null}) = {}
    BY DijkstraAssumption
  <2> QED BY <2>1, <2>2
<1>10. adv[x][s] \in Routers \cup {Null}
  BY <1>8 DEF Sane, Peers
<1>11. d.prev[x] # Null /\ e = Walk(d, x)
  BY <1>6, <1>7, <1>9, <1>10 DEF NextRid
<1>12. e = "prev_router is freed"
  <2>1. Walk(d, x) # "prev_router has a cycle" /\ Walk(d, x) # "prev_router is NULL"
    BY <1>4, <1>8, <1>11, WalkTree
  <2> QED BY <1>9, <1>11, <2>1 DEF BadWalks
<1>13. x \notin Reachable
  <2>1. x # Us
    BY <1>4, <1>11 DEF Tree
  <2>2. ASSUME Near(d, x) PROVE FALSE
    <3>1. Walk(d, x) \in Routers
      BY <1>4, <1>8, <2>1, <2>2, WalkNear DEF OnTheWay
    <3> QED BY <1>9, <1>11, <3>1
  <2>3. Reachable = {v \in Routers : Near(d, v)}
    BY <1>4, HopsFacts
  <2> QED BY <2>2, <2>3
<1> QED BY <1>8, <1>12, <1>13

-----------------------------------------------------------------------------
(* The inductive invariant *)
Shaped == adv = [r \in Routers |-> [s \in Subnets[r] |-> adv[r][s]]]

PathsInv ==
  /\ Sane /\ Shaped /\ Tree(prev)
  /\ fault \in {"none", "prev_router is freed"}
  /\ fault # "none" => Known \ Reachable # {}

LEMMA PathsStart ==
  ASSUME PathsInit
  PROVE  PathsInv
<1>1. Us \in Routers /\ Null \notin Routers
  BY DijkstraAssumption DEF Routers
<1>2. list \in Seq(Routers) /\ Len(list) = 1 /\ list[1] = Us
  BY <1>1 DEF PathsInit
<1>3. 1 .. Len(list) = {1}
  BY <1>2
<1>4. Known = {Us}
  BY <1>2, <1>3 DEF Known
<1>5. \A r \in Routers : \A s \in Subnets[r] : adv[r][s] = Null
  BY DEF PathsInit
<1>6. Sane
  BY <1>2, <1>3, <1>4, <1>5 DEF Sane
<1>7. Shaped
  <2>1. adv = [r \in Routers |-> [s \in Subnets[r] |-> Null]]
    BY DEF PathsInit
  <2> QED BY <2>1 DEF Shaped
<1>8. prev \in [Routers -> {Null}] /\ \A v \in Routers : prev[v] = Null
  BY DEF PathsInit
<1>9. \E h \in [Routers -> Nat] : Ranked(prev, h)
  <2>1. [v \in Routers |-> 0] \in [Routers -> Nat] /\ Ranked(prev, [v \in Routers |-> 0])
    BY <1>1, <1>8 DEF Ranked
  <2> QED BY <2>1
<1>10. Tree(prev)
  <2>1. prev \in [Routers -> Known \cup {Null, Freed}]
    BY <1>8
  <2> QED BY <1>1, <1>8, <1>9, <2>1 DEF Tree
<1> QED BY <1>6, <1>7, <1>10 DEF PathsInv, PathsInit

LEMMA PathsRun ==
  ASSUME PathsInv, Run
  PROVE  PathsInv'
<1>1. list' = list /\ adv' = adv /\ prev' = Rounds.prev
  BY DEF Run
<1>2. Known' = Known
  BY <1>1 DEF Known
<1>3. Sane' /\ Shaped'
  BY <1>1, <1>2 DEF PathsInv, Sane, Shaped
<1>4. Tree(Rounds.prev)
  BY RunTree DEF PathsInv
<1>5. Tree(prev)'
  BY <1>1, <1>2, <1>4 DEF Tree
<1>6. \A w : Neighbours(w)' = Neighbours(w)
  BY <1>1, <1>2 DEF Neighbours, IsActive
<1>7. Reachable' = Reachable
  BY <1>1 DEF Reachable, Within, From, Neighbours, IsActive, Known
<1>8. fault' = "none" \/ fault' \in Faults(Rounds)
  BY DEF Run
<1>9. ASSUME fault' # "none" PROVE fault' = "prev_router is freed" /\ Known \ Reachable # {}
  BY <1>8, <1>9, FaultFacts DEF PathsInv
<1> QED BY <1>2, <1>3, <1>5, <1>7, <1>9 DEF PathsInv

LEMMA PathsHear ==
  ASSUME PathsInv, fault = "none", NEW r \in Routers, NEW s \in Subnets[r],
         NEW v \in Peers(r, s) \cup {Null}, Hear(r, s, v)
  PROVE  PathsInv'
<1>1. /\ list' = IF r \in Known THEN list ELSE Append(list, r)
      /\ adv' = [adv EXCEPT ![r][s] = v]
      /\ prev' = prev /\ fault' = fault
  BY DEF Hear
<1>2. Sane /\ Shaped /\ Tree(prev)
  BY DEF PathsInv
<1>3. adv' = [q \in Routers |-> [t \in Subnets[q] |-> IF q = r /\ t = s THEN v ELSE adv[q][t]]]
  <2>1. adv = [q \in Routers |-> [t \in Subnets[q] |-> adv[q][t]]]
    BY <1>2 DEF Shaped
  <2>2. adv' = [q \in Routers |-> IF q = r THEN [adv[r] EXCEPT ![s] = v] ELSE adv[q]]
    BY <1>1, <2>1
  <2>3. [adv[r] EXCEPT ![s] = v] = [t \in Subnets[r] |-> IF t = s THEN v ELSE adv[r][t]]
    BY <2>1
  <2>4. \A q \in Routers : adv[q] = [t \in Subnets[q] |-> adv[q][t]]
    BY <2>1
  <2>5. ASSUME NEW q \in Routers
        PROVE  (IF q = r THEN [adv[r] EXCEPT ![s] = v] ELSE adv[q])
                 = [t \in Subnets[q] |-> IF q = r /\ t = s THEN v ELSE adv[q][t]]
    BY <2>3, <2>4
  <2> QED BY <2>2, <2>5
<1>4. \A q \in Routers : \A t \in Subnets[q] : adv'[q][t] = IF q = r /\ t = s THEN v ELSE adv[q][t]
  BY <1>3
<1>5. Shaped'
  <2>1. \A q \in Routers : adv'[q] = [t \in Subnets[q] |-> adv'[q][t]]
    BY <1>3
  <2>2. adv' = [q \in Routers |-> adv'[q]]
    BY <1>3
  <2> QED BY <2>1, <2>2 DEF Shaped
<1>6. list \in Seq(Routers) /\ Len(list) \in Nat /\ \A k \in 1 .. Len(list) : list[k] \in Known
  BY <1>2 DEF Sane, Known
<1>7. /\ list' \in Seq(Routers) /\ Known' = Known \cup {r}
      /\ \A j, k \in 1 .. Len(list') : list'[j] = list'[k] => j = k
  <2>1. CASE r \in Known
    <3>1. list' = list
      BY <1>1, <2>1
    <3> QED BY <1>2, <2>1, <3>1 DEF Sane, Known
  <2>2. CASE r \notin Known
    <3>1. list' = Append(list, r)
      BY <1>1, <2>2
    <3>2. /\ list' \in Seq(Routers) /\ Len(list') = Len(list) + 1 /\ list'[Len(list) + 1] = r
          /\ \A k \in 1 .. Len(list) : list'[k] = list[k]
      BY <1>6, <3>1
    <3>3. \A k \in 1 .. Len(list') : k \in 1 .. Len(list) \/ k = Len(list) + 1
      BY <1>6, <3>2
    <3>4. Known' = Known \cup {r}
      <4>1. Known' \subseteq Known \cup {r}
        BY <3>2, <3>3 DEF Known
      <4>2. r \in Known'
        BY <1>6, <3>2 DEF Known
      <4>3. \A k \in 1 .. Len(list) : k \in 1 .. Len(list')
        BY <1>6, <3>2
      <4>4. Known \subseteq Known'
        BY <3>2, <4>3 DEF Known
      <4> QED BY <4>1, <4>2, <4>4
    <3>5. ASSUME NEW j \in 1 .. Len(list'), NEW k \in 1 .. Len(list'), list'[j] = list'[k] PROVE j = k
      <4>1. CASE j \in 1 .. Len(list) /\ k \in 1 .. Len(list)
        BY <1>2, <3>2, <3>5, <4>1 DEF Sane
      <4>2. CASE ~(j \in 1 .. Len(list) /\ k \in 1 .. Len(list))
        BY <1>6, <2>2, <3>2, <3>3, <3>5, <4>2
      <4> QED BY <4>1, <4>2
    <3> QED BY <3>2, <3>4, <3>5
  <2> QED BY <2>1, <2>2
<1>8. Sane'
  <2>1. ASSUME NEW q \in Routers, NEW t \in Subnets[q] PROVE adv'[q][t] \in Peers(q, t) \cup {Null}
    <3>1. adv[q][t] \in Peers(q, t) \cup {Null}
      BY <1>2 DEF Sane
    <3> QED BY <1>4, <3>1
  <2>2. Us \in Known'
    BY <1>2, <1>7 DEF Sane
  <2> QED BY <1>7, <2>1, <2>2 DEF Sane
<1>9. Tree(prev)'
  BY <1>1, <1>2, <1>7 DEF Tree
<1> QED BY <1>1, <1>5, <1>8, <1>9 DEF PathsInv

(* The list without its k-th router. *)
LEMMA RemoveFacts ==
  ASSUME NEW S, NEW q \in Seq(S), NEW k \in 1 .. Len(q)
  PROVE  /\ RemoveAt(q, k) \in Seq(S) /\ Len(RemoveAt(q, k)) = Len(q) - 1
         /\ \A j \in 1 .. Len(q) - 1 : RemoveAt(q, k)[j] = IF j < k THEN q[j] ELSE q[j + 1]
<1>1. PICK n : n = Len(q)
  OBVIOUS
<1>2. n \in Nat /\ k \in 1 .. n /\ q \in [1 .. n -> S]
  BY <1>1
<1>3. PICK a, b : a = SubSeq(q, 1, k - 1) /\ b = SubSeq(q, k + 1, n)
  OBVIOUS
<1>4. a \in Seq(S) /\ Len(a) = k - 1 /\ \A j \in 1 .. k - 1 : a[j] = q[j]
  BY <1>1, <1>2, <1>3
<1>5. b \in Seq(S) /\ Len(b) = n - k /\ \A j \in 1 .. n - k : b[j] = q[k + j]
  <2>1. k + 1 \in 1 .. n + 1 /\ n - (k + 1) + 1 = n - k
    BY <1>2
  <2> QED BY <1>1, <1>2, <1>3, <2>1
<1>6. RemoveAt(q, k) = a \o b
  BY <1>1, <1>3 DEF RemoveAt
<1>7. PICK c : c = a \o b
  OBVIOUS
<1>8. /\ c \in Seq(S) /\ Len(c) = n - 1
      /\ \A j \in 1 .. n - 1 : c[j] = IF j <= k - 1 THEN a[j] ELSE b[j - (k - 1)]
  <2>1. a \in Seq(S) /\ b \in Seq(S)
    BY <1>4, <1>5
  <2>2. /\ c \in Seq(S) /\ Len(c) = Len(a) + Len(b)
        /\ \A j \in 1 .. Len(a) + Len(b) : c[j] = IF j <= Len(a) THEN a[j] ELSE b[j - Len(a)]
    BY ONLY <1>7, <2>1, ConcatProperties
  <2>3. Len(a) = k - 1 /\ Len(a) + Len(b) = n - 1
    BY <1>2, <1>4, <1>5
  <2> QED BY ONLY <2>2, <2>3
<1>9. ASSUME NEW j \in 1 .. n - 1 PROVE c[j] = IF j < k THEN q[j] ELSE q[j + 1]
  <2>1. CASE j < k
    <3>1. j \in 1 .. k - 1 /\ j <= k - 1
      BY <1>2, <2>1
    <3> QED BY <1>4, <1>8, <2>1, <3>1
  <2>2. CASE ~(j < k)
    <3>1. j - (k - 1) \in 1 .. n - k /\ ~(j <= k - 1) /\ k + (j - (k - 1)) = j + 1
      BY <1>2, <2>2
    <3> QED BY <1>5, <1>8, <2>2, <3>1
  <2> QED BY <2>1, <2>2
<1> QED BY <1>1, <1>6, <1>7, <1>8, <1>9

LEMMA PathsTimeOut ==
  ASSUME PathsInv, fault = "none", NEW r \in Others, TimeOut(r)
  PROVE  PathsInv'
<1>1. /\ r \in Known \ {Us}
      /\ adv' = [adv EXCEPT ![r] = [s \in Subnets[r] |-> Null]]
      /\ prev' = [x \in Routers |-> IF x = r THEN Null ELSE IF prev[x] = r THEN Freed ELSE prev[x]]
      /\ fault' = fault
  BY DEF TimeOut
<1>2. PICK k \in 1 .. Len(list) : list[k] = r /\ list' = RemoveAt(list, k)
  BY DEF TimeOut
<1>3. Sane /\ Shaped /\ Tree(prev) /\ r \in Routers /\ Us \in Routers
  BY DEF PathsInv, Routers
<1>4. /\ list \in Seq(Routers) /\ Len(list) \in Nat
      /\ \A i, j \in 1 .. Len(list) : list[i] = list[j] => i = j
  BY <1>3 DEF Sane
<1>5. /\ list' \in Seq(Routers) /\ Len(list') = Len(list) - 1
      /\ \A j \in 1 .. Len(list) - 1 : list'[j] = IF j < k THEN list[j] ELSE list[j + 1]
  BY <1>2, <1>4, RemoveFacts
<1> DEFINE at(j) == IF j < k THEN j ELSE j + 1
<1>6. \A j \in 1 .. Len(list') : at(j) \in 1 .. Len(list) /\ at(j) # k /\ list'[j] = list[at(j)]
  BY <1>4, <1>5
<1>7. \A i, j \in 1 .. Len(list') : at(i) = at(j) => i = j
  BY <1>4, <1>5
<1>8. Known' = Known \ {r}
  <2>1. ASSUME NEW x \in Known' PROVE x \in Known \ {r}
    <3>1. PICK j \in 1 .. Len(list') : x = list'[j]
      BY DEF Known
    <3>2. x = list[at(j)] /\ at(j) \in 1 .. Len(list) /\ at(j) # k
      BY <1>6, <3>1
    <3>3. x # r
      BY <1>2, <1>4, <3>2
    <3> QED BY <3>2, <3>3 DEF Known
  <2>2. ASSUME NEW x \in Known \ {r} PROVE x \in Known'
    <3>1. PICK i \in 1 .. Len(list) : x = list[i]
      BY DEF Known
    <3>2. i # k
      BY <1>2, <2>2, <3>1
    <3>3. \E j \in 1 .. Len(list') : at(j) = i
      <4>1. CASE i < k
        <5>1. i \in 1 .. Len(list') /\ at(i) = i
          BY <1>4, <1>5, <4>1
        <5> QED BY <5>1
      <4>2. CASE ~(i < k)
        <5>1. i - 1 \in 1 .. Len(list') /\ at(i - 1) = i
          BY <1>4, <1>5, <3>2, <4>2
        <5> QED BY <5>1
      <4> QED BY <4>1, <4>2
    <3>4. PICK j \in 1 .. Len(list') : at(j) = i
      BY <3>3
    <3>5. x = list'[j]
      BY <1>6, <3>1, <3>4
    <3> QED BY <3>5 DEF Known
  <2> QED BY <2>1, <2>2
<1>9. ASSUME NEW i \in 1 .. Len(list'), NEW j \in 1 .. Len(list'), list'[i] = list'[j] PROVE i = j
  <2>1. at(i) = at(j)
    BY <1>4, <1>6, <1>9
  <2> QED BY <1>7, <2>1
<1>10. adv = [q \in Routers |-> [t \in Subnets[q] |-> adv[q][t]]]
  BY <1>3 DEF Shaped
<1>11. adv' = [q \in Routers |-> IF q = r THEN [s \in Subnets[r] |-> Null] ELSE adv[q]]
  BY <1>1, <1>10
<1>12. \A q \in Routers : adv[q] = [t \in Subnets[q] |-> adv[q][t]]
  BY <1>10
<1>13. \A q \in Routers : adv'[q] = [t \in Subnets[q] |-> adv'[q][t]]
  <2>1. ASSUME NEW q \in Routers PROVE adv'[q] = [t \in Subnets[q] |-> adv'[q][t]]
    <3>1. CASE q = r
      <4>1. adv'[q] = [t \in Subnets[q] |-> Null]
        BY <1>11, <3>1
      <4> QED BY <4>1
    <3>2. CASE q # r
      <4>1. adv'[q] = adv[q]
        BY <1>11, <3>2
      <4> QED BY <1>12, <4>1
    <3> QED BY <3>1, <3>2
  <2> QED BY <2>1
<1>14. Shaped'
  <2>1. adv' = [q \in Routers |-> adv'[q]]
    BY <1>11
  <2> QED BY <1>13, <2>1 DEF Shaped
<1>15. \A q \in Routers : \A t \in Subnets[q] : adv'[q][t] = Null \/ adv'[q][t] = adv[q][t]
  BY <1>11
<1>16. Sane'
  <2>1. \A q \in Routers : \A t \in Subnets[q] : adv'[q][t] \in Peers(q, t) \cup {Null}
    BY <1>3, <1>15 DEF Sane
  <2>2. Us \in Known'
    BY <1>1, <1>3, <1>8 DEF Sane
  <2> QED BY <1>5, <1>9, <2>1, <2>2 DEF Sane
<1>17. Null \notin Routers /\ Freed \notin Routers /\ Freed # Null
  BY DijkstraAssumption
<1>18. Tree(prev)'
  <2>1. \A x \in Routers : prev[x] \in Known \cup {Null, Freed}
    BY <1>3 DEF Tree
  <2>2. \A x \in Routers : prev'[x] = IF x = r THEN Null ELSE IF prev[x] = r THEN Freed ELSE prev[x]
    BY <1>1
  <2>3. \A x \in Routers : prev'[x] \in Known' \cup {Null, Freed}
    BY <1>8, <2>1, <2>2
  <2>4. prev' \in [Routers -> Known' \cup {Null, Freed}]
    <3>1. prev' = [x \in Routers |-> prev'[x]]
      BY <1>1
    <3> QED BY <2>3, <3>1
  <2>5. prev'[Us] = Null
    BY <1>1, <1>3, <1>17, <2>2 DEF Tree
  <2>6. \A x \in Routers : prev'[x] \in Routers => prev'[x] = prev[x] /\ x # r /\ prev[x] # r
    BY <1>17, <2>2
  <2>7. ASSUME NEW x \in Routers, prev'[x] \in Routers PROVE prev'[x] = Us \/ prev'[prev'[x]] # Null
    <3>1. PICK p : p = prev[x]
      OBVIOUS
    <3>2. prev'[x] = p /\ p \in Routers /\ p # r
      BY <2>6, <2>7, <3>1
    <3>3. p = Us \/ prev[p] # Null
      BY <1>3, <3>1, <3>2 DEF Tree
    <3> QED BY <1>17, <2>2, <3>2, <3>3
  <2>8. \A x \in Routers : prev'[x] # Null => x \in Known'
    <3>1. \A x \in Routers : prev[x] # Null => x \in Known
      BY <1>3 DEF Tree
    <3>2. r # Null
      BY <1>3, <1>17
    <3> QED BY <1>8, <2>2, <3>1, <3>2
  <2>9. \E h \in [Routers -> Nat] : Ranked(prev', h)
    <3>1. PICK h \in [Routers -> Nat] : Ranked(prev, h)
      BY <1>3 DEF Tree
    <3>2. Ranked(prev', h)
      BY <2>6, <3>1 DEF Ranked
    <3> QED BY <3>2
  <2> QED BY <2>4, <2>5, <2>7, <2>8, <2>9 DEF Tree
<1> QED BY <1>1, <1>14, <1>16, <1>18 DEF PathsInv

(* The list never names a router twice and always names ours; what the runs
   of compute_rtable leave in prev_router is a tree of the listed routers
   with ours at the top, in which only the routers that were freed since are
   missing; and add_route_wrappers follows a freed pointer only in a
   partition.  It holds in every state. *)
THEOREM PathsInvariant == PathsSpec => []PathsInv
<1>1. PathsInit => PathsInv
  BY PathsStart
<1>2. PathsInv /\ [PathsNext]_PathsVars => PathsInv'
  <2> SUFFICES ASSUME PathsInv, [PathsNext]_PathsVars PROVE PathsInv'
    OBVIOUS
  <2>1. CASE UNCHANGED PathsVars
    <3>1. list' = list /\ adv' = adv /\ prev' = prev /\ fault' = fault
      BY <2>1 DEF PathsVars
    <3>2. Known' = Known
      BY <3>1 DEF Known
    <3>3. Reachable' = Reachable
      BY <3>1 DEF Reachable, Within, From, Neighbours, IsActive, Known
    <3> QED BY <3>1, <3>2, <3>3 DEF PathsInv, Sane, Shaped, Tree
  <2>2. CASE Run
    BY <2>2, PathsRun
  <2>3. ASSUME NEW r \in Routers, NEW s \in Subnets[r], NEW v \in Peers(r, s) \cup {Null}, Hear(r, s, v),
               fault = "none"
        PROVE  PathsInv'
    BY <2>3, PathsHear
  <2>4. ASSUME NEW r \in Others, TimeOut(r), fault = "none" PROVE PathsInv'
    BY <2>4, PathsTimeOut
  <2> QED BY <2>1, <2>2, <2>3, <2>4 DEF PathsNext
<1> QED BY <1>1, <1>2, PTL DEF PathsSpec

(* The list, the advertisements and the pointers keep their types. *)
THEOREM PathsTypes == PathsSpec => []PathsTypeOK
<1>1. PathsInv => PathsTypeOK
  <2> SUFFICES ASSUME PathsInv PROVE PathsTypeOK
    OBVIOUS
  <2>1. Sane /\ Known \subseteq Routers /\ Tree(prev)
    BY KnownFinite DEF PathsInv
  <2>2. prev \in [Routers -> Routers \cup {Null, Freed}]
    BY <2>1 DEF Tree
  <2>3. fault \in {"none"} \cup BadWalks
    BY DEF PathsInv, BadWalks
  <2> QED BY <2>1, <2>2, <2>3 DEF PathsTypeOK, Sane
<1> QED BY <1>1, PathsInvariant, PTL

(* Every walk of add_route_wrappers along prev_router ends, and meets a freed
   router only while some listed router cannot be reached. *)
THEOREM WalksEnd == PathsSpec => []WalkEnds
<1>1. PathsInv => WalkEnds
  BY DEF PathsInv, WalkEnds
<1> QED BY <1>1, PathsInvariant, PTL

-----------------------------------------------------------------------------
(* The routes *)

(* No other router is on two of our subnets.  get_iface_by_rid takes the
   first of the interfaces with a neighbour: were there two, the route to one
   of our own subnets could leave by the other. *)
OneLink == \A q \in Others : \A s, t \in Subnets[Us] \cap Subnets[q] : s = t

LEMMA ClosestFacts ==
  ASSUME Sane, NEW d \in Ds, NEW s, NEW r \in Known, s \in Subnets[r]
  PROVE  /\ Closest(d, s) \in Known /\ s \in Subnets[Closest(d, s)]
         /\ \A q \in Known : s \in Subnets[q] => d.dist[Closest(d, s)] <= d.dist[q]
<1> DEFINE O == Owners(s)
           Wins(k) == Ahead(d, s, k) /\ \A j \in O : d.dist[list[k]] <= d.dist[list[j]]
<1>1. O \subseteq 1 .. Len(list) /\ \A k \in 1 .. Len(list) : list[k] \in Routers /\ list[k] \in Known
  BY DEF Owners, Sane, Known
<1>2. \A k \in O : d.dist[list[k]] \in Nat /\ k \in Nat /\ s \in Subnets[list[k]]
  BY <1>1 DEF Ds, Owners
<1>3. O # {}
  BY DEF Owners, Known
<1>4. \E k \in O : Wins(k)
  <2> DEFINE V == {d.dist[list[k]] : k \in O}
  <2>1. V \subseteq Nat /\ V # {}
    BY <1>2, <1>3
  <2>2. PICK m \in V : \A y \in V : m <= y
    BY <2>1, Least
  <2> DEFINE K == {k \in O : d.dist[list[k]] = m}
  <2>3. K \subseteq Nat /\ K # {}
    BY <1>2, <2>2
  <2>4. PICK k \in K : \A j \in K : k <= j
    BY <2>3, Least
  <2>5. k \in O /\ d.dist[list[k]] = m /\ m \in Nat /\ k \in Nat
    BY <1>2, <2>2, <2>4
  <2>6. \A j \in O : m <= d.dist[list[j]] /\ d.dist[list[j]] \in Nat /\ j \in Nat
    BY <1>2, <2>2
  <2>7. \A j \in O : j < k => d.dist[list[k]] < d.dist[list[j]]
    <3>1. ASSUME NEW j \in O, j < k PROVE d.dist[list[k]] < d.dist[list[j]]
      <4>1. PICK e : e = d.dist[list[j]]
        OBVIOUS
      <4>2. e = m => k <= j
        BY <2>4, <4>1
      <4>3. j \in Nat /\ k \in Nat /\ m \in Nat /\ e \in Nat /\ m <= e
        BY <2>5, <2>6, <4>1
      <4>4. m < e
        BY ONLY <3>1, <4>2, <4>3
      <4> QED BY <2>5, <4>1, <4>4
    <3> QED BY <3>1
  <2>8. Ahead(d, s, k)
    BY <2>7 DEF Ahead
  <2> QED BY <2>5, <2>6, <2>8
<1>5. PICK k : k = CHOOSE x \in O : Wins(x)
  OBVIOUS
<1>6. k \in O /\ Wins(k)
  BY <1>4, <1>5
<1>7. Closest(d, s) = list[k]
  BY <1>5 DEF Closest
<1>8. ASSUME NEW q \in Known, s \in Subnets[q] PROVE d.dist[list[k]] <= d.dist[q]
  <2>1. PICK j \in 1 .. Len(list) : list[j] = q
    BY DEF Known
  <2>2. j \in O
    BY <1>8, <2>1 DEF Owners
  <2> QED BY <1>6, <2>1, <2>2
<1>9. list[k] \in Known /\ s \in Subnets[list[k]]
  BY <1>1, <1>2, <1>6
<1> QED BY <1>7, <1>8, <1>9

Route(s, i, g) == [subnet |-> s, iface |-> i, gw |-> g]

(* The routes of a subnet, one for each interface IfaceFor finds. *)
LEMMA TableFacts ==
  ASSUME NEW d, NEW s \in AllSubnets, NEW i, NEW c, c = Closest(d, s), NEW rid, rid = NextRid(d, c, s),
         IfaceFor(rid, s) = {i}
  PROVE  {e \in ComputeRtable(d) : e.subnet = s} = {Route(s, i, IF c = Us THEN Null ELSE rid)}
<1> DEFINE Gw(t) == IF Closest(d, t) = Us THEN Null ELSE NextRid(d, Closest(d, t), t)
           Doors(t) == IfaceFor(NextRid(d, Closest(d, t), t), t)
           R(t) == {Route(t, j, Gw(t)) : j \in Doors(t)}
<1>1. ComputeRtable(d) = UNION {R(t) : t \in AllSubnets}
  BY DEF ComputeRtable, Route
<1>2. Gw(s) = (IF c = Us THEN Null ELSE rid) /\ Doors(s) = {i}
  OBVIOUS
<1> HIDE DEF Gw, Doors
<1>3. R(s) = {Route(s, i, Gw(s))}
  BY <1>2
<1>4. \A t : \A e \in R(t) : e.subnet = t
  BY DEF Route
<1> HIDE DEF R
<1>5. ASSUME NEW e \in ComputeRtable(d), e.subnet = s PROVE e = Route(s, i, Gw(s))
  BY <1>1, <1>3, <1>4, <1>5
<1>6. Route(s, i, Gw(s)) \in ComputeRtable(d) /\ Route(s, i, Gw(s)).subnet = s
  BY <1>1, <1>3, <1>4
<1> QED BY <1>2, <1>5, <1>6

LEMMA RouteShortest ==
  ASSUME PathsInv, OneLink, NEW d, d = Rounds, NEW s, NEW x \in Reachable, s \in Subnets[x]
  PROVE  \E i, g :
           /\ {e \in ComputeRtable(d) : e.subnet = s} = {Route(s, i, g)}
           /\ s \in Subnets[Us] => g = Null /\ i = s
           /\ s \notin Subnets[Us] =>
                /\ adv[Us][i] = g /\ g \in Neighbours(Us)
                /\ \E r \in Reachable : /\ s \in Subnets[r] /\ r \in From(g)[Hops(r) - 1]
                                        /\ \A q \in Reachable : s \in Subnets[q] => Hops(r) <= Hops(q)
<1>1. Sane /\ Tree(prev) /\ Known \subseteq Routers /\ Us \in Known /\ Us \in Routers
  BY KnownFinite DEF PathsInv, Sane, Routers
<1>2. prev \in [Routers -> Pointers]
  BY <1>1 DEF Tree, Pointers
<1>3. Final(d) /\ Tree(d.prev)
  BY <1>1, <1>2, RoundsFinal, RunTree
<1>4. Reachable = {v \in Routers : Near(d, v)} /\ \A v \in Reachable : Hops(v) = d.dist[v]
  BY <1>1, <1>3, HopsFacts
<1>5. Reachable \subseteq Known
  BY <1>3, <1>4 DEF Final
<1>6. d \in Ds /\ d.dist[Us] = 0 /\ Infinity \in Nat
  BY <1>3, RoutersFinite DEF Final
<1>7. \A v \in Routers : d.dist[v] \in Nat
  BY <1>6 DEF Ds
<1>8. PICK c : c = Closest(d, s)
  OBVIOUS
<1>9. /\ c \in Known /\ s \in Subnets[c]
      /\ \A q \in Known : s \in Subnets[q] => d.dist[c] <= d.dist[q]
  BY <1>1, <1>5, <1>6, <1>8, ClosestFacts
<1>10. c \in Routers /\ Near(d, c) /\ c \in Reachable
  <2>1. d.dist[c] <= d.dist[x] /\ d.dist[x] < Infinity /\ x \in Routers /\ c \in Routers
    BY <1>1, <1>4, <1>5, <1>9 DEF Near
  <2>2. d.dist[c] < Infinity
    BY <1>6, <1>7, <2>1
  <2> QED BY <1>4, <2>1, <2>2 DEF Near
<1>11. s \in AllSubnets
  BY <1>9 DEF AllSubnets
<1>12. PICK rid : rid = NextRid(d, c, s)
  OBVIOUS
<1>13. d.prev[Us] = Null /\ Null \notin Routers
  BY <1>3, DijkstraAssumption DEF Tree
<1>14. CASE s \in Subnets[Us]
  <2>1. c = Us
    <3>1. d.dist[c] <= 0
      BY <1>1, <1>6, <1>9, <1>14
    <3>2. ASSUME c # Us PROVE FALSE
      <4>1. d.prev[c] \in Routers /\ d.dist[c] = d.dist[d.prev[c]] + 1
        BY <1>3, <1>10, <3>2 DEF Final, ComesVia
      <4> QED BY <1>7, <1>10, <3>1, <4>1
    <3> QED BY <3>2
  <2>2. rid = adv[Us][s]
    BY <1>12, <1>13, <2>1 DEF NextRid
  <2>3. IfaceFor(rid, s) = {s}
    <3> DEFINE B == {t \in Subnets[Us] : rid # Null /\ adv[Us][t] = rid}
    <3>1. IfaceFor(rid, s) = IF B # {} THEN {CHOOSE t \in B : TRUE} ELSE {s} \cap Subnets[Us]
      BY DEF IfaceFor
    <3>2. ASSUME NEW t \in B PROVE t = s
      <4>1. rid \in Peers(Us, t) /\ rid \in Peers(Us, s)
        BY <1>1, <1>14, <2>2, <3>2 DEF Sane
      <4>2. rid \in Others /\ t \in Subnets[Us] \cap Subnets[rid] /\ s \in Subnets[Us] \cap Subnets[rid]
        BY <1>14, <4>1 DEF Peers, Routers
      <4> QED BY <4>2 DEF OneLink
    <3>3. CASE B # {}
      <4>1. (CHOOSE t \in B : TRUE) \in B
        BY <3>3
      <4>2. (CHOOSE t \in B : TRUE) = s
        BY <3>2, <4>1
      <4> QED BY <3>1, <3>3, <4>2
    <3>4. CASE B = {}
      BY <1>14, <3>1, <3>4
    <3> QED BY <3>3, <3>4
  <2>4. {e \in ComputeRtable(d) : e.subnet = s} = {Route(s, s, IF c = Us THEN Null ELSE rid)}
    BY <1>8, <1>11, <1>12, <2>3, TableFacts
  <2>5. {e \in ComputeRtable(d) : e.subnet = s} = {Route(s, s, Null)}
    BY <2>1, <2>4
  <2> QED BY <1>14, <2>5
<1>15. CASE s \notin Subnets[Us]
  <2>1. c # Us
    BY <1>9, <1>15
  <2>2. OnTheWay(d, c, Walk(d, c))
    BY <1>1, <1>3, <1>10, <2>1, WalkNear
  <2>3. d.prev[c] \in Routers
    BY <1>3, <1>10, <2>1 DEF Final, ComesVia
  <2>4. rid = Walk(d, c)
    BY <1>12, <1>13, <2>3 DEF NextRid
  <2>5. rid \in Routers /\ rid \in Neighbours(Us) /\ c \in From(rid)[d.dist[c] - 1]
    BY <2>2, <2>4 DEF OnTheWay
  <2>6. \E i : IfaceFor(rid, s) = {i} /\ adv[Us][i] = rid
    <3> DEFINE B == {t \in Subnets[Us] : rid # Null /\ adv[Us][t] = rid}
    <3>1. IfaceFor(rid, s) = IF B # {} THEN {CHOOSE t \in B : TRUE} ELSE {s} \cap Subnets[Us]
      BY DEF IfaceFor
    <3>2. B # {}
      BY <1>13, <2>5 DEF Neighbours
    <3>3. (CHOOSE t \in B : TRUE) \in B
      BY <3>2
    <3>4. PICK i : i = CHOOSE t \in B : TRUE
      OBVIOUS
    <3>5. IfaceFor(rid, s) = {i} /\ adv[Us][i] = rid
      BY <3>1, <3>2, <3>3, <3>4
    <3> QED BY <3>5
  <2>7. PICK i : IfaceFor(rid, s) = {i} /\ adv[Us][i] = rid
    BY <2>6
  <2>8. {e \in ComputeRtable(d) : e.subnet = s} = {Route(s, i, IF c = Us THEN Null ELSE rid)}
    BY <1>8, <1>11, <1>12, <2>7, TableFacts
  <2>9. {e \in ComputeRtable(d) : e.subnet = s} = {Route(s, i, rid)}
    BY <2>1, <2>8
  <2>10. c \in From(rid)[Hops(c) - 1]
    BY <1>4, <1>10, <2>5
  <2>11. \A q \in Reachable : s \in Subnets[q] => Hops(c) <= Hops(q)
    BY <1>4, <1>5, <1>9, <1>10
  <2> QED BY <1>9, <1>10, <1>15, <2>5, <2>7, <2>9, <2>10, <2>11
<1> QED BY <1>14, <1>15

(* Whatever earlier runs left in prev_router, compute_rtable gives every
   subnet that can be reached exactly one route, along a shortest path, for
   every topology in which no other router shares two subnets with us. *)
THEOREM RoutesAreShortest ==
  ASSUME OneLink
  PROVE  PathsSpec => []RoutesShortest
<1>1. PathsInv => RoutesShortest
  <2> SUFFICES ASSUME PathsInv PROVE RoutesShortest
    OBVIOUS
  <2>1. PICK d : d = Rounds
    OBVIOUS
  <2>2. ASSUME NEW s \in UNION {Subnets[r] : r \in Reachable}
        PROVE  LET near == {r \in Reachable : s \in Subnets[r] /\
                              \A q \in Reachable : s \in Subnets[q] => Hops(r) <= Hops(q)}
                   routes == {e \in ComputeRtable(d) : e.subnet = s}
               IN  /\ Cardinality(routes) = 1
                   /\ \A e \in routes :
                        IF s \in Subnets[Us] THEN e.gw = Null /\ e.iface = s
                        ELSE /\ adv[Us][e.iface] = e.gw /\ e.gw \in Neighbours(Us)
                             /\ \E r \in near : r \in From(e.gw)[Hops(r) - 1]
    <3>1. PICK x \in Reachable : s \in Subnets[x]
      OBVIOUS
    <3>2. PICK i, g :
            /\ {e \in ComputeRtable(d) : e.subnet = s} = {Route(s, i, g)}
            /\ s \in Subnets[Us] => g = Null /\ i = s
            /\ s \notin Subnets[Us] =>
                 /\ adv[Us][i] = g /\ g \in Neighbours(Us)
                 /\ \E r \in Reachable : /\ s \in Subnets[r] /\ r \in From(g)[Hops(r) - 1]
                                         /\ \A q \in Reachable : s \in Subnets[q] => Hops(r) <= Hops(q)
      BY <2>1, <3>1, RouteShortest
    <3>3. Cardinality({Route(s, i, g)}) = 1
      BY FS_Singleton
    <3>4. Route(s, i, g).gw = g /\ Route(s, i, g).iface = i
      BY DEF Route
    <3> QED BY <3>2, <3>3, <3>4
  <2> QED BY <2>1, <2>2 DEF RoutesShortest
<1> QED BY <1>1, PathsInvariant, PTL
=============================================================================
