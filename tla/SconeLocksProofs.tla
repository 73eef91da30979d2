---------------------------- MODULE SconeLocksProofs ----------------------------
(* For any set of threads: locks are taken in one order, threads never wait for each *)
(* other in a circle, and no thread changes what another one uses, except where the  *)
(* code takes no lock.                                                               *)
(*                                                                                   *)
(* The argument.  There are rules for programs, in the manner of Hoare's, and every  *)
(* handler is shown to keep them (one lemma each, in the order of SconeLocks:        *)
(* <handler>Keeps).  So what is left of a thread's pass keeps them from what the     *)
(* thread holds now (Follows, the inductive invariant), and the step before which it *)
(* is waits only for locks that come after all it holds, and touches only what these *)
(* locks guard.                                                                      *)
EXTENDS SconeLocks, TLAPS

Traces == SUBSET Seq(Steps)

--------------------------------------------------------------------------------
(* The rules.  Keeps(A, p, K): whichever trace of program p a thread follows that    *)
(* holds A, it waits for no lock but those that come after all it holds, touches     *)
(* guarded data only under the lock of the data, and ends with one of K held.  A     *)
(* program that gives back all it takes is Stable.                                   *)

(* Every name in Order is a lock, and every lock is data.                           *)
LEMMA LockNames ==
  /\ {"cli_commands", "answer", "lsu_bcast", "dijkstra", "arp_cache", "arp_queue", "if_list",
      "rtable", "router_list", "lsu_queue", "sping_queue", "www_queue", "filters", "stats",
      "write", "log", "mbox"} = Locks
  /\ Locks \cup {"arp_hw", "rtable_hw", "filters_hw", "iface_hw", "counters"} = Data
  /\ \A l \in Locks : Rank[l] \in 1 .. 17
<1>1. Locks = {Order[1], Order[2], Order[3], Order[4], Order[5], Order[6], Order[7], Order[8],
               Order[9], Order[10], Order[11], Order[12], Order[13], Order[14], Order[15],
               Order[16], Order[17]}
  BY DEF Locks
<1>2. {"cli_commands", "answer", "lsu_bcast", "dijkstra", "arp_cache", "arp_queue", "if_list",
      "rtable", "router_list", "lsu_queue", "sping_queue", "www_queue", "filters", "stats",
      "write", "log", "mbox"} = Locks
  BY <1>1 DEF Order
<1>3. ASSUME NEW l \in Locks PROVE Rank[l] \in 1 .. 17
  <2>1. \E i \in 1 .. 17 : Order[i] = l
    BY DEF Locks
  <2>2. (CHOOSE i \in 1 .. 17 : Order[i] = l) \in 1 .. 17
    BY <2>1
  <2> QED BY <2>2 DEF Rank
<1> QED BY <1>2, <1>3 DEF Data

(* Marks a pass in which unlock calls have been passed over.                        *)
Leaked == <<"leaked", "leaked">>
Holdings == SUBSET ((Locks \X Modes) \cup {Leaked})

(* The data no lock belongs to.                                                     *)
Free == {"iface_hw", "counters"}
Guard(d) ==
  CASE d = "arp_hw" -> "arp_cache"
    [] d = "rtable_hw" -> "rtable"
    [] d = "filters_hw" -> "filters"
    [] OTHER -> d

Owns(A, l) == <<l, "wr">> \in A
Has(A, l) == \E m \in Modes : <<l, m>> \in A

MayRead(A, d) == d \in Free \/ Has(A, Guard(d))
MayWrite(A, d) == d \notin Free /\ Owns(A, Guard(d))

(* All that is held has a rank below n, and nothing was leaked.                     *)
Under(A, n) == \A h \in A : h \in Locks \X Modes /\ Rank[h[1]] < n

(* Step s, taken with A held, keeps the rules and leaves B held.                    *)
Moves(s, A, B) ==
  /\ s.op \in Waits => Under(A, Rank[s.lock])
  /\ s.op \in Modes \cup {"rel"} => s.lock # "answer"
  /\ s.op # "bare" => /\ \A d \in s.r : d # "answer" /\ MayRead(A, d)
                      /\ \A d \in s.w : d # "answer" /\ MayWrite(A, d)
  /\ B = IF s.op \in Modes THEN A \cup {<<s.lock, s.op>>}
         ELSE IF s.op = "rel" THEN A \ ({s.lock} \X Modes)
         ELSE IF s.op = "leak" THEN A \cup {Leaked}
         ELSE A

(* Trace q, begun with A held, keeps the rules and ends with B held.                *)
Runs(q, A, B) ==
  \E f \in [0 .. Len(q) -> Holdings] :
    /\ f[0] = A /\ f[Len(q)] = B
    /\ \A k \in 1 .. Len(q) : Moves(q[k], f[k - 1], f[k])

(* Program p, begun with A held, keeps the rules and ends with one of K held.       *)
Keeps(A, p, K) == \A q \in p : q \in Seq(Steps) /\ \E B \in K : Runs(q, A, B)

(* ... with what was held before.                                                   *)
Stable(A, p) == Keeps(A, p, {A})

(* The empty trace leaves everything as it is.                                       *)
LEMMA RunsEmpty ==
  ASSUME NEW A \in Holdings
  PROVE  Runs(<<>>, A, A)
<1> DEFINE f == [k \in 0 .. 0 |-> A]
<1>1. f \in [0 .. Len(<<>>) -> Holdings] /\ f[0] = A /\ f[Len(<<>>)] = A
  OBVIOUS
<1>2. \A k \in 1 .. Len(<<>>) : Moves(<<>>[k], f[k - 1], f[k])
  OBVIOUS
<1> HIDE DEF f
<1> QED BY <1>1, <1>2 DEF Runs

(* A trace of one step.                                                              *)
LEMMA RunsOne ==
  ASSUME NEW s \in Steps, NEW A \in Holdings, NEW B \in Holdings, Moves(s, A, B)
  PROVE  Runs(<<s>>, A, B)
<1> DEFINE f == [k \in 0 .. 1 |-> IF k = 0 THEN A ELSE B]
<1>1. f \in [0 .. Len(<<s>>) -> Holdings] /\ f[0] = A /\ f[1] = B /\ Len(<<s>>) = 1 /\ <<s>>[1] = s
  OBVIOUS
<1> HIDE DEF f
<1>2. \A k \in 1 .. 1 : Moves(<<s>>[k], f[k - 1], f[k])
  BY <1>1
<1> QED BY <1>1, <1>2 DEF Runs

(* Two traces, one after the other.                                                  *)
LEMMA RunsConcat ==
  ASSUME NEW a \in Seq(Steps), NEW b \in Seq(Steps), NEW A, NEW B, NEW C,
         Runs(a, A, B), Runs(b, B, C)
  PROVE  Runs(a \o b, A, C)
<1>1. PICK f \in [0 .. Len(a) -> Holdings] :
        /\ f[0] = A /\ f[Len(a)] = B
        /\ \A k \in 1 .. Len(a) : Moves(a[k], f[k - 1], f[k])
  BY DEF Runs
<1>2. PICK g \in [0 .. Len(b) -> Holdings] :
        /\ g[0] = B /\ g[Len(b)] = C
        /\ \A k \in 1 .. Len(b) : Moves(b[k], g[k - 1], g[k])
  BY DEF Runs
<1> DEFINE n == Len(a)
           m == Len(b)
           h == [k \in 0 .. n + m |-> IF k <= n THEN f[k] ELSE g[k - n]]
           c == a \o b
<1>3. /\ n \in Nat /\ m \in Nat /\ c \in Seq(Steps) /\ Len(c) = n + m
      /\ \A k \in 1 .. n : c[k] = a[k]
      /\ \A k \in n + 1 .. n + m : c[k] = b[k - n]
  OBVIOUS
<1> HIDE DEF n, m, c
<1>4. /\ h \in [0 .. n + m -> Holdings]
      /\ \A k \in 0 .. n : h[k] = f[k]
      /\ \A k \in n .. n + m : h[k] = g[k - n]
  <2>1. \A k \in 0 .. n : f[k] \in Holdings
    BY <1>1 DEF n
  <2>2. \A k \in 0 .. m : g[k] \in Holdings
    BY <1>2 DEF m
  <2>3. f[n] = g[0]
    BY <1>1, <1>2 DEF n
  <2>4. \A k \in n .. n + m : k - n \in 0 .. m /\ k \in 0 .. n + m
    BY <1>3
  <2>5. \A k \in n .. n + m : k <= n => k = n /\ k - n = 0
    BY <1>3
  <2> QED BY <2>1, <2>2, <2>3, <2>4, <2>5, <1>3
<1> HIDE DEF h
<1>5. h[0] = A /\ h[n + m] = C
  <2>1. 0 \in 0 .. n /\ n + m \in n .. n + m /\ (n + m) - n = m
    BY <1>3
  <2>2. h[0] = f[0] /\ h[n + m] = g[m]
    BY <2>1, <1>4
  <2> QED BY <2>2, <1>1, <1>2 DEF m
<1>6. ASSUME NEW k \in 1 .. n + m PROVE Moves(c[k], h[k - 1], h[k])
  <2>1. CASE k <= n
    <3>1. k \in 1 .. n /\ k - 1 \in 0 .. n /\ k \in 0 .. n
      BY <2>1, <1>3
    <3>2. Moves(a[k], f[k - 1], f[k])
      BY <3>1, <1>1 DEF n
    <3> QED BY <3>1, <3>2, <1>3, <1>4
  <2>2. CASE k > n
    <3> DEFINE j == k - n
    <3>1. j \in 1 .. m /\ k - 1 \in n .. n + m /\ (k - 1) - n = j - 1
          /\ k \in n .. n + m /\ k \in n + 1 .. n + m
      BY <2>2, <1>3
    <3>2. Moves(b[j], g[j - 1], g[j])
      BY <3>1, <1>2 DEF m
    <3>3. c[k] = b[j] /\ h[k - 1] = g[j - 1] /\ h[k] = g[j]
      BY <3>1, <1>3, <1>4
    <3> QED BY <3>2, <3>3
  <2> QED BY <2>1, <2>2, <1>3
<1>7. h \in [0 .. Len(c) -> Holdings] /\ h[0] = A /\ h[Len(c)] = C
      /\ \A k \in 1 .. Len(c) : Moves(c[k], h[k - 1], h[k])
  BY <1>3, <1>4, <1>5, <1>6
<1> QED BY <1>7 DEF Runs, c

(* The rest of a trace once its first step is taken.                                *)
LEMMA RunsTail ==
  ASSUME NEW q \in Seq(Steps), q # <<>>, NEW A, NEW C, Runs(q, A, C)
  PROVE  \E B \in Holdings : Moves(Head(q), A, B) /\ Runs(Tail(q), B, C)
<1>1. PICK f \in [0 .. Len(q) -> Holdings] :
        /\ f[0] = A /\ f[Len(q)] = C
        /\ \A k \in 1 .. Len(q) : Moves(q[k], f[k - 1], f[k])
  BY DEF Runs
<1> DEFINE n == Len(q)
           r == Tail(q)
           g == [k \in 0 .. n - 1 |-> f[k + 1]]
<1>2. /\ n \in Nat /\ n >= 1 /\ r \in Seq(Steps) /\ Len(r) = n - 1
      /\ \A k \in 1 .. n - 1 : r[k] = q[k + 1]
      /\ Head(q) = q[1]
  OBVIOUS
<1> HIDE DEF n, r
<1>3. /\ g \in [0 .. n - 1 -> Holdings]
      /\ \A k \in 0 .. n - 1 : g[k] = f[k + 1]
  <2>1. \A k \in 0 .. n - 1 : k + 1 \in 0 .. Len(q)
    BY <1>2 DEF n
  <2> QED BY <2>1, <1>1
<1> HIDE DEF g
<1>4. Moves(Head(q), A, f[1]) /\ f[1] \in Holdings
  <2>1. 1 \in 1 .. Len(q) /\ 1 \in 0 .. Len(q) /\ 1 - 1 = 0
    BY <1>2 DEF n
  <2>2. Moves(q[1], f[1 - 1], f[1])
    BY <2>1, <1>1
  <2> QED BY <2>1, <2>2, <1>1, <1>2
<1>5. g[0] = f[1] /\ g[n - 1] = C
  <2>1. 0 \in 0 .. n - 1 /\ n - 1 \in 0 .. n - 1 /\ (n - 1) + 1 = n /\ 0 + 1 = 1
    BY <1>2
  <2> QED BY <2>1, <1>1, <1>3 DEF n
<1>6. ASSUME NEW k \in 1 .. n - 1 PROVE Moves(r[k], g[k - 1], g[k])
  <2>1. k + 1 \in 1 .. Len(q) /\ (k + 1) - 1 = k /\ k - 1 \in 0 .. n - 1 /\ k \in 0 .. n - 1
        /\ (k - 1) + 1 = k
    BY <1>2 DEF n
  <2>2. Moves(q[k + 1], f[(k + 1) - 1], f[k + 1])
    BY <2>1, <1>1
  <2> QED BY <2>1, <2>2, <1>2, <1>3
<1>7. Runs(r, f[1], C)
  BY <1>2, <1>3, <1>5, <1>6 DEF Runs
<1> QED BY <1>4, <1>7 DEF r

(* A trace that is at its end holds what it promised.                                *)
LEMMA RunsNothing ==
  ASSUME NEW A, NEW B, Runs(<<>>, A, B)
  PROVE  A = B
BY DEF Runs

(* The marker is no lock, and the modes differ.                                      *)
LEMMA Strings ==
  /\ Leaked \notin Locks \X Modes
  /\ "rd" # "wr"
BY LockNames DEF Leaked, Modes

(* The ranks, lock by lock.                                                          *)
LEMMA RankValues ==
  /\ Rank["cli_commands"] = 1 /\ Rank["answer"] = 2 /\ Rank["lsu_bcast"] = 3
  /\ Rank["dijkstra"] = 4 /\ Rank["arp_cache"] = 5 /\ Rank["arp_queue"] = 6
  /\ Rank["if_list"] = 7 /\ Rank["rtable"] = 8 /\ Rank["router_list"] = 9
  /\ Rank["lsu_queue"] = 10 /\ Rank["sping_queue"] = 11 /\ Rank["www_queue"] = 12
  /\ Rank["filters"] = 13 /\ Rank["stats"] = 14 /\ Rank["write"] = 15
  /\ Rank["log"] = 16 /\ Rank["mbox"] = 17
<1>1. \A l \in Locks : Rank[l] \in 1 .. 17 /\ Order[Rank[l]] = l
  <2> SUFFICES ASSUME NEW l \in Locks
               PROVE  Rank[l] \in 1 .. 17 /\ Order[Rank[l]] = l
    OBVIOUS
  <2>1. \E i \in 1 .. 17 : Order[i] = l
    BY DEF Locks
  <2>2. /\ (CHOOSE i \in 1 .. 17 : Order[i] = l) \in 1 .. 17
        /\ Order[CHOOSE i \in 1 .. 17 : Order[i] = l] = l
    BY <2>1
  <2> QED BY <2>2 DEF Rank
<1>2. \A i, j \in 1 .. 17 : Order[i] = Order[j] => i = j
  BY DEF Order
<1>3. \A i \in 1 .. 17 : Order[i] \in Locks
  BY DEF Locks
<1>4. \A i \in 1 .. 17 : Rank[Order[i]] = i
  BY <1>1, <1>2, <1>3
<1>5. /\ Order[1] = "cli_commands" /\ Order[2] = "answer" /\ Order[3] = "lsu_bcast"
      /\ Order[4] = "dijkstra" /\ Order[5] = "arp_cache" /\ Order[6] = "arp_queue"
      /\ Order[7] = "if_list" /\ Order[8] = "rtable" /\ Order[9] = "router_list"
      /\ Order[10] = "lsu_queue" /\ Order[11] = "sping_queue" /\ Order[12] = "www_queue"
      /\ Order[13] = "filters" /\ Order[14] = "stats" /\ Order[15] = "write"
      /\ Order[16] = "log" /\ Order[17] = "mbox"
  BY DEF Order
<1> QED BY <1>4, <1>5

(* Rules for programs.                                                              *)
LEMMA DoKeeps ==
  ASSUME NEW A \in Holdings, NEW B \in Holdings, NEW op \in Ops, NEW l \in Locks,
         NEW r \in SUBSET Data, NEW w \in SUBSET Data, op = "await" => l = "answer",
         Moves([op |-> op, lock |-> l, r |-> r, w |-> w], A, B)
  PROVE  Keeps(A, Do(op, l, r, w), {B})
<1> DEFINE s == [op |-> op, lock |-> l, r |-> r, w |-> w]
<1>1. s \in Steps
  BY DEF Steps
<1>2. Moves(s, A, B) /\ Do(op, l, r, w) = {<<s>>}
  BY DEF Do
<1> HIDE DEF s
<1>3. Runs(<<s>>, A, B) /\ <<s>> \in Seq(Steps)
  BY <1>1, <1>2, RunsOne
<1> QED BY <1>2, <1>3 DEF Keeps

(* The rule of sequence.                                                             *)
LEMMA SeqKeeps ==
  ASSUME NEW A, NEW p, NEW K, NEW q, NEW L, Keeps(A, p, K), \A B \in K : Keeps(B, q, L)
  PROVE  Keeps(A, p ++ q, L)
<1>0. \A c \in p ++ q : \E a \in p, b \in q : c = a \o b
  BY DEF ++
<1> SUFFICES ASSUME NEW a \in p, NEW b \in q
             PROVE  a \o b \in Seq(Steps) /\ \E C \in L : Runs(a \o b, A, C)
  BY <1>0, Zenon DEF Keeps
<1>1. a \in Seq(Steps) /\ \E B \in K : Runs(a, A, B)
  BY DEF Keeps
<1>2. PICK B \in K : Runs(a, A, B)
  BY <1>1
<1>3. b \in Seq(Steps) /\ \E C \in L : Runs(b, B, C)
  BY DEF Keeps
<1>4. PICK C \in L : Runs(b, B, C)
  BY <1>3
<1>5. Runs(a \o b, A, C)
  BY <1>1, <1>2, <1>3, <1>4, RunsConcat
<1> QED BY <1>1, <1>3, <1>5

(* The rule of branches.                                                             *)
LEMMA UnionKeeps ==
  ASSUME NEW A, NEW p, NEW q, NEW K, Keeps(A, p, K), Keeps(A, q, K)
  PROVE  Keeps(A, p \cup q, K)
BY DEF Keeps

(* A program may be promised to end with less.                                       *)
LEMMA Weaken ==
  ASSUME NEW A, NEW p, NEW K, NEW L, Keeps(A, p, K), K \subseteq L
  PROVE  Keeps(A, p, L)
BY DEF Keeps

(* Doing nothing is stable,                                                          *)
LEMMA SkipStable == ASSUME NEW A \in Holdings PROVE Stable(A, Skip)
<1>1. Runs(<<>>, A, A) /\ <<>> \in Seq(Steps)
  BY RunsEmpty
<1> QED BY <1>1 DEF Stable, Keeps, Skip

(* so is one stable program after the other,                                         *)
LEMMA StSeq == ASSUME NEW A, NEW p, NEW q, Stable(A, p), Stable(A, q) PROVE Stable(A, p ++ q)
BY SeqKeeps DEF Stable

(* a branch into two of them,                                                        *)
LEMMA StUnion == ASSUME NEW A, NEW p, NEW q, Stable(A, p), Stable(A, q) PROVE Stable(A, p \cup q)
BY UnionKeeps DEF Stable

(* one of them or nothing,                                                           *)
LEMMA StOpt == ASSUME NEW A \in Holdings, NEW p, Stable(A, p) PROVE Stable(A, Opt(p))
BY StUnion, SkipStable DEF Opt

(* the use of data whose locks are held,                                             *)
LEMMA StUse ==
  ASSUME NEW A \in Holdings, NEW r \in SUBSET Data, NEW w \in SUBSET Data,
         \A d \in r : d # "answer" /\ MayRead(A, d),
         \A d \in w : d # "answer" /\ MayWrite(A, d)
  PROVE  Stable(A, Do("use", "answer", r, w))
<1>1. "use" \in Ops /\ "answer" \in Locks /\ "use" \notin Waits /\ "use" \notin Modes
  BY LockNames DEF Ops, Waits, Modes
<1>2. Moves([op |-> "use", lock |-> "answer", r |-> r, w |-> w], A, A)
  BY <1>1 DEF Moves
<1> QED BY <1>1, <1>2, DoKeeps DEF Stable

(* and the use that takes no lock at all.                                            *)
LEMMA StBare ==
  ASSUME NEW A \in Holdings, NEW r \in SUBSET Data, NEW w \in SUBSET Data
  PROVE  Stable(A, Do("bare", "answer", r, w))
<1>1. "bare" \in Ops /\ "answer" \in Locks /\ "bare" \notin Waits /\ "bare" \notin Modes
  BY LockNames DEF Ops, Waits, Modes
<1>2. Moves([op |-> "bare", lock |-> "answer", r |-> r, w |-> w], A, A)
  BY <1>1 DEF Moves
<1> QED BY <1>1, <1>2, DoKeeps DEF Stable

(* A lock that comes after all that is held may be taken.                            *)
LEMMA KeepsAcquire ==
  ASSUME NEW A \in Holdings, NEW m \in Modes, NEW l \in Locks \ {"answer"}, Under(A, Rank[l])
  PROVE  Keeps(A, Do(m, l, {}, {}), {A \cup {<<l, m>>}})
<1>1. m \in Ops /\ m \in Waits /\ m # "await" /\ m # "rel" /\ m # "leak"
  BY DEF Ops, Waits, Modes
<1>2. A \cup {<<l, m>>} \in Holdings
  BY DEF Holdings
<1>3. Moves([op |-> m, lock |-> l, r |-> {}, w |-> {}], A, A \cup {<<l, m>>})
  BY <1>1 DEF Moves
<1> QED BY <1>1, <1>2, <1>3, DoKeeps

(* A lock may be given back.                                                         *)
LEMMA KeepsRelease ==
  ASSUME NEW A \in Holdings, NEW l \in Locks \ {"answer"}
  PROVE  Keeps(A, Rel(l), {A \ ({l} \X Modes)})
<1>1. "rel" \in Ops /\ "rel" \notin Waits /\ "rel" \notin Modes
  BY DEF Ops, Waits, Modes
<1>2. A \ ({l} \X Modes) \in Holdings
  BY DEF Holdings
<1>3. Moves([op |-> "rel", lock |-> l, r |-> {}, w |-> {}], A, A \ ({l} \X Modes))
  BY <1>1 DEF Moves
<1> QED BY <1>1, <1>2, <1>3, DoKeeps DEF Rel

(* What is taken can be given back.                                                  *)
LEMMA GiveBack ==
  ASSUME NEW A \in Holdings, NEW m \in Modes, NEW l \in Locks, Under(A, Rank[l])
  PROVE  (A \cup {<<l, m>>}) \ ({l} \X Modes) = A
<1>1. ASSUME NEW h \in A PROVE h \notin {l} \X Modes
  <2>1. h \in Locks \X Modes /\ Rank[h[1]] < Rank[l]
    BY DEF Under
  <2>2. Rank[l] \in 1 .. 17
    BY LockNames
  <2> QED BY <2>1, <2>2
<1> QED BY <1>1

(* A stable program under one more lock.                                             *)
LEMMA StHold ==
  ASSUME NEW A \in Holdings, NEW m \in Modes, NEW l \in Locks \ {"answer"}, Under(A, Rank[l]),
         NEW p, Stable(A \cup {<<l, m>>}, p)
  PROVE  Stable(A, Do(m, l, {}, {}) ++ p ++ Rel(l))
<1> DEFINE B == A \cup {<<l, m>>}
<1>1. B \in Holdings
  BY DEF Holdings
<1>2. Keeps(A, Do(m, l, {}, {}), {B}) /\ Keeps(B, p, {B})
  BY KeepsAcquire DEF Stable
<1>3. Keeps(B, Rel(l), {A})
  <2>1. B \ ({l} \X Modes) = A
    BY GiveBack
  <2>2. Keeps(B, Rel(l), {B \ ({l} \X Modes)})
    BY <1>1, KeepsRelease
  <2> QED BY <2>1, <2>2
<1> HIDE DEF B
<1>4. Keeps(A, Do(m, l, {}, {}) ++ p, {B})
  BY <1>2, SeqKeeps
<1>5. Keeps(A, (Do(m, l, {}, {}) ++ p) ++ Rel(l), {A})
  BY <1>3, <1>4, SeqKeeps
<1> QED BY <1>5 DEF Stable

(* A stable program under a write lock,                                              *)
LEMMA StWriting ==
  ASSUME NEW A \in Holdings, NEW l \in Locks \ {"answer"}, Under(A, Rank[l]),
         NEW p, Stable(A \cup {<<l, "wr">>}, p)
  PROVE  Stable(A, Writing(l, p))
BY StHold DEF Writing, Wr, Modes

(* and under a read lock.                                                            *)
LEMMA StReading ==
  ASSUME NEW A \in Holdings, NEW l \in Locks \ {"answer"}, Under(A, Rank[l]),
         NEW p, Stable(A \cup {<<l, "rd">>}, p)
  PROVE  Stable(A, Reading(l, p))
BY StHold DEF Reading, Rd, Modes

(* A is held, in order, and what comes next may have rank n or more.                 *)
Ctx(A, n) == A \in Holdings /\ Under(A, n)

(* What may come next may come later.                                                *)
LEMMA CtxMore ==
  ASSUME NEW A, NEW n \in 0 .. 18, NEW m \in 0 .. 18, n <= m, Ctx(A, n)
  PROVE  Ctx(A, m)
<1> SUFFICES ASSUME NEW h \in A PROVE h \in Locks \X Modes /\ Rank[h[1]] < m
  BY DEF Ctx, Under
<1>1. h \in Locks \X Modes /\ Rank[h[1]] < n
  BY DEF Ctx, Under
<1>2. Rank[h[1]] \in 1 .. 17
  BY <1>1, LockNames
<1> QED BY <1>1, <1>2

(* With l taken, what comes next has a rank above l's.                               *)
LEMMA Enter ==
  ASSUME NEW A, NEW n \in 0 .. 18, Ctx(A, n), NEW l \in Locks, NEW m \in Modes, n <= Rank[l]
  PROVE  Ctx(A \cup {<<l, m>>}, Rank[l] + 1)
<1>1. Rank[l] \in 1 .. 17
  BY LockNames
<1>2. A \cup {<<l, m>>} \in Holdings
  BY DEF Ctx, Holdings
<1>3. ASSUME NEW h \in A \cup {<<l, m>>}
      PROVE  h \in Locks \X Modes /\ Rank[h[1]] < Rank[l] + 1
  <2>1. CASE h \in A
    <3>1. h \in Locks \X Modes /\ Rank[h[1]] < n
      BY <2>1 DEF Ctx, Under
    <3>2. Rank[h[1]] \in 1 .. 17
      BY <3>1, LockNames
    <3> QED BY <3>1, <3>2, <1>1
  <2>2. CASE h = <<l, m>>
    BY <2>2, <1>1
  <2> QED BY <2>1, <2>2
<1> QED BY <1>2, <1>3 DEF Ctx, Under

(* A, with lock l taken as well.                                                     *)
Plus(A, l, m) == A \cup {<<l, m>>}

(* The same, for a given rank.                                                       *)
LEMMA EnterAt ==
  ASSUME NEW A, NEW n \in 0 .. 18, Ctx(A, n), NEW l \in Locks, NEW m \in Modes, n <= Rank[l],
         NEW k \in 0 .. 18, Rank[l] < k
  PROVE  Plus(A, l, m) \in Holdings /\ Ctx(Plus(A, l, m), k)
<1>1. Rank[l] + 1 \in 0 .. 18 /\ Rank[l] + 1 <= k
  BY LockNames
<1>2. Ctx(Plus(A, l, m), Rank[l] + 1)
  BY Enter DEF Plus
<1>3. Ctx(Plus(A, l, m), k)
  BY <1>1, <1>2, CtxMore
<1> QED BY <1>3 DEF Ctx

(* The two modes.                                                                    *)
LEMMA ModeNames == "rd" \in Modes /\ "wr" \in Modes
BY DEF Modes

(* A lock that may come next comes after all that is held.                           *)
LEMMA CtxUnder ==
  ASSUME NEW A, NEW n \in 0 .. 18, Ctx(A, n), NEW l \in Locks, n <= Rank[l]
  PROVE  Under(A, Rank[l])
<1>1. Rank[l] \in 0 .. 18
  BY LockNames
<1> QED BY <1>1, CtxMore DEF Ctx

(* The locks of A are still there when one is added.                                 *)
LEMMA Added ==
  ASSUME NEW A, NEW l, NEW m \in Modes
  PROVE  /\ Has(Plus(A, l, m), l)
         /\ m = "wr" => Owns(Plus(A, l, m), l)
         /\ \A k : Has(A, k) => Has(Plus(A, l, m), k)
         /\ \A k : Owns(A, k) => Owns(Plus(A, l, m), k)
BY DEF Owns, Has, Plus

(* Held for writing is held.                                                         *)
LEMMA OwnsHas == ASSUME NEW A, NEW l, Owns(A, l) PROVE Has(A, l)
BY DEF Owns, Has, Modes

(* The rule of a write lock,                                                         *)
LEMMA CtxWriting ==
  ASSUME NEW A, NEW n \in 0 .. 18, Ctx(A, n), NEW l \in Locks \ {"answer"}, n <= Rank[l],
         NEW p, Stable(Plus(A, l, "wr"), p)
  PROVE  Stable(A, Writing(l, p))
BY CtxUnder, StWriting DEF Ctx, Plus

(* and of a read lock, for a context.                                                *)
LEMMA CtxReading ==
  ASSUME NEW A, NEW n \in 0 .. 18, Ctx(A, n), NEW l \in Locks \ {"answer"}, n <= Rank[l],
         NEW p, Stable(Plus(A, l, "rd"), p)
  PROVE  Stable(A, Reading(l, p))
BY CtxUnder, StReading DEF Ctx, Plus

(* One program after another, one lock taken, one given back.                        *)
LEMMA Then ==
  ASSUME NEW A, NEW p, NEW B, NEW q, NEW K, Keeps(A, p, {B}), Keeps(B, q, K)
  PROVE  Keeps(A, p ++ q, K)
BY SeqKeeps

(* A read lock is taken,                                                             *)
LEMMA TakeRd ==
  ASSUME NEW A, NEW n \in 0 .. 18, Ctx(A, n), NEW l \in Locks \ {"answer"}, n <= Rank[l]
  PROVE  Keeps(A, Rd(l), {Plus(A, l, "rd")})
BY CtxUnder, KeepsAcquire, ModeNames DEF Ctx, Plus, Rd

(* a write lock is taken,                                                            *)
LEMMA TakeWr ==
  ASSUME NEW A, NEW n \in 0 .. 18, Ctx(A, n), NEW l \in Locks \ {"answer"}, n <= Rank[l]
  PROVE  Keeps(A, Wr(l), {Plus(A, l, "wr")})
BY CtxUnder, KeepsAcquire, ModeNames DEF Ctx, Plus, Wr

(* and what was taken last is given back.                                            *)
LEMMA Drop ==
  ASSUME NEW A, NEW n \in 0 .. 18, Ctx(A, n), NEW l \in Locks \ {"answer"}, n <= Rank[l],
         NEW m \in Modes
  PROVE  Keeps(Plus(A, l, m), Rel(l), {A})
<1>1. Plus(A, l, m) \in Holdings /\ A \in Holdings
  BY DEF Plus, Ctx, Holdings
<1>2. Plus(A, l, m) \ ({l} \X Modes) = A
  BY <1>1, CtxUnder, GiveBack DEF Plus
<1> QED BY <1>1, <1>2, KeepsRelease

(* A condition wait: the lock is taken, given up and taken again.                    *)
LEMMA TakeAgain ==
  ASSUME NEW A, NEW n \in 0 .. 18, Ctx(A, n), NEW l \in Locks \ {"answer"}, n <= Rank[l]
  PROVE  Stable(A, Wr(l) ++ Rel(l))
BY TakeWr, Drop, Then, ModeNames DEF Stable

(* What is done with the transport thread.                                           *)
LEMMA StMail ==
  ASSUME NEW A, A \in Holdings, Owns(A, "mbox")
  PROVE  /\ Stable(A, Do("post", "mbox", {}, {"mbox"}))
         /\ Stable(A, Do("fetch", "mbox", {}, {"mbox"}))
<1>1. ASSUME NEW op \in {"post", "fetch"}
      PROVE  Stable(A, Do(op, "mbox", {}, {"mbox"}))
  <2>1. op \in Ops /\ "mbox" \in Locks /\ "mbox" \in Data /\ op \notin Waits
        /\ op \notin Modes \cup {"rel"} /\ op \notin {"await", "leak"}
    BY LockNames DEF Ops, Waits, Modes
  <2>2. MayWrite(A, "mbox")
    BY DEF MayWrite, Guard, Free
  <2>3. Moves([op |-> op, lock |-> "mbox", r |-> {}, w |-> {"mbox"}], A, A)
    BY <2>1, <2>2 DEF Moves
  <2> QED BY <2>1, <2>3, DoKeeps DEF Stable
<1> QED BY <1>1

(* An answer is awaited with no lock that comes after it.                            *)
LEMMA StAwait ==
  ASSUME NEW A, Ctx(A, 2)
  PROVE  Stable(A, Do("await", "answer", {}, {}))
<1>1. "await" \in Ops /\ "answer" \in Locks /\ "await" \in Waits
      /\ "await" \notin Modes \cup {"rel"}
  BY LockNames DEF Ops, Waits, Modes
<1>2. Under(A, Rank["answer"]) /\ A \in Holdings
  BY RankValues DEF Ctx
<1>3. Moves([op |-> "await", lock |-> "answer", r |-> {}, w |-> {}], A, A)
  BY <1>1, <1>2 DEF Moves
<1> QED BY <1>1, <1>2, <1>3, DoKeeps DEF Stable

(* An answer is given.                                                               *)
LEMMA StAnswer ==
  ASSUME NEW A, A \in Holdings
  PROVE  Stable(A, Do("answer", "answer", {}, {}))
<1>1. "answer" \in Ops /\ "answer" \in Locks /\ "answer" \notin Waits
      /\ "answer" \notin Modes \cup {"rel"}
  BY LockNames DEF Ops, Waits, Modes
<1>2. Moves([op |-> "answer", lock |-> "answer", r |-> {}, w |-> {}], A, A)
  BY <1>1 DEF Moves
<1> QED BY <1>1, <1>2, DoKeeps DEF Stable

(* A handler that passed over its unlock calls may still give locks back.             *)
Astray == {B \in Holdings : Leaked \in B}

(* The return that passes over the unlock calls.                                     *)
LEMMA LeakLeads ==
  ASSUME NEW A, A \in Holdings
  PROVE  Keeps(A, Leak, Astray)
<1>1. "leak" \in Ops /\ "answer" \in Locks /\ "leak" \notin Waits
      /\ "leak" \notin Modes \cup {"rel"}
  BY LockNames DEF Ops, Waits, Modes
<1> DEFINE B == A \cup {Leaked}
<1>2. B \in Holdings /\ B \in Astray
  BY DEF Holdings, Astray
<1>3. Moves([op |-> "leak", lock |-> "answer", r |-> {}, w |-> {}], A, B)
  BY <1>1 DEF Moves
<1> HIDE DEF B
<1>4. Keeps(A, Leak, {B})
  BY <1>1, <1>2, <1>3, DoKeeps DEF Leak
<1> QED BY <1>2, <1>4, Weaken

(* A lock given back after such a return.                                            *)
LEMMA RelAstray ==
  ASSUME NEW B \in Astray, NEW l \in Locks \ {"answer"}
  PROVE  Keeps(B, Rel(l), Astray)
<1>1. Keeps(B, Rel(l), {B \ ({l} \X Modes)})
  BY KeepsRelease DEF Astray
<1>2. B \ ({l} \X Modes) \in Astray
  BY Strings DEF Astray, Holdings
<1> QED BY <1>1, <1>2, Weaken

--------------------------------------------------------------------------------
(* The handlers.                                                                     *)

(* NetfpgaOutput, with write held for writing: takes locks from log on.              *)
LEMMA NetfpgaOutputKeeps ==
  ASSUME NEW A, Ctx(A, 16), Owns(A, "write")
  PROVE  Stable(A, NetfpgaOutput)
<1> DEFINE B == Plus(A, "log", "wr")
<1>1. Rank["log"] = 16 /\ {"log"} \subseteq Locks
  BY RankValues, LockNames
<1>2. A \in Holdings
  BY DEF Ctx
<1>3. B \in Holdings /\ Ctx(B, 17)
  BY <1>1, <1>2, EnterAt, ModeNames
<1>4. Owns(B, "log")
  BY <1>2, Added, OwnsHas, ModeNames
<1> HIDE DEF B
<1>5. Stable(B, Use({}, {"log"}))
  BY <1>3, <1>4, StUse, LockNames DEF Use, MayRead, MayWrite, Guard, Free
<1>6. Stable(A, Writing("log", Use({}, {"log"})))
  BY <1>2, <1>5, CtxWriting, RankValues, LockNames DEF B
<1>7. Stable(A, Use({}, {"write"}))
  BY <1>2, StUse, LockNames DEF Use, MayRead, MayWrite, Guard, Free
<1> QED BY <1>2, <1>6, <1>7, StSeq DEF NetfpgaOutput

(* SendPacket: takes locks from write on.                                            *)
LEMMA SendPacketKeeps ==
  ASSUME NEW A, Ctx(A, 15)
  PROVE  Stable(A, SendPacket)
<1> DEFINE B == Plus(A, "write", "wr")
<1>1. Rank["write"] = 15 /\ {"write"} \subseteq Locks
  BY RankValues, LockNames
<1>2. A \in Holdings
  BY DEF Ctx
<1>3. B \in Holdings /\ Ctx(B, 16)
  BY <1>1, <1>2, EnterAt, ModeNames
<1>4. Owns(B, "write")
  BY <1>2, Added, OwnsHas, ModeNames
<1> HIDE DEF B
<1>5. Stable(B, NetfpgaOutput)
  BY <1>3, <1>4, NetfpgaOutputKeeps
<1>6. Stable(A, Writing("write", NetfpgaOutput))
  BY <1>2, <1>5, CtxWriting, RankValues, LockNames DEF B
<1> QED BY <1>2, <1>6 DEF SendPacket

(* SendArpRequest (its lock held), with if_list held: takes locks from write on.     *)
LEMMA SendArpRequestUseKeeps ==
  ASSUME NEW A, Ctx(A, 15), Has(A, "if_list")
  PROVE  Stable(A, SendArpRequest("use"))
<1>1. A \in Holdings
  BY DEF Ctx
<1>2. Stable(A, Do("use", "answer", {"if_list"}, {}))
  BY <1>1, StUse, LockNames DEF MayRead, MayWrite, Guard, Free
<1>3. Stable(A, SendPacket)
  BY <1>1, SendPacketKeeps
<1> QED BY <1>1, <1>2, <1>3, StSeq DEF SendArpRequest

(* SendArpRequest (with no lock): takes locks from write on.                         *)
LEMMA SendArpRequestBareKeeps ==
  ASSUME NEW A, Ctx(A, 15)
  PROVE  Stable(A, SendArpRequest("bare"))
<1>1. A \in Holdings
  BY DEF Ctx
<1>2. Stable(A, Do("bare", "answer", {"if_list"}, {}))
  BY <1>1, StBare, LockNames
<1>3. Stable(A, SendPacket)
  BY <1>1, SendPacketKeeps
<1> QED BY <1>1, <1>2, <1>3, StSeq DEF SendArpRequest

(* ArpQueueAdd (its lock held), with arp_queue held for writing and if_list held:    *)
(* takes locks from write on.                                                        *)
LEMMA ArpQueueAddUseKeeps ==
  ASSUME NEW A, Ctx(A, 15), Owns(A, "arp_queue"), Has(A, "if_list")
  PROVE  Stable(A, ArpQueueAdd("use"))
<1>1. A \in Holdings
  BY DEF Ctx
<1>2. Has(A, "arp_queue")
  BY OwnsHas
<1>3. Stable(A, Use({"arp_queue"}, {}))
  BY <1>1, <1>2, StUse, LockNames DEF Use, MayRead, MayWrite, Guard, Free
<1>4. Stable(A, SendArpRequest("use"))
  BY <1>1, <1>2, SendArpRequestUseKeeps
<1>5. Stable(A, Use({}, {"arp_queue"}))
  BY <1>1, <1>2, StUse, LockNames DEF Use, MayRead, MayWrite, Guard, Free
<1> QED BY <1>1, <1>2, <1>3, <1>4, <1>5, StSeq, StOpt DEF ArpQueueAdd

(* ArpQueueAdd (with no lock), with arp_queue held for writing: takes locks from     *)
(* write on.                                                                         *)
LEMMA ArpQueueAddBareKeeps ==
  ASSUME NEW A, Ctx(A, 15), Owns(A, "arp_queue")
  PROVE  Stable(A, ArpQueueAdd("bare"))
<1>1. A \in Holdings
  BY DEF Ctx
<1>2. Has(A, "arp_queue")
  BY OwnsHas
<1>3. Stable(A, Use({"arp_queue"}, {}))
  BY <1>1, <1>2, StUse, LockNames DEF Use, MayRead, MayWrite, Guard, Free
<1>4. Stable(A, SendArpRequest("bare"))
  BY <1>1, <1>2, SendArpRequestBareKeeps
<1>5. Stable(A, Use({}, {"arp_queue"}))
  BY <1>1, <1>2, StUse, LockNames DEF Use, MayRead, MayWrite, Guard, Free
<1> QED BY <1>1, <1>2, <1>3, <1>4, <1>5, StSeq, StOpt DEF ArpQueueAdd

(* SendIp, with arp_queue held for writing and arp_cache and if_list held: takes     *)
(* locks from write on.                                                              *)
LEMMA SendIpKeeps ==
  ASSUME NEW A, Ctx(A, 15), Owns(A, "arp_queue"), Has(A, "arp_cache"),
         Has(A, "if_list")
  PROVE  Stable(A, SendIp)
<1>1. A \in Holdings
  BY DEF Ctx
<1>2. Stable(A, Use({"arp_cache"}, {}))
  BY <1>1, StUse, LockNames DEF Use, MayRead, MayWrite, Guard, Free
<1>3. Stable(A, SendPacket)
  BY <1>1, SendPacketKeeps
<1>4. Stable(A, ArpQueueAdd("use"))
  BY <1>1, ArpQueueAddUseKeeps
<1> QED BY <1>1, <1>2, <1>3, <1>4, StSeq, StUnion DEF SendIp

(* The packet's four locks: m on the interfaces and n on the routing table.          *)
IpHeld(A, m, n) ==
  Plus(Plus(Plus(Plus(A, "arp_cache", "rd"), "arp_queue", "wr"), "if_list", m), "rtable", n)

(* LOCKs of the four: what is held on the way and in the end.                        *)
LEMMA IpHolds ==
  ASSUME NEW A, Ctx(A, 5), NEW m \in Modes, NEW n \in Modes
  PROVE  /\ Ctx(Plus(A, "arp_cache", "rd"), 6)
         /\ Ctx(Plus(Plus(A, "arp_cache", "rd"), "arp_queue", "wr"), 7)
         /\ Ctx(Plus(Plus(Plus(A, "arp_cache", "rd"), "arp_queue", "wr"), "if_list", m), 8)
         /\ IpHeld(A, m, n) \in Holdings /\ Ctx(IpHeld(A, m, n), 9)
         /\ Has(IpHeld(A, m, n), "arp_cache") /\ Has(IpHeld(A, m, n), "if_list")
         /\ Has(IpHeld(A, m, n), "rtable") /\ Owns(IpHeld(A, m, n), "arp_queue")
         /\ m = "wr" => Owns(IpHeld(A, m, n), "if_list")
<1> DEFINE B == Plus(A, "arp_cache", "rd")
           C == Plus(B, "arp_queue", "wr")
           D == Plus(C, "if_list", m)
           E == Plus(D, "rtable", n)
<1>1. /\ Rank["arp_cache"] = 5 /\ Rank["arp_queue"] = 6 /\ Rank["if_list"] = 7
      /\ Rank["rtable"] = 8
      /\ {"arp_cache", "arp_queue", "if_list", "rtable"} \subseteq Locks
  BY RankValues, LockNames
<1>2. Ctx(B, 6) /\ Has(B, "arp_cache")
  BY <1>1, EnterAt, Added, ModeNames
<1>b. B = Plus(A, "arp_cache", "rd")
  OBVIOUS
<1> HIDE DEF B
<1>3. Ctx(C, 7) /\ Has(C, "arp_cache") /\ Owns(C, "arp_queue")
  BY <1>1, <1>2, EnterAt, Added, ModeNames
<1>c. C = Plus(B, "arp_queue", "wr")
  OBVIOUS
<1> HIDE DEF C
<1>4. /\ Ctx(D, 8) /\ Has(D, "arp_cache") /\ Owns(D, "arp_queue") /\ Has(D, "if_list")
      /\ m = "wr" => Owns(D, "if_list")
  BY <1>1, <1>3, EnterAt, Added
<1>d. D = Plus(C, "if_list", m)
  OBVIOUS
<1> HIDE DEF D
<1>5. Ctx(E, 9) /\ E \in Holdings
  BY <1>1, <1>4, EnterAt
<1>6. /\ Has(E, "arp_cache") /\ Owns(E, "arp_queue") /\ Has(E, "if_list") /\ Has(E, "rtable")
      /\ m = "wr" => Owns(E, "if_list")
  BY <1>4, Added
<1>e. E = IpHeld(A, m, n)
  BY <1>b, <1>c, <1>d DEF IpHeld
<1> HIDE DEF E
<1>7. Ctx(Plus(A, "arp_cache", "rd"), 6)
  BY <1>2, <1>b
<1>8. Ctx(Plus(Plus(A, "arp_cache", "rd"), "arp_queue", "wr"), 7)
  BY <1>3, <1>b, <1>c
<1>9. Ctx(Plus(Plus(Plus(A, "arp_cache", "rd"), "arp_queue", "wr"), "if_list", m), 8)
  BY <1>4, <1>b, <1>c, <1>d
<1> QED BY <1>5, <1>6, <1>7, <1>8, <1>9, <1>e

(* The four locks are taken in order ...                                             *)
LEMMA LockIpKeeps ==
  ASSUME NEW A, Ctx(A, 5)
  PROVE  Keeps(A, LockIp, {IpHeld(A, "rd", "rd")})
<1> DEFINE B == Plus(A, "arp_cache", "rd")
           C == Plus(B, "arp_queue", "wr")
           D == Plus(C, "if_list", "rd")
           E == Plus(D, "rtable", "rd")
<1>1. /\ Rank["arp_cache"] = 5 /\ Rank["arp_queue"] = 6 /\ Rank["if_list"] = 7
      /\ Rank["rtable"] = 8
      /\ {"arp_cache", "arp_queue", "if_list", "rtable"} \subseteq Locks \ {"answer"}
  BY RankValues, LockNames
<1>2. Ctx(B, 6) /\ Ctx(C, 7) /\ Ctx(D, 8)
  BY IpHolds, ModeNames
<1>3. E = IpHeld(A, "rd", "rd")
  BY DEF IpHeld
<1>4. Keeps(A, Rd("arp_cache"), {B})
  BY <1>1, TakeRd
<1> HIDE DEF B
<1>5. Keeps(B, Wr("arp_queue"), {C})
  BY <1>1, <1>2, TakeWr
<1> HIDE DEF C
<1>6. Keeps(C, Rd("if_list"), {D})
  BY <1>1, <1>2, TakeRd
<1> HIDE DEF D
<1>7. Keeps(D, Rd("rtable"), {E})
  BY <1>1, <1>2, TakeRd
<1> HIDE DEF E
<1>8. Keeps(A, Rd("arp_cache") ++ Wr("arp_queue"), {C})
  BY <1>4, <1>5, Then
<1>9. Keeps(A, Rd("arp_cache") ++ Wr("arp_queue") ++ Rd("if_list"), {D})
  BY <1>6, <1>8, Then
<1>10. Keeps(A, Rd("arp_cache") ++ Wr("arp_queue") ++ Rd("if_list") ++ Rd("rtable"), {E})
  BY <1>7, <1>9, Then
<1> QED BY <1>3, <1>10 DEF LockIp

(* ... and given back, whatever the handler took the last two for in the meantime;   *)
(* one that passed over its own unlock calls gives back these all the same.          *)
LEMMA UnlockIpKeeps ==
  ASSUME NEW A, Ctx(A, 5), NEW m \in Modes, NEW n \in Modes
  PROVE  Keeps(IpHeld(A, m, n), UnlockIp, {A})
<1> DEFINE B == Plus(A, "arp_cache", "rd")
           C == Plus(B, "arp_queue", "wr")
           D == Plus(C, "if_list", m)
           E == Plus(D, "rtable", n)
<1>1. /\ Rank["arp_cache"] = 5 /\ Rank["arp_queue"] = 6 /\ Rank["if_list"] = 7
      /\ Rank["rtable"] = 8
      /\ {"arp_cache", "arp_queue", "if_list", "rtable"} \subseteq Locks \ {"answer"}
  BY RankValues, LockNames
<1>2. Ctx(B, 6) /\ Ctx(C, 7) /\ Ctx(D, 8)
  BY IpHolds
<1>3. E = IpHeld(A, m, n)
  BY DEF IpHeld
<1>4. Keeps(B, Rel("arp_cache"), {A})
  BY <1>1, Drop, ModeNames
<1> HIDE DEF B
<1>5. Keeps(C, Rel("arp_queue"), {B})
  BY <1>1, <1>2, Drop, ModeNames
<1> HIDE DEF C
<1>6. Keeps(D, Rel("if_list"), {C})
  BY <1>1, <1>2, Drop
<1> HIDE DEF D
<1>7. Keeps(E, Rel("rtable"), {D})
  BY <1>1, <1>2, Drop
<1> HIDE DEF E
<1>8. Keeps(E, Rel("rtable") ++ Rel("if_list"), {C})
  BY <1>6, <1>7, Then
<1>9. Keeps(E, Rel("rtable") ++ Rel("if_list") ++ Rel("arp_queue"), {B})
  BY <1>5, <1>8, Then
<1>10. Keeps(E, Rel("rtable") ++ Rel("if_list") ++ Rel("arp_queue") ++ Rel("arp_cache"), {A})
  BY <1>4, <1>9, Then
<1> QED BY <1>3, <1>10 DEF UnlockIp

(* The four unlock calls of a thread that passed over others.                        *)
LEMMA UnlockIpAstray ==
  ASSUME NEW B \in Astray
  PROVE  Keeps(B, UnlockIp, Astray)
<1>1. {"arp_cache", "arp_queue", "if_list", "rtable"} \subseteq Locks \ {"answer"}
  BY LockNames
<1>2. Keeps(B, Rel("rtable"), Astray)
  BY <1>1, RelAstray
<1>3. \A C \in Astray : /\ Keeps(C, Rel("if_list"), Astray)
                        /\ Keeps(C, Rel("arp_queue"), Astray)
                        /\ Keeps(C, Rel("arp_cache"), Astray)
  BY <1>1, RelAstray
<1>4. Keeps(B, Rel("rtable") ++ Rel("if_list"), Astray)
  BY <1>2, <1>3, SeqKeeps
<1>5. Keeps(B, Rel("rtable") ++ Rel("if_list") ++ Rel("arp_queue"), Astray)
  BY <1>3, <1>4, SeqKeeps
<1>6. Keeps(B, Rel("rtable") ++ Rel("if_list") ++ Rel("arp_queue") ++ Rel("arp_cache"), Astray)
  BY <1>3, <1>5, SeqKeeps
<1> QED BY <1>6 DEF UnlockIp

(* GetNextHop, with rtable held: takes no lock.                                      *)
LEMMA GetNextHopKeeps ==
  ASSUME NEW A, Ctx(A, 18), Has(A, "rtable")
  PROVE  Stable(A, GetNextHop)
BY OwnsHas, StUse, LockNames DEF Ctx, GetNextHop, Use, MayRead, MayWrite, Guard, Free

(* send_ip_packet: without a route it returns with the four locks held.              *)
LEMMA SendIpPacketKeeps ==
  ASSUME NEW A, Ctx(A, 5)
  PROVE  Keeps(A, SendIpPacket, {A} \cup Astray)
<1> DEFINE E == IpHeld(A, "rd", "rd")
<1>1. /\ E \in Holdings /\ Ctx(E, 9) /\ Has(E, "arp_cache") /\ Has(E, "if_list")
      /\ Has(E, "rtable") /\ Owns(E, "arp_queue")
  BY IpHolds, ModeNames
<1>2. Keeps(A, LockIp, {E}) /\ Keeps(E, UnlockIp, {A})
  BY LockIpKeeps, UnlockIpKeeps, ModeNames
<1> HIDE DEF E
<1>3. Ctx(E, 15)
  BY <1>1, CtxMore
<1>4. Stable(E, GetNextHop)
  BY <1>1, <1>3, GetNextHopKeeps, CtxMore
<1>5. Stable(E, Use({"if_list"}, {}))
  BY <1>1, StUse, LockNames DEF Use, MayRead, MayWrite, Guard, Free
<1>6. Stable(E, SendIp)
  BY <1>1, <1>3, SendIpKeeps
<1>7. Stable(E, Use({"if_list"}, {}) ++ SendIp)
  BY <1>5, <1>6, StSeq
<1>8. Keeps(E, Use({"if_list"}, {}) ++ SendIp ++ UnlockIp, {A})
  BY <1>2, <1>7, Then DEF Stable
<1>9. Keeps(E, (Use({"if_list"}, {}) ++ SendIp ++ UnlockIp) \cup Leak, {A} \cup Astray)
  BY <1>1, <1>8, LeakLeads, Weaken, UnionKeeps
<1>10. Keeps(A, LockIp ++ GetNextHop, {E})
  BY <1>2, <1>4, Then DEF Stable
<1> QED BY <1>9, <1>10, Then DEF SendIpPacket

(* SendIcmpPacket, with arp_queue held for writing and arp_cache and if_list and     *)
(* rtable held: takes locks from write on.                                           *)
LEMMA SendIcmpPacketKeeps ==
  ASSUME NEW A, Ctx(A, 15), Owns(A, "arp_queue"), Has(A, "arp_cache"),
         Has(A, "if_list"), Has(A, "rtable")
  PROVE  Stable(A, SendIcmpPacket)
<1>1. A \in Holdings /\ Ctx(A, 18)
  BY CtxMore DEF Ctx
<1>2. Stable(A, GetNextHop)
  BY <1>1, GetNextHopKeeps
<1>3. Stable(A, Use({"if_list"}, {}))
  BY <1>1, StUse, LockNames DEF Use, MayRead, MayWrite, Guard, Free
<1>4. Stable(A, SendIp)
  BY <1>1, SendIpKeeps
<1> QED BY <1>1, <1>2, <1>3, <1>4, StSeq, StOpt DEF SendIcmpPacket

(* ProcessIcmpEchoReply: takes locks from sping_queue on.                            *)
LEMMA ProcessIcmpEchoReplyKeeps ==
  ASSUME NEW A, Ctx(A, 11)
  PROVE  Stable(A, ProcessIcmpEchoReply)
<1> DEFINE B == Plus(A, "sping_queue", "wr")
<1>1. Rank["sping_queue"] = 11 /\ {"sping_queue"} \subseteq Locks
  BY RankValues, LockNames
<1>2. A \in Holdings
  BY DEF Ctx
<1>3. B \in Holdings /\ Ctx(B, 12)
  BY <1>1, <1>2, EnterAt, ModeNames
<1>4. Owns(B, "sping_queue")
  BY <1>2, Added, OwnsHas, ModeNames
<1> HIDE DEF B
<1>5. Stable(B, Use({}, {"sping_queue"}))
  BY <1>3, <1>4, StUse, LockNames DEF Use, MayRead, MayWrite, Guard, Free
<1>6. Stable(A, Writing("sping_queue", Use({}, {"sping_queue"})))
  BY <1>2, <1>5, CtxWriting, RankValues, LockNames DEF B
<1> QED BY <1>2, <1>6 DEF ProcessIcmpEchoReply

(* ProcessIcmpPacket, with arp_queue held for writing and arp_cache and if_list and  *)
(* rtable held: takes locks from sping_queue on.                                     *)
LEMMA ProcessIcmpPacketKeeps ==
  ASSUME NEW A, Ctx(A, 11), Owns(A, "arp_queue"), Has(A, "arp_cache"),
         Has(A, "if_list"), Has(A, "rtable")
  PROVE  Stable(A, ProcessIcmpPacket)
<1>1. A \in Holdings /\ Ctx(A, 15)
  BY CtxMore DEF Ctx
<1>2. Stable(A, SendIcmpPacket)
  BY <1>1, SendIcmpPacketKeeps
<1>3. Stable(A, ProcessIcmpEchoReply)
  BY <1>1, ProcessIcmpEchoReplyKeeps
<1>4. Stable(A, Skip)
  BY <1>1, SkipStable
<1> QED BY <1>1, <1>2, <1>3, <1>4, StUnion DEF ProcessIcmpPacket

(* MboxPost: takes locks from mbox on.                                               *)
LEMMA MboxPostKeeps ==
  ASSUME NEW A, Ctx(A, 17)
  PROVE  Stable(A, MboxPost)
<1> DEFINE B == Plus(A, "mbox", "wr")
<1>1. Rank["mbox"] = 17 /\ {"mbox"} \subseteq Locks
  BY RankValues, LockNames
<1>2. A \in Holdings
  BY DEF Ctx
<1>3. B \in Holdings /\ Ctx(B, 18)
  BY <1>1, <1>2, EnterAt, ModeNames
<1>4. Owns(B, "mbox")
  BY <1>2, Added, OwnsHas, ModeNames
<1> HIDE DEF B
<1>5. Stable(B, Use({}, {"mbox"}))
  BY <1>3, <1>4, StUse, LockNames DEF Use, MayRead, MayWrite, Guard, Free
<1>6. Stable(A, Writing("mbox", Use({}, {"mbox"})))
  BY <1>2, <1>5, CtxWriting, RankValues, LockNames DEF B
<1> QED BY <1>2, <1>6 DEF MboxPost

(* SrTransportInput: takes locks from mbox on.                                       *)
LEMMA SrTransportInputKeeps ==
  ASSUME NEW A, Ctx(A, 17)
  PROVE  Stable(A, SrTransportInput)
BY MboxPostKeeps DEF SrTransportInput

(* BroadcastLsu (its lock held), with if_list held: takes locks from lsu_queue on.   *)
LEMMA BroadcastLsuUseKeeps ==
  ASSUME NEW A, Ctx(A, 10), Has(A, "if_list")
  PROVE  Stable(A, BroadcastLsu("use"))
<1> DEFINE B == Plus(A, "lsu_queue", "wr")
<1>1. Rank["lsu_queue"] = 10 /\ {"lsu_queue"} \subseteq Locks
  BY RankValues, LockNames
<1>2. A \in Holdings
  BY DEF Ctx
<1>3. B \in Holdings /\ Ctx(B, 11)
  BY <1>1, <1>2, EnterAt, ModeNames
<1>4. Owns(B, "lsu_queue")
  BY <1>2, Added, OwnsHas, ModeNames
<1> HIDE DEF B
<1>5. Stable(A, Do("use", "answer", {"if_list"}, {}))
  BY <1>2, StUse, LockNames DEF MayRead, MayWrite, Guard, Free
<1>6. Stable(B, Use({}, {"lsu_queue"}))
  BY <1>3, <1>4, StUse, LockNames DEF Use, MayRead, MayWrite, Guard, Free
<1>7. Stable(A, Writing("lsu_queue", Use({}, {"lsu_queue"})))
  BY <1>2, <1>6, CtxWriting, RankValues, LockNames DEF B
<1> QED BY <1>2, <1>5, <1>7, StSeq, StOpt DEF BroadcastLsu

(* BroadcastLsu (with no lock): takes locks from lsu_queue on.                       *)
LEMMA BroadcastLsuBareKeeps ==
  ASSUME NEW A, Ctx(A, 10)
  PROVE  Stable(A, BroadcastLsu("bare"))
<1> DEFINE B == Plus(A, "lsu_queue", "wr")
<1>1. Rank["lsu_queue"] = 10 /\ {"lsu_queue"} \subseteq Locks
  BY RankValues, LockNames
<1>2. A \in Holdings
  BY DEF Ctx
<1>3. B \in Holdings /\ Ctx(B, 11)
  BY <1>1, <1>2, EnterAt, ModeNames
<1>4. Owns(B, "lsu_queue")
  BY <1>2, Added, OwnsHas, ModeNames
<1> HIDE DEF B
<1>5. Stable(A, Do("bare", "answer", {"if_list"}, {}))
  BY <1>2, StBare, LockNames
<1>6. Stable(B, Use({}, {"lsu_queue"}))
  BY <1>3, <1>4, StUse, LockNames DEF Use, MayRead, MayWrite, Guard, Free
<1>7. Stable(A, Writing("lsu_queue", Use({}, {"lsu_queue"})))
  BY <1>2, <1>6, CtxWriting, RankValues, LockNames DEF B
<1> QED BY <1>2, <1>5, <1>7, StSeq, StOpt DEF BroadcastLsu

(* StartLsuBcastFlood (its lock held), with router_list held for writing and         *)
(* if_list held: takes locks from lsu_queue on.                                      *)
LEMMA StartLsuBcastFloodUseKeeps ==
  ASSUME NEW A, Ctx(A, 10), Owns(A, "router_list"), Has(A, "if_list")
  PROVE  Stable(A, StartLsuBcastFlood("use"))
<1>1. A \in Holdings
  BY DEF Ctx
<1>2. Has(A, "router_list")
  BY OwnsHas
<1>3. Stable(A, Use({"router_list"}, {}))
  BY <1>1, <1>2, StUse, LockNames DEF Use, MayRead, MayWrite, Guard, Free
<1>4. Stable(A, BroadcastLsu("use"))
  BY <1>1, <1>2, BroadcastLsuUseKeeps
<1>5. Stable(A, Use({}, {"router_list"}))
  BY <1>1, <1>2, StUse, LockNames DEF Use, MayRead, MayWrite, Guard, Free
<1> QED BY <1>1, <1>2, <1>3, <1>4, <1>5, StOpt, StSeq DEF StartLsuBcastFlood

(* StartLsuBcastFlood (with no lock), with router_list held for writing: takes       *)
(* locks from lsu_queue on.                                                          *)
LEMMA StartLsuBcastFloodBareKeeps ==
  ASSUME NEW A, Ctx(A, 10), Owns(A, "router_list")
  PROVE  Stable(A, StartLsuBcastFlood("bare"))
<1>1. A \in Holdings
  BY DEF Ctx
<1>2. Has(A, "router_list")
  BY OwnsHas
<1>3. Stable(A, Use({"router_list"}, {}))
  BY <1>1, <1>2, StUse, LockNames DEF Use, MayRead, MayWrite, Guard, Free
<1>4. Stable(A, BroadcastLsu("bare"))
  BY <1>1, <1>2, BroadcastLsuBareKeeps
<1>5. Stable(A, Use({}, {"router_list"}))
  BY <1>1, <1>2, StUse, LockNames DEF Use, MayRead, MayWrite, Guard, Free
<1> QED BY <1>1, <1>2, <1>3, <1>4, <1>5, StOpt, StSeq DEF StartLsuBcastFlood

(* PropagatePwospfChanges (its lock held), with router_list held for writing and     *)
(* if_list held: takes locks from lsu_queue on.                                      *)
LEMMA PropagatePwospfChangesUseKeeps ==
  ASSUME NEW A, Ctx(A, 10), Owns(A, "router_list"), Has(A, "if_list")
  PROVE  Stable(A, PropagatePwospfChanges("use"))
<1>1. A \in Holdings
  BY DEF Ctx
<1>2. Stable(A, Use({}, {"router_list"}))
  BY <1>1, StUse, LockNames DEF Use, MayRead, MayWrite, Guard, Free
<1>3. Stable(A, StartLsuBcastFlood("use"))
  BY <1>1, StartLsuBcastFloodUseKeeps
<1> QED BY <1>1, <1>2, <1>3, StSeq DEF PropagatePwospfChanges

(* PropagatePwospfChanges (with no lock), with router_list held for writing: takes   *)
(* locks from lsu_queue on.                                                          *)
LEMMA PropagatePwospfChangesBareKeeps ==
  ASSUME NEW A, Ctx(A, 10), Owns(A, "router_list")
  PROVE  Stable(A, PropagatePwospfChanges("bare"))
<1>1. A \in Holdings
  BY DEF Ctx
<1>2. Stable(A, Use({}, {"router_list"}))
  BY <1>1, StUse, LockNames DEF Use, MayRead, MayWrite, Guard, Free
<1>3. Stable(A, StartLsuBcastFlood("bare"))
  BY <1>1, StartLsuBcastFloodBareKeeps
<1> QED BY <1>1, <1>2, <1>3, StSeq DEF PropagatePwospfChanges

(* A hello: the last two of the four locks are given up, and taken again with the    *)
(* interfaces for writing.                                                           *)
LEMMA ProcessHelloKeeps ==
  ASSUME NEW A, Ctx(A, 5)
  PROVE  Keeps(IpHeld(A, "rd", "rd"), ProcessHello, {IpHeld(A, "wr", "rd")} \cup Astray)
<1> DEFINE C == Plus(Plus(A, "arp_cache", "rd"), "arp_queue", "wr")
           D == Plus(C, "if_list", "rd")
           E == Plus(D, "rtable", "rd")
           F == Plus(C, "if_list", "wr")
           G == Plus(F, "rtable", "rd")
           H == Plus(G, "router_list", "wr")
<1>1. /\ Rank["if_list"] = 7 /\ Rank["rtable"] = 8 /\ Rank["router_list"] = 9
      /\ {"if_list", "rtable", "router_list"} \subseteq Locks \ {"answer"}
  BY RankValues, LockNames
<1>2. Ctx(C, 7) /\ Ctx(D, 8) /\ Ctx(F, 8) /\ Ctx(G, 9) /\ Owns(G, "if_list")
  BY IpHolds, ModeNames DEF IpHeld
<1>3. E = IpHeld(A, "rd", "rd") /\ G = IpHeld(A, "wr", "rd")
  BY DEF IpHeld
<1> HIDE DEF C
<1>4. Keeps(D, Rel("if_list"), {C}) /\ Keeps(C, Wr("if_list"), {F})
  BY <1>1, <1>2, TakeWr, Drop, ModeNames
<1> HIDE DEF D, F
<1>5. Keeps(E, Rel("rtable"), {D}) /\ Keeps(F, Rd("rtable"), {G})
  BY <1>1, <1>2, TakeRd, Drop, ModeNames
<1> HIDE DEF E, G
<1>6. Keeps(G, Wr("router_list"), {H}) /\ Keeps(H, Rel("router_list"), {G})
  BY <1>1, <1>2, TakeWr, Drop, ModeNames
<1>7. H \in Holdings /\ Ctx(H, 10)
  BY <1>1, <1>2, EnterAt, ModeNames
<1>8. Owns(H, "if_list") /\ Owns(H, "router_list") /\ Has(H, "if_list")
  BY <1>2, Added, OwnsHas, ModeNames
<1> HIDE DEF H
<1>9. Stable(H, Use({}, {"if_list", "router_list"})) /\ Stable(H, Use({"if_list"}, {}))
  BY <1>7, <1>8, StUse, LockNames DEF Use, MayRead, MayWrite, Guard, Free
<1>10. Stable(H, Opt(PropagatePwospfChanges("use")))
  BY <1>7, <1>8, OwnsHas, PropagatePwospfChangesUseKeeps, StOpt
<1>11. Keeps(H, Use({}, {"if_list", "router_list"}) ++ Opt(PropagatePwospfChanges("use")), {H})
  BY <1>9, <1>10, StSeq DEF Stable
<1>12. Keeps(H, Use({}, {"if_list", "router_list"}) ++ Opt(PropagatePwospfChanges("use"))
                 ++ Rel("router_list"), {G})
  BY <1>6, <1>11, Then
<1>13. Keeps(H, Use({"if_list"}, {}) ++ Leak, Astray)
  BY <1>7, <1>9, LeakLeads, Then DEF Stable
<1>14. Keeps(H, (Use({}, {"if_list", "router_list"}) ++ Opt(PropagatePwospfChanges("use"))
                  ++ Rel("router_list"))
                \cup (Use({"if_list"}, {}) ++ Leak), {G} \cup Astray)
  BY <1>12, <1>13, Weaken, UnionKeeps
<1>15. Keeps(E, Rel("rtable") ++ Rel("if_list"), {C})
  BY <1>4, <1>5, Then
<1>16. Keeps(E, Rel("rtable") ++ Rel("if_list") ++ Wr("if_list"), {F})
  BY <1>4, <1>15, Then
<1>17. Keeps(E, Rel("rtable") ++ Rel("if_list") ++ Wr("if_list") ++ Rd("rtable"), {G})
  BY <1>5, <1>16, Then
<1>18. Keeps(E, Rel("rtable") ++ Rel("if_list") ++ Wr("if_list") ++ Rd("rtable")
                 ++ Wr("router_list"), {H})
  BY <1>6, <1>17, Then
<1>19. Keeps(E, ProcessHello, {G} \cup Astray)
  BY <1>14, <1>18, Then DEF ProcessHello
<1> QED BY <1>3, <1>19

(* An LSU: the routing table's lock is given up, and taken again for writing.        *)
LEMMA ProcessLsuKeeps ==
  ASSUME NEW A, Ctx(A, 5)
  PROVE  Keeps(IpHeld(A, "rd", "rd"), ProcessLsu, {IpHeld(A, "rd", "wr")})
<1> DEFINE D == Plus(Plus(Plus(A, "arp_cache", "rd"), "arp_queue", "wr"), "if_list", "rd")
           E == Plus(D, "rtable", "rd")
           G == Plus(D, "rtable", "wr")
           H == Plus(G, "router_list", "wr")
<1>1. /\ Rank["rtable"] = 8 /\ Rank["router_list"] = 9
      /\ {"rtable", "router_list"} \subseteq Locks \ {"answer"}
  BY RankValues, LockNames
<1>2. Ctx(D, 8) /\ Ctx(G, 9) /\ Has(G, "if_list")
  BY IpHolds, ModeNames DEF IpHeld
<1>3. E = IpHeld(A, "rd", "rd") /\ G = IpHeld(A, "rd", "wr")
  BY DEF IpHeld
<1> HIDE DEF D
<1>4. Keeps(E, Rel("rtable"), {D}) /\ Keeps(D, Wr("rtable"), {G})
  BY <1>1, <1>2, TakeWr, Drop, ModeNames
<1> HIDE DEF E, G
<1>5. Keeps(G, Wr("router_list"), {H}) /\ Keeps(H, Rel("router_list"), {G})
  BY <1>1, <1>2, TakeWr, Drop, ModeNames
<1>6. H \in Holdings /\ Ctx(H, 10)
  BY <1>1, <1>2, EnterAt, ModeNames
<1>7. Owns(H, "router_list") /\ Has(H, "if_list")
  BY <1>2, Added, ModeNames
<1> HIDE DEF H
<1>8. Stable(H, Use({}, {"router_list"}))
  BY <1>6, <1>7, StUse, LockNames DEF Use, MayRead, MayWrite, Guard, Free
<1>9. Stable(H, Opt(BroadcastLsu("use")))
  BY <1>6, <1>7, BroadcastLsuUseKeeps, StOpt
<1>10. Stable(H, Opt(PropagatePwospfChanges("use")))
  BY <1>6, <1>7, OwnsHas, PropagatePwospfChangesUseKeeps, StOpt
<1>11. Keeps(E, Rel("rtable") ++ Wr("rtable"), {G})
  BY <1>4, Then
<1>12. Keeps(E, Rel("rtable") ++ Wr("rtable") ++ Wr("router_list"), {H})
  BY <1>5, <1>11, Then
<1>13. Keeps(E, Rel("rtable") ++ Wr("rtable") ++ Wr("router_list") ++ Use({}, {"router_list"}),
             {H})
  BY <1>8, <1>12, Then DEF Stable
<1>14. Keeps(E, Rel("rtable") ++ Wr("rtable") ++ Wr("router_list") ++ Use({}, {"router_list"})
                 ++ Opt(BroadcastLsu("use")), {H})
  BY <1>9, <1>13, Then DEF Stable
<1>15. Keeps(E, Rel("rtable") ++ Wr("rtable") ++ Wr("router_list") ++ Use({}, {"router_list"})
                 ++ Opt(BroadcastLsu("use")) ++ Opt(PropagatePwospfChanges("use")), {H})
  BY <1>10, <1>14, Then DEF Stable
<1>16. Keeps(E, ProcessLsu, {G})
  BY <1>5, <1>15, Then DEF ProcessLsu
<1> QED BY <1>3, <1>16

(* DetermineTimedoutInterface, with if_list held for writing: takes locks from       *)
(* router_list on.                                                                   *)
LEMMA DetermineTimedoutInterfaceKeeps ==
  ASSUME NEW A, Ctx(A, 9), Owns(A, "if_list")
  PROVE  Stable(A, DetermineTimedoutInterface)
<1> DEFINE B == Plus(A, "router_list", "wr")
<1>1. Rank["router_list"] = 9 /\ {"router_list"} \subseteq Locks
  BY RankValues, LockNames
<1>2. A \in Holdings
  BY DEF Ctx
<1>3. B \in Holdings /\ Ctx(B, 10)
  BY <1>1, <1>2, EnterAt, ModeNames
<1>4. Owns(B, "if_list") /\ Owns(B, "router_list")
  BY <1>2, Added, OwnsHas, ModeNames
<1> HIDE DEF B
<1>5. Stable(B, Use({}, {"if_list", "router_list"}))
  BY <1>3, <1>4, StUse, LockNames DEF Use, MayRead, MayWrite, Guard, Free
<1>6. Stable(A, Writing("router_list", Use({}, {"if_list", "router_list"})))
  BY <1>2, <1>5, CtxWriting, RankValues, LockNames DEF B
<1> QED BY <1>2, <1>6 DEF DetermineTimedoutInterface

(* BroadcastHello, with if_list held for writing: takes locks from router_list on.   *)
LEMMA BroadcastHelloKeeps ==
  ASSUME NEW A, Ctx(A, 9), Owns(A, "if_list")
  PROVE  Stable(A, BroadcastHello)
<1> DEFINE B == Plus(A, "router_list", "wr")
<1>1. Rank["router_list"] = 9 /\ {"router_list"} \subseteq Locks
  BY RankValues, LockNames
<1>2. A \in Holdings /\ Ctx(A, 15)
  BY CtxMore DEF Ctx
<1>3. Has(A, "if_list")
  BY OwnsHas
<1>4. B \in Holdings /\ Ctx(B, 10)
  BY <1>1, <1>2, <1>3, EnterAt, ModeNames
<1>5. Owns(B, "router_list") /\ Has(B, "if_list")
  BY <1>2, <1>3, Added, OwnsHas, ModeNames
<1> HIDE DEF B
<1>6. Stable(A, Use({"if_list"}, {}))
  BY <1>2, <1>3, StUse, LockNames DEF Use, MayRead, MayWrite, Guard, Free
<1>7. Stable(A, SendPacket)
  BY <1>2, <1>3, SendPacketKeeps
<1>8. Stable(A, Use({}, {"if_list"}))
  BY <1>2, <1>3, StUse, LockNames DEF Use, MayRead, MayWrite, Guard, Free
<1>9. Stable(A, DetermineTimedoutInterface)
  BY <1>2, <1>3, DetermineTimedoutInterfaceKeeps
<1>10. Stable(B, PropagatePwospfChanges("use"))
  BY <1>4, <1>5, PropagatePwospfChangesUseKeeps
<1>11. Stable(A, Writing("router_list", PropagatePwospfChanges("use")))
  BY <1>2, <1>3, <1>10, CtxWriting, RankValues, LockNames DEF B
<1> QED BY <1>2, <1>3, <1>6, <1>7, <1>8, <1>9, <1>11, StSeq, StOpt DEF BroadcastHello

(* PwospfHelloThread: takes locks from if_list on.                                   *)
LEMMA PwospfHelloThreadKeeps ==
  ASSUME NEW A, Ctx(A, 7)
  PROVE  Stable(A, PwospfHelloThread)
<1> DEFINE B == Plus(A, "if_list", "wr")
<1>1. Rank["if_list"] = 7 /\ {"if_list"} \subseteq Locks
  BY RankValues, LockNames
<1>2. A \in Holdings
  BY DEF Ctx
<1>3. B \in Holdings /\ Ctx(B, 8) /\ Ctx(B, 9)
  BY <1>1, <1>2, EnterAt, ModeNames
<1>4. Owns(B, "if_list")
  BY <1>2, Added, OwnsHas, ModeNames
<1> HIDE DEF B
<1>5. Stable(B, BroadcastHello)
  BY <1>3, <1>4, BroadcastHelloKeeps
<1>6. Stable(A, Writing("if_list", BroadcastHello))
  BY <1>2, <1>5, CtxWriting, RankValues, LockNames DEF B
<1> QED BY <1>2, <1>6 DEF PwospfHelloThread

(* FloodUnderRouterList: takes locks from router_list on.                            *)
LEMMA FloodUnderRouterListKeeps ==
  ASSUME NEW A, Ctx(A, 9)
  PROVE  Stable(A, FloodUnderRouterList)
<1> DEFINE B == Plus(A, "router_list", "wr")
<1>1. Rank["router_list"] = 9 /\ {"router_list"} \subseteq Locks
  BY RankValues, LockNames
<1>2. A \in Holdings
  BY DEF Ctx
<1>3. B \in Holdings /\ Ctx(B, 10)
  BY <1>1, <1>2, EnterAt, ModeNames
<1>4. Owns(B, "router_list")
  BY <1>2, Added, OwnsHas, ModeNames
<1> HIDE DEF B
<1>5. Stable(B, StartLsuBcastFlood("bare"))
  BY <1>3, <1>4, StartLsuBcastFloodBareKeeps
<1>6. Stable(A, Writing("router_list", StartLsuBcastFlood("bare")))
  BY <1>2, <1>5, CtxWriting, RankValues, LockNames DEF B
<1> QED BY <1>2, <1>6 DEF FloodUnderRouterList

(* PwospfLsuThread: takes locks from router_list on.                                 *)
LEMMA PwospfLsuThreadKeeps ==
  ASSUME NEW A, Ctx(A, 9)
  PROVE  Stable(A, PwospfLsuThread)
<1> DEFINE B == Plus(A, "router_list", "wr")
<1>1. Rank["router_list"] = 9 /\ {"router_list"} \subseteq Locks
  BY RankValues, LockNames
<1>2. A \in Holdings
  BY DEF Ctx
<1>3. B \in Holdings /\ Ctx(B, 10)
  BY <1>1, <1>2, EnterAt, ModeNames
<1>4. Has(B, "router_list")
  BY <1>2, Added, OwnsHas, ModeNames
<1> HIDE DEF B
<1>5. Stable(B, Use({"router_list"}, {}))
  BY <1>3, <1>4, StUse, LockNames DEF Use, MayRead, MayWrite, Guard, Free
<1>6. Stable(A, Writing("router_list", Use({"router_list"}, {})))
  BY <1>2, <1>5, CtxWriting, RankValues, LockNames DEF B
<1>7. Stable(A, Bare({"router_list"}, {}))
  BY <1>2, StBare, LockNames DEF Bare
<1>8. Stable(A, FloodUnderRouterList)
  BY <1>2, FloodUnderRouterListKeeps
<1> QED BY <1>2, <1>6, <1>7, <1>8, StSeq, StOpt DEF PwospfLsuThread

(* PwospfLsuTimeoutThread: takes locks from router_list on.                          *)
LEMMA PwospfLsuTimeoutThreadKeeps ==
  ASSUME NEW A, Ctx(A, 9)
  PROVE  Stable(A, PwospfLsuTimeoutThread)
<1> DEFINE B == Plus(A, "router_list", "wr")
<1>1. Rank["router_list"] = 9 /\ {"router_list"} \subseteq Locks
  BY RankValues, LockNames
<1>2. A \in Holdings
  BY DEF Ctx
<1>3. B \in Holdings /\ Ctx(B, 10)
  BY <1>1, <1>2, EnterAt, ModeNames
<1>4. Owns(B, "router_list") /\ Has(B, "router_list")
  BY <1>2, Added, OwnsHas, ModeNames
<1> HIDE DEF B
<1>5. Stable(B, Use({"router_list"}, {}))
  BY <1>3, <1>4, StUse, LockNames DEF Use, MayRead, MayWrite, Guard, Free
<1>6. Stable(B, Use({}, {"router_list"}))
  BY <1>3, <1>4, StUse, LockNames DEF Use, MayRead, MayWrite, Guard, Free
<1>7. Stable(B, PropagatePwospfChanges("bare"))
  BY <1>3, <1>4, PropagatePwospfChangesBareKeeps
<1>8. Stable(B, Use({"router_list"}, {}) ++ Opt(Use({}, {"router_list"})
        ++ PropagatePwospfChanges("bare")))
  BY <1>3, <1>4, <1>5, <1>6, <1>7, StSeq, StOpt
<1>9. Stable(A, Writing("router_list", Use({"router_list"}, {})
        ++ Opt(Use({}, {"router_list"}) ++ PropagatePwospfChanges("bare"))))
  BY <1>2, <1>8, CtxWriting, RankValues, LockNames DEF B
<1> QED BY <1>2, <1>9 DEF PwospfLsuTimeoutThread

(* The LSU thread waits on its condition and sends under its own lock and the four.  *)
LEMMA PwospfLsuBcastThreadKeeps ==
  ASSUME NEW A, Ctx(A, 3)
  PROVE  Stable(A, PwospfLsuBcastThread)
<1> DEFINE B == Plus(A, "lsu_bcast", "wr")
           E == IpHeld(B, "rd", "rd")
           L == Writing("lsu_queue", Use({}, {"lsu_queue"}))
           S == Opt(GetNextHop ++ Opt(SendIp))
<1>1. /\ Rank["lsu_bcast"] = 3 /\ Rank["lsu_queue"] = 10
      /\ {"lsu_bcast", "lsu_queue"} \subseteq Locks \ {"answer"}
  BY RankValues, LockNames
<1>2. B \in Holdings /\ Ctx(B, 4) /\ Ctx(B, 5) /\ Ctx(B, 10)
  BY <1>1, EnterAt, ModeNames
<1>3. /\ Keeps(A, Wr("lsu_bcast") ++ Rel("lsu_bcast"), {A})
      /\ Keeps(A, Wr("lsu_bcast"), {B}) /\ Keeps(B, Rel("lsu_bcast"), {A})
  BY <1>1, TakeWr, Drop, TakeAgain, ModeNames DEF Stable
<1> HIDE DEF B
<1>4. Stable(B, L)
  <2> DEFINE F == Plus(B, "lsu_queue", "wr")
  <2>1. F \in Holdings /\ Owns(F, "lsu_queue")
    BY <1>1, <1>2, EnterAt, Added, ModeNames
  <2> HIDE DEF F
  <2>2. Stable(F, Use({}, {"lsu_queue"}))
    BY <2>1, StUse, LockNames DEF Use, MayRead, MayWrite, Guard, Free
  <2> QED BY <1>1, <1>2, <2>2, CtxWriting DEF F
<1>5. /\ E \in Holdings /\ Ctx(E, 9) /\ Has(E, "arp_cache") /\ Has(E, "if_list")
      /\ Has(E, "rtable") /\ Owns(E, "arp_queue")
  BY <1>2, IpHolds, ModeNames
<1>6. Keeps(B, LockIp, {E}) /\ Keeps(E, UnlockIp, {B})
  BY <1>2, LockIpKeeps, UnlockIpKeeps, ModeNames
<1> HIDE DEF E
<1>7. Ctx(E, 15) /\ Ctx(E, 18)
  BY <1>5, CtxMore
<1>8. Stable(E, GetNextHop) /\ Stable(E, SendIp)
  BY <1>5, <1>7, GetNextHopKeeps, SendIpKeeps
<1>9. Stable(E, S)
  BY <1>5, <1>8, StSeq, StOpt
<1> HIDE DEF L, S
<1>10. Keeps(A, Wr("lsu_bcast") ++ Rel("lsu_bcast") ++ Wr("lsu_bcast"), {B})
  BY <1>3, Then
<1>11. Keeps(A, Wr("lsu_bcast") ++ Rel("lsu_bcast") ++ Wr("lsu_bcast") ++ L, {B})
  BY <1>4, <1>10, Then DEF Stable
<1>12. Keeps(A, Wr("lsu_bcast") ++ Rel("lsu_bcast") ++ Wr("lsu_bcast") ++ L ++ LockIp, {E})
  BY <1>6, <1>11, Then
<1>13. Keeps(A, Wr("lsu_bcast") ++ Rel("lsu_bcast") ++ Wr("lsu_bcast") ++ L ++ LockIp ++ S, {E})
  BY <1>9, <1>12, Then DEF Stable
<1>14. Keeps(A, Wr("lsu_bcast") ++ Rel("lsu_bcast") ++ Wr("lsu_bcast") ++ L ++ LockIp ++ S
                 ++ UnlockIp, {B})
  BY <1>6, <1>13, Then
<1>15. Keeps(A, Wr("lsu_bcast") ++ Rel("lsu_bcast") ++ Wr("lsu_bcast") ++ L ++ LockIp ++ S
                 ++ UnlockIp ++ Rel("lsu_bcast"), {A})
  BY <1>3, <1>14, Then
<1> QED BY <1>15 DEF PwospfLsuBcastThread, Stable, L, S

(* Forward, with arp_queue held for writing and arp_cache and if_list and rtable     *)
(* held: takes locks from write on.                                                  *)
LEMMA ForwardKeeps ==
  ASSUME NEW A, Ctx(A, 15), Owns(A, "arp_queue"), Has(A, "arp_cache"),
         Has(A, "if_list"), Has(A, "rtable")
  PROVE  Stable(A, Forward)
<1>1. A \in Holdings /\ Ctx(A, 18)
  BY CtxMore DEF Ctx
<1>2. Stable(A, GetNextHop)
  BY <1>1, GetNextHopKeeps
<1>3. Stable(A, SendIcmpPacket)
  BY <1>1, SendIcmpPacketKeeps
<1>4. Stable(A, Use({"if_list"}, {}))
  BY <1>1, StUse, LockNames DEF Use, MayRead, MayWrite, Guard, Free
<1>5. Stable(A, SendIp)
  BY <1>1, SendIpKeeps
<1> QED BY <1>1, <1>2, <1>3, <1>4, <1>5, StSeq, StUnion DEF Forward

(* A packet is processed under the four locks and, unless its handler returned      *)
(* without its unlock calls, all four are given back.                                *)
LEMMA ProcessIpPacketKeeps ==
  ASSUME NEW A, Ctx(A, 5)
  PROVE  Keeps(A, ProcessIpPacket, {A} \cup Astray)
<1> DEFINE E == IpHeld(A, "rd", "rd")
           F == IpHeld(A, "wr", "rd")
           G == IpHeld(A, "rd", "wr")
           K == {E, F, G} \cup Astray
<1>1. /\ E \in Holdings /\ Ctx(E, 9) /\ Has(E, "arp_cache") /\ Has(E, "if_list")
      /\ Has(E, "rtable") /\ Owns(E, "arp_queue")
  BY IpHolds, ModeNames
<1>2. /\ Keeps(A, LockIp, {E}) /\ Keeps(E, UnlockIp, {A}) /\ Keeps(F, UnlockIp, {A})
      /\ Keeps(G, UnlockIp, {A})
  BY LockIpKeeps, UnlockIpKeeps, ModeNames
<1>3. Keeps(E, ProcessHello, {F} \cup Astray) /\ Keeps(E, ProcessLsu, {G})
  BY ProcessHelloKeeps, ProcessLsuKeeps
<1> HIDE DEF E, F, G
<1>4. Ctx(E, 11) /\ Ctx(E, 15) /\ Ctx(E, 17) /\ Ctx(E, 18)
  BY <1>1, CtxMore
<1>5. Stable(E, Use({"if_list"}, {}))
  BY <1>1, StUse, LockNames DEF Use, MayRead, MayWrite, Guard, Free
<1>6. Stable(E, SendIcmpPacket) /\ Stable(E, Forward)
  BY <1>1, <1>4, SendIcmpPacketKeeps, ForwardKeeps
<1>7. Stable(E, ProcessIcmpPacket) /\ Stable(E, SrTransportInput) /\ Stable(E, Skip)
  BY <1>1, <1>4, ProcessIcmpPacketKeeps, SrTransportInputKeeps, SkipStable
<1>8. {E} \subseteq K /\ {F} \cup Astray \subseteq K /\ {G} \subseteq K
  OBVIOUS
<1>9. \A B \in K : Keeps(B, UnlockIp, {A} \cup Astray)
  <2>1. {A} \subseteq {A} \cup Astray /\ Astray \subseteq {A} \cup Astray
    OBVIOUS
  <2>2. ASSUME NEW B \in Astray PROVE Keeps(B, UnlockIp, {A} \cup Astray)
    BY <2>1, UnlockIpAstray, Weaken
  <2> QED BY <1>2, <2>1, <2>2, Weaken
<1> HIDE DEF K
<1>10. /\ Keeps(E, ProcessHello, K) /\ Keeps(E, ProcessLsu, K) /\ Keeps(E, Skip, K)
       /\ Keeps(E, SendIcmpPacket, K) /\ Keeps(E, Forward, K)
       /\ Keeps(E, ProcessIcmpPacket, K) /\ Keeps(E, SrTransportInput, K)
  BY <1>3, <1>6, <1>7, <1>8, Weaken DEF Stable
<1>11. Keeps(E, ProcessPwospfPacket, K)
  BY <1>10, UnionKeeps DEF ProcessPwospfPacket
<1>12. Keeps(E, SrTransportInput \cup ProcessIcmpPacket \cup SendIcmpPacket
                  \cup ProcessPwospfPacket \cup Forward, K)
  BY <1>10, <1>11, UnionKeeps
<1>13. Keeps(A, LockIp ++ Use({"if_list"}, {}), {E})
  BY <1>2, <1>5, Then DEF Stable
<1>14. Keeps(A, LockIp ++ Use({"if_list"}, {})
                 ++ (SrTransportInput \cup ProcessIcmpPacket \cup SendIcmpPacket
                     \cup ProcessPwospfPacket \cup Forward), K)
  BY <1>12, <1>13, Then
<1> QED BY <1>9, <1>14, SeqKeeps DEF ProcessIpPacket

(* ProcessArpRequest: takes locks from if_list on.                                   *)
LEMMA ProcessArpRequestKeeps ==
  ASSUME NEW A, Ctx(A, 7)
  PROVE  Stable(A, ProcessArpRequest)
<1> DEFINE B == Plus(A, "if_list", "rd")
<1>1. Rank["if_list"] = 7 /\ {"if_list"} \subseteq Locks
  BY RankValues, LockNames
<1>2. A \in Holdings
  BY DEF Ctx
<1>3. B \in Holdings /\ Ctx(B, 8) /\ Ctx(B, 15)
  BY <1>1, <1>2, EnterAt, ModeNames
<1>4. Has(B, "if_list")
  BY <1>2, Added, OwnsHas, ModeNames
<1> HIDE DEF B
<1>5. Stable(B, Use({"if_list"}, {}))
  BY <1>3, <1>4, StUse, LockNames DEF Use, MayRead, MayWrite, Guard, Free
<1>6. Stable(B, SendPacket)
  BY <1>3, <1>4, SendPacketKeeps
<1>7. Stable(B, Use({"if_list"}, {}) ++ Opt(SendPacket))
  BY <1>3, <1>4, <1>5, <1>6, StSeq, StOpt
<1>8. Stable(A, Reading("if_list", Use({"if_list"}, {}) ++ Opt(SendPacket)))
  BY <1>2, <1>7, CtxReading, RankValues, LockNames DEF B
<1> QED BY <1>2, <1>8 DEF ProcessArpRequest

(* TriggerArpCacheModified, with arp_cache held for writing: takes no lock.          *)
LEMMA TriggerArpCacheModifiedKeeps ==
  ASSUME NEW A, Ctx(A, 18), Owns(A, "arp_cache")
  PROVE  Stable(A, TriggerArpCacheModified)
BY OwnsHas, StUse, LockNames DEF Ctx, TriggerArpCacheModified, Use, MayRead, MayWrite, Guard, Free

(* UpdateArpCache, with arp_cache held for writing: takes no lock.                   *)
LEMMA UpdateArpCacheKeeps ==
  ASSUME NEW A, Ctx(A, 18), Owns(A, "arp_cache")
  PROVE  Stable(A, UpdateArpCache)
<1>1. A \in Holdings
  BY DEF Ctx
<1>2. Stable(A, Use({}, {"arp_cache"}))
  BY <1>1, StUse, LockNames DEF Use, MayRead, MayWrite, Guard, Free
<1>3. Stable(A, TriggerArpCacheModified)
  BY <1>1, TriggerArpCacheModifiedKeeps
<1> QED BY <1>1, <1>2, <1>3, StSeq DEF UpdateArpCache

(* DelArpCache, with arp_cache held for writing: takes no lock.                      *)
LEMMA DelArpCacheKeeps ==
  ASSUME NEW A, Ctx(A, 18), Owns(A, "arp_cache")
  PROVE  Stable(A, DelArpCache)
BY OwnsHas, StUse, LockNames DEF Ctx, DelArpCache, Use, MayRead, MayWrite, Guard, Free

(* SendQueuedPackets, with arp_queue held for writing and arp_cache held: takes      *)
(* locks from write on.                                                              *)
LEMMA SendQueuedPacketsKeeps ==
  ASSUME NEW A, Ctx(A, 15), Owns(A, "arp_queue"), Has(A, "arp_cache")
  PROVE  Stable(A, SendQueuedPackets)
<1>1. A \in Holdings
  BY DEF Ctx
<1>2. Has(A, "arp_queue")
  BY OwnsHas
<1>3. Stable(A, Use({"arp_queue"}, {}))
  BY <1>1, <1>2, StUse, LockNames DEF Use, MayRead, MayWrite, Guard, Free
<1>4. Stable(A, Use({"arp_cache"}, {}))
  BY <1>1, <1>2, StUse, LockNames DEF Use, MayRead, MayWrite, Guard, Free
<1>5. Stable(A, SendPacket)
  BY <1>1, <1>2, SendPacketKeeps
<1>6. Stable(A, ArpQueueAdd("bare"))
  BY <1>1, <1>2, ArpQueueAddBareKeeps
<1>7. Stable(A, Use({}, {"arp_queue"}))
  BY <1>1, <1>2, StUse, LockNames DEF Use, MayRead, MayWrite, Guard, Free
<1> QED BY <1>1, <1>2, <1>3, <1>4, <1>5, <1>6, <1>7, StSeq, StOpt, StUnion DEF SendQueuedPackets

(* ProcessArpReply: takes locks from arp_cache on.                                   *)
LEMMA ProcessArpReplyKeeps ==
  ASSUME NEW A, Ctx(A, 5)
  PROVE  Stable(A, ProcessArpReply)
<1> DEFINE B == Plus(A, "arp_cache", "wr")
           C == Plus(A, "arp_cache", "rd")
           D == Plus(C, "arp_queue", "wr")
<1>1. /\ Rank["arp_cache"] = 5 /\ Rank["arp_queue"] = 6
      /\ {"arp_cache", "arp_queue"} \subseteq Locks
  BY RankValues, LockNames
<1>2. A \in Holdings
  BY DEF Ctx
<1>3. B \in Holdings /\ Ctx(B, 6) /\ Ctx(B, 18)
  BY <1>1, <1>2, EnterAt, ModeNames
<1>4. Owns(B, "arp_cache")
  BY <1>2, Added, OwnsHas, ModeNames
<1>5. C \in Holdings /\ Ctx(C, 6)
  BY <1>1, <1>2, EnterAt, ModeNames
<1>6. Has(C, "arp_cache")
  BY <1>2, Added, OwnsHas, ModeNames
<1>7. D \in Holdings /\ Ctx(D, 7) /\ Ctx(D, 15)
  BY <1>1, <1>5, <1>6, EnterAt, ModeNames
<1>8. Owns(D, "arp_queue") /\ Has(D, "arp_cache")
  BY <1>5, <1>6, Added, OwnsHas, ModeNames
<1> HIDE DEF B, C, D
<1>9. Stable(B, UpdateArpCache)
  BY <1>3, <1>4, UpdateArpCacheKeeps
<1>10. Stable(A, Writing("arp_cache", UpdateArpCache))
  BY <1>2, <1>9, CtxWriting, RankValues, LockNames DEF B
<1>11. Stable(D, SendQueuedPackets)
  BY <1>7, <1>8, SendQueuedPacketsKeeps
<1>12. Stable(C, Writing("arp_queue", SendQueuedPackets))
  BY <1>5, <1>6, <1>11, CtxWriting, RankValues, LockNames DEF D
<1>13. Stable(A, Reading("arp_cache", Writing("arp_queue", SendQueuedPackets)))
  BY <1>2, <1>12, CtxReading, RankValues, LockNames DEF C
<1> QED BY <1>2, <1>10, <1>13, StSeq DEF ProcessArpReply

(* IfaceIsActive: takes locks from if_list on.                                       *)
LEMMA IfaceIsActiveKeeps ==
  ASSUME NEW A, Ctx(A, 7)
  PROVE  Stable(A, IfaceIsActive)
<1> DEFINE B == Plus(A, "if_list", "rd")
<1>1. Rank["if_list"] = 7 /\ {"if_list"} \subseteq Locks
  BY RankValues, LockNames
<1>2. A \in Holdings
  BY DEF Ctx
<1>3. B \in Holdings /\ Ctx(B, 8)
  BY <1>1, <1>2, EnterAt, ModeNames
<1>4. Has(B, "if_list")
  BY <1>2, Added, OwnsHas, ModeNames
<1> HIDE DEF B
<1>5. Stable(B, Use({"if_list"}, {}))
  BY <1>3, <1>4, StUse, LockNames DEF Use, MayRead, MayWrite, Guard, Free
<1>6. Stable(A, Reading("if_list", Use({"if_list"}, {})))
  BY <1>2, <1>5, CtxReading, RankValues, LockNames DEF B
<1> QED BY <1>2, <1>6 DEF IfaceIsActive

(* The packet thread.                                                                *)
LEMMA NetfpgaInputKeeps ==
  ASSUME NEW A, Ctx(A, 5)
  PROVE  Keeps(A, NetfpgaInput, {A} \cup Astray)
<1> DEFINE K == {A} \cup Astray
           B == Plus(A, "log", "wr")
<1>1. A \in Holdings /\ Ctx(A, 5) /\ Ctx(A, 7) /\ Ctx(A, 16)
  BY CtxMore DEF Ctx
<1>2. Rank["log"] = 16 /\ "log" \in Locks \ {"answer"}
  BY RankValues, LockNames
<1>3. B \in Holdings /\ Owns(B, "log")
  BY <1>1, <1>2, EnterAt, Added, ModeNames
<1> HIDE DEF B
<1>4. Stable(B, Use({}, {"log"}))
  BY <1>3, StUse, LockNames DEF Use, MayRead, MayWrite, Guard, Free
<1>5. Stable(A, Writing("log", Use({}, {"log"})))
  BY <1>1, <1>2, <1>4, CtxWriting DEF B
<1>6. Keeps(A, ProcessIpPacket, K)
  BY ProcessIpPacketKeeps
<1>7. {A} \subseteq K
  OBVIOUS
<1> HIDE DEF K
<1>8. Stable(A, IfaceIsActive) /\ Stable(A, ProcessArpRequest) /\ Stable(A, ProcessArpReply)
  BY <1>1, IfaceIsActiveKeeps, ProcessArpRequestKeeps, ProcessArpReplyKeeps
<1>9. Keeps(A, ProcessArpRequest, K) /\ Keeps(A, ProcessArpReply, K) /\ Keeps(A, Skip, K)
  BY <1>1, <1>7, <1>8, SkipStable, Weaken DEF Stable
<1>10. Keeps(A, ProcessIpPacket \cup ProcessArpRequest \cup ProcessArpReply \cup Skip, K)
  BY <1>6, <1>9, UnionKeeps
<1>11. Keeps(A, ProcessPacket, K)
  BY <1>8, <1>10, Then DEF ProcessPacket, Stable
<1>12. Keeps(A, NetfpgaInput, K)
  BY <1>5, <1>11, Then DEF NetfpgaInput, Stable
<1> QED BY <1>12 DEF K

(* ExpireArpCache, with arp_cache held for writing: takes no lock.                   *)
LEMMA ExpireArpCacheKeeps ==
  ASSUME NEW A, Ctx(A, 18), Owns(A, "arp_cache")
  PROVE  Stable(A, ExpireArpCache)
<1>1. A \in Holdings
  BY DEF Ctx
<1>2. Stable(A, Use({}, {"arp_cache"}))
  BY <1>1, StUse, LockNames DEF Use, MayRead, MayWrite, Guard, Free
<1>3. Stable(A, TriggerArpCacheModified)
  BY <1>1, TriggerArpCacheModifiedKeeps
<1> QED BY <1>1, <1>2, <1>3, StSeq, StOpt DEF ExpireArpCache

(* ProcessArpQueue, with arp_queue held for writing and arp_cache and if_list and    *)
(* rtable held: takes locks from write on.                                           *)
LEMMA ProcessArpQueueKeeps ==
  ASSUME NEW A, Ctx(A, 15), Owns(A, "arp_queue"), Has(A, "arp_cache"),
         Has(A, "if_list"), Has(A, "rtable")
  PROVE  Stable(A, ProcessArpQueue)
<1>1. A \in Holdings
  BY DEF Ctx
<1>2. Has(A, "arp_queue")
  BY OwnsHas
<1>3. Stable(A, Use({"arp_queue"}, {}))
  BY <1>1, <1>2, StUse, LockNames DEF Use, MayRead, MayWrite, Guard, Free
<1>4. Stable(A, Use({}, {"arp_queue"}))
  BY <1>1, <1>2, StUse, LockNames DEF Use, MayRead, MayWrite, Guard, Free
<1>5. Stable(A, SendArpRequest("use"))
  BY <1>1, <1>2, SendArpRequestUseKeeps
<1>6. Stable(A, Use({"if_list"}, {}))
  BY <1>1, <1>2, StUse, LockNames DEF Use, MayRead, MayWrite, Guard, Free
<1>7. Stable(A, SendIcmpPacket)
  BY <1>1, <1>2, SendIcmpPacketKeeps
<1> QED BY <1>1, <1>2, <1>3, <1>4, <1>5, <1>6, <1>7, StSeq, StOpt, StUnion DEF ProcessArpQueue

(* The thread that expires the ARP cache and resends ARP requests.                   *)
LEMMA ArpThreadKeeps ==
  ASSUME NEW A, Ctx(A, 5)
  PROVE  Stable(A, ArpThread)
<1> DEFINE B == Plus(A, "arp_cache", "wr")
           E == IpHeld(A, "rd", "rd")
<1>1. Rank["arp_cache"] = 5 /\ "arp_cache" \in Locks \ {"answer"}
  BY RankValues, LockNames
<1>2. B \in Holdings /\ Ctx(B, 18) /\ Owns(B, "arp_cache")
  BY <1>1, EnterAt, Added, ModeNames
<1> HIDE DEF B
<1>3. Stable(B, ExpireArpCache)
  BY <1>2, ExpireArpCacheKeeps
<1>4. Stable(A, Writing("arp_cache", ExpireArpCache))
  BY <1>1, <1>3, CtxWriting DEF B
<1>5. /\ E \in Holdings /\ Ctx(E, 9) /\ Has(E, "arp_cache") /\ Has(E, "if_list")
      /\ Has(E, "rtable") /\ Owns(E, "arp_queue")
  BY IpHolds, ModeNames
<1>6. Keeps(A, LockIp, {E}) /\ Keeps(E, UnlockIp, {A})
  BY LockIpKeeps, UnlockIpKeeps, ModeNames
<1> HIDE DEF E
<1>7. Ctx(E, 15)
  BY <1>5, CtxMore
<1>8. Stable(E, ProcessArpQueue)
  BY <1>5, <1>7, ProcessArpQueueKeeps
<1>9. Keeps(A, Writing("arp_cache", ExpireArpCache) ++ LockIp, {E})
  BY <1>4, <1>6, Then DEF Stable
<1>10. Keeps(A, Writing("arp_cache", ExpireArpCache) ++ LockIp ++ ProcessArpQueue, {E})
  BY <1>8, <1>9, Then DEF Stable
<1> QED BY <1>6, <1>10, Then DEF ArpThread, Stable

(* TriggerRtableModified, with rtable held for writing: takes no lock.               *)
LEMMA TriggerRtableModifiedKeeps ==
  ASSUME NEW A, Ctx(A, 18), Owns(A, "rtable")
  PROVE  Stable(A, TriggerRtableModified)
BY OwnsHas, StUse, LockNames DEF Ctx, TriggerRtableModified, Use, MayRead, MayWrite, Guard, Free

(* The thread that computes the routes waits on its condition and takes three more.  *)
LEMMA DijkstraThreadKeeps ==
  ASSUME NEW A, Ctx(A, 4)
  PROVE  Stable(A, DijkstraThread)
<1> DEFINE B == Plus(A, "dijkstra", "wr")
           C == Plus(B, "if_list", "rd")
           D == Plus(C, "rtable", "wr")
           E == Plus(D, "router_list", "wr")
           P == Reading("if_list", Writing("rtable", Writing("router_list",
                  Use({"if_list", "router_list"}, {"rtable"}) ++ TriggerRtableModified)))
<1>1. /\ Rank["dijkstra"] = 4 /\ Rank["if_list"] = 7 /\ Rank["rtable"] = 8
      /\ Rank["router_list"] = 9
      /\ {"dijkstra", "if_list", "rtable", "router_list"} \subseteq Locks \ {"answer"}
  BY RankValues, LockNames
<1>2. B \in Holdings /\ Ctx(B, 5)
  BY <1>1, EnterAt, ModeNames
<1>3. /\ Keeps(A, Wr("dijkstra") ++ Rel("dijkstra"), {A})
      /\ Keeps(A, Wr("dijkstra"), {B}) /\ Keeps(B, Rel("dijkstra"), {A})
  BY <1>1, TakeWr, Drop, TakeAgain, ModeNames DEF Stable
<1> HIDE DEF B
<1>4. Ctx(C, 8) /\ Has(C, "if_list")
  BY <1>1, <1>2, EnterAt, Added, ModeNames
<1>c. C = Plus(B, "if_list", "rd")
  OBVIOUS
<1> HIDE DEF C
<1>5. Ctx(D, 9) /\ Has(D, "if_list") /\ Owns(D, "rtable")
  BY <1>1, <1>4, EnterAt, Added, ModeNames
<1>d. D = Plus(C, "rtable", "wr")
  OBVIOUS
<1> HIDE DEF D
<1>6. E \in Holdings /\ Ctx(E, 10) /\ Ctx(E, 18)
  BY <1>1, <1>5, EnterAt, ModeNames
<1>7. /\ Has(E, "if_list") /\ Owns(E, "rtable") /\ Owns(E, "router_list")
      /\ Has(E, "rtable") /\ Has(E, "router_list")
  BY <1>5, Added, OwnsHas, ModeNames
<1>e. E = Plus(D, "router_list", "wr")
  OBVIOUS
<1> HIDE DEF E
<1>8. Stable(E, Use({"if_list", "router_list"}, {"rtable"}))
  BY <1>6, <1>7, StUse, LockNames DEF Use, MayRead, MayWrite, Guard, Free
<1>9. Stable(E, TriggerRtableModified)
  BY <1>6, <1>7, TriggerRtableModifiedKeeps
<1>10. Stable(E, Use({"if_list", "router_list"}, {"rtable"}) ++ TriggerRtableModified)
  BY <1>8, <1>9, StSeq
<1>11. Stable(D, Writing("router_list",
                  Use({"if_list", "router_list"}, {"rtable"}) ++ TriggerRtableModified))
  BY <1>1, <1>5, <1>10, <1>e, CtxWriting
<1>12. Stable(C, Writing("rtable", Writing("router_list",
                  Use({"if_list", "router_list"}, {"rtable"}) ++ TriggerRtableModified)))
  BY <1>1, <1>4, <1>11, <1>d, CtxWriting
<1>13. Stable(B, P)
  BY <1>1, <1>2, <1>12, <1>c, CtxReading
<1> HIDE DEF P
<1>14. Stable(B, Opt(P))
  BY <1>2, <1>13, StOpt
<1>15. Keeps(A, Wr("dijkstra") ++ Rel("dijkstra") ++ Wr("dijkstra"), {B})
  BY <1>3, Then
<1>16. Keeps(A, Wr("dijkstra") ++ Rel("dijkstra") ++ Wr("dijkstra") ++ Opt(P), {B})
  BY <1>14, <1>15, Then DEF Stable
<1>17. Keeps(A, Wr("dijkstra") ++ Rel("dijkstra") ++ Wr("dijkstra") ++ Opt(P) ++ Rel("dijkstra"),
             {A})
  BY <1>3, <1>16, Then
<1> QED BY <1>17 DEF DijkstraThread, Stable, P

(* GetQueueCounters: takes no lock.                                                  *)
LEMMA GetQueueCountersKeeps ==
  ASSUME NEW A, Ctx(A, 18)
  PROVE  Stable(A, GetQueueCounters)
BY OwnsHas, StUse, LockNames DEF Ctx, GetQueueCounters, Use, MayRead, MayWrite, Guard, Free

(* NetfpgaStats: takes locks from stats on.                                          *)
LEMMA NetfpgaStatsKeeps ==
  ASSUME NEW A, Ctx(A, 14)
  PROVE  Stable(A, NetfpgaStats)
<1> DEFINE B == Plus(A, "stats", "wr")
<1>1. Rank["stats"] = 14 /\ {"stats"} \subseteq Locks
  BY RankValues, LockNames
<1>2. A \in Holdings
  BY DEF Ctx
<1>3. B \in Holdings /\ Ctx(B, 15) /\ Ctx(B, 18)
  BY <1>1, <1>2, EnterAt, ModeNames
<1>4. Owns(B, "stats")
  BY <1>2, Added, OwnsHas, ModeNames
<1> HIDE DEF B
<1>5. Stable(B, GetQueueCounters)
  BY <1>3, <1>4, GetQueueCountersKeeps
<1>6. Stable(B, Use({}, {"stats"}))
  BY <1>3, <1>4, StUse, LockNames DEF Use, MayRead, MayWrite, Guard, Free
<1>7. Stable(B, GetQueueCounters ++ Use({}, {"stats"}))
  BY <1>3, <1>4, <1>5, <1>6, StSeq
<1>8. Stable(A, Writing("stats", GetQueueCounters ++ Use({}, {"stats"})))
  BY <1>2, <1>7, CtxWriting, RankValues, LockNames DEF B
<1> QED BY <1>2, <1>8 DEF NetfpgaStats

(* SpingQueueCleanup: takes locks from sping_queue on.                               *)
LEMMA SpingQueueCleanupKeeps ==
  ASSUME NEW A, Ctx(A, 11)
  PROVE  Stable(A, SpingQueueCleanup)
<1> DEFINE B == Plus(A, "sping_queue", "wr")
<1>1. Rank["sping_queue"] = 11 /\ {"sping_queue"} \subseteq Locks
  BY RankValues, LockNames
<1>2. A \in Holdings
  BY DEF Ctx
<1>3. B \in Holdings /\ Ctx(B, 12)
  BY <1>1, <1>2, EnterAt, ModeNames
<1>4. Owns(B, "sping_queue")
  BY <1>2, Added, OwnsHas, ModeNames
<1> HIDE DEF B
<1>5. Stable(B, Use({}, {"sping_queue"}))
  BY <1>3, <1>4, StUse, LockNames DEF Use, MayRead, MayWrite, Guard, Free
<1>6. Stable(A, Writing("sping_queue", Use({}, {"sping_queue"})))
  BY <1>2, <1>5, CtxWriting, RankValues, LockNames DEF B
<1> QED BY <1>2, <1>6 DEF SpingQueueCleanup

(* CallTransport: takes locks from answer on.                                        *)
LEMMA CallTransportKeeps ==
  ASSUME NEW A, Ctx(A, 2)
  PROVE  Stable(A, CallTransport)
<1> DEFINE B == Plus(A, "mbox", "wr")
<1>1. Rank["mbox"] = 17 /\ {"mbox"} \subseteq Locks
  BY RankValues, LockNames
<1>2. A \in Holdings
  BY DEF Ctx
<1>3. B \in Holdings /\ Ctx(B, 18)
  BY <1>1, <1>2, EnterAt, ModeNames
<1>4. Owns(B, "mbox")
  BY <1>2, Added, OwnsHas, ModeNames
<1> HIDE DEF B
<1>5. Stable(B, Do("post", "mbox", {}, {"mbox"}))
  BY <1>3, <1>4, StMail
<1>6. Stable(A, Writing("mbox", Do("post", "mbox", {}, {"mbox"})))
  BY <1>2, <1>5, CtxWriting, RankValues, LockNames DEF B
<1>7. Stable(A, Do("await", "answer", {}, {}))
  BY <1>2, StAwait
<1> QED BY <1>2, <1>6, <1>7, StSeq DEF CallTransport

(* SendToSocket: takes locks from answer on.                                         *)
LEMMA SendToSocketKeeps ==
  ASSUME NEW A, Ctx(A, 2)
  PROVE  Stable(A, SendToSocket)
BY CallTransportKeeps DEF SendToSocket

(* SprintArpCache, with arp_cache held: takes no lock.                               *)
LEMMA SprintArpCacheKeeps ==
  ASSUME NEW A, Ctx(A, 18), Has(A, "arp_cache")
  PROVE  Stable(A, SprintArpCache)
BY OwnsHas, StUse, LockNames DEF Ctx, SprintArpCache, Use, MayRead, MayWrite, Guard, Free

(* SprintIfList, with if_list held: takes no lock.                                   *)
LEMMA SprintIfListKeeps ==
  ASSUME NEW A, Ctx(A, 18), Has(A, "if_list")
  PROVE  Stable(A, SprintIfList)
BY OwnsHas, StUse, LockNames DEF Ctx, SprintIfList, Use, MayRead, MayWrite, Guard, Free

(* SprintRtable, with rtable held: takes no lock.                                    *)
LEMMA SprintRtableKeeps ==
  ASSUME NEW A, Ctx(A, 18), Has(A, "rtable")
  PROVE  Stable(A, SprintRtable)
BY OwnsHas, StUse, LockNames DEF Ctx, SprintRtable, Use, MayRead, MayWrite, Guard, Free

(* SprintPwospfIfList, with if_list held: takes no lock.                             *)
LEMMA SprintPwospfIfListKeeps ==
  ASSUME NEW A, Ctx(A, 18), Has(A, "if_list")
  PROVE  Stable(A, SprintPwospfIfList)
BY OwnsHas, StUse, LockNames DEF Ctx, SprintPwospfIfList, Use, MayRead, MayWrite, Guard, Free

(* SprintPwospfRouterList, with router_list held: takes no lock.                     *)
LEMMA SprintPwospfRouterListKeeps ==
  ASSUME NEW A, Ctx(A, 18), Has(A, "router_list")
  PROVE  Stable(A, SprintPwospfRouterList)
BY OwnsHas, StUse, LockNames DEF Ctx, SprintPwospfRouterList, Use, MayRead, MayWrite, Guard, Free

(* SprintHwArpCache: takes no lock.                                                  *)
LEMMA SprintHwArpCacheKeeps ==
  ASSUME NEW A, Ctx(A, 18)
  PROVE  Stable(A, SprintHwArpCache)
BY StBare, LockNames DEF Ctx, SprintHwArpCache, Bare

(* SprintHwRtable: takes no lock.                                                    *)
LEMMA SprintHwRtableKeeps ==
  ASSUME NEW A, Ctx(A, 18)
  PROVE  Stable(A, SprintHwRtable)
BY StBare, LockNames DEF Ctx, SprintHwRtable, Bare

(* SprintHwLocalIpFilter: takes no lock.                                             *)
LEMMA SprintHwLocalIpFilterKeeps ==
  ASSUME NEW A, Ctx(A, 18)
  PROVE  Stable(A, SprintHwLocalIpFilter)
BY StBare, LockNames DEF Ctx, SprintHwLocalIpFilter, Bare

(* ReadHwIfaceMac: takes no lock.                                                    *)
LEMMA ReadHwIfaceMacKeeps ==
  ASSUME NEW A, Ctx(A, 18)
  PROVE  Stable(A, ReadHwIfaceMac)
BY OwnsHas, StUse, LockNames DEF Ctx, ReadHwIfaceMac, Use, MayRead, MayWrite, Guard, Free

(* WriteHwIfaceMac: takes no lock.                                                   *)
LEMMA WriteHwIfaceMacKeeps ==
  ASSUME NEW A, Ctx(A, 18)
  PROVE  Stable(A, WriteHwIfaceMac)
BY StBare, LockNames DEF Ctx, WriteHwIfaceMac, Bare

(* SprintHwIface: takes no lock.                                                     *)
LEMMA SprintHwIfaceKeeps ==
  ASSUME NEW A, Ctx(A, 18)
  PROVE  Stable(A, SprintHwIface)
BY ReadHwIfaceMacKeeps DEF SprintHwIface

(* SprintHwDrops: takes no lock.                                                     *)
LEMMA SprintHwDropsKeeps ==
  ASSUME NEW A, Ctx(A, 18)
  PROVE  Stable(A, SprintHwDrops)
BY OwnsHas, StUse, LockNames DEF Ctx, SprintHwDrops, Use, MayRead, MayWrite, Guard, Free

(* SprintHwStats: takes locks from stats on.                                         *)
LEMMA SprintHwStatsKeeps ==
  ASSUME NEW A, Ctx(A, 14)
  PROVE  Stable(A, SprintHwStats)
<1> DEFINE B == Plus(A, "stats", "wr")
<1>1. Rank["stats"] = 14 /\ {"stats"} \subseteq Locks
  BY RankValues, LockNames
<1>2. A \in Holdings
  BY DEF Ctx
<1>3. B \in Holdings /\ Ctx(B, 15)
  BY <1>1, <1>2, EnterAt, ModeNames
<1>4. Has(B, "stats")
  BY <1>2, Added, OwnsHas, ModeNames
<1> HIDE DEF B
<1>5. Stable(B, Use({"stats"}, {}))
  BY <1>3, <1>4, StUse, LockNames DEF Use, MayRead, MayWrite, Guard, Free
<1>6. Stable(A, Writing("stats", Use({"stats"}, {})))
  BY <1>2, <1>5, CtxWriting, RankValues, LockNames DEF B
<1> QED BY <1>2, <1>6 DEF SprintHwStats

(* CliShowIpArp: takes locks from answer on.                                         *)
LEMMA CliShowIpArpKeeps ==
  ASSUME NEW A, Ctx(A, 2)
  PROVE  Stable(A, CliShowIpArp)
<1> DEFINE B == Plus(A, "arp_cache", "rd")
<1>1. Rank["arp_cache"] = 5 /\ {"arp_cache"} \subseteq Locks
  BY RankValues, LockNames
<1>2. A \in Holdings
  BY DEF Ctx
<1>3. B \in Holdings /\ Ctx(B, 6) /\ Ctx(B, 18)
  BY <1>1, <1>2, EnterAt, ModeNames
<1>4. Has(B, "arp_cache")
  BY <1>2, Added, OwnsHas, ModeNames
<1> HIDE DEF B
<1>5. Stable(B, SprintArpCache)
  BY <1>3, <1>4, SprintArpCacheKeeps
<1>6. Stable(A, Reading("arp_cache", SprintArpCache))
  BY <1>2, <1>5, CtxReading, RankValues, LockNames DEF B
<1>7. Stable(A, SendToSocket)
  BY <1>2, SendToSocketKeeps
<1> QED BY <1>2, <1>6, <1>7, StSeq DEF CliShowIpArp

(* CliShowIpIface: takes locks from answer on.                                       *)
LEMMA CliShowIpIfaceKeeps ==
  ASSUME NEW A, Ctx(A, 2)
  PROVE  Stable(A, CliShowIpIface)
<1> DEFINE B == Plus(A, "if_list", "rd")
<1>1. Rank["if_list"] = 7 /\ {"if_list"} \subseteq Locks
  BY RankValues, LockNames
<1>2. A \in Holdings
  BY DEF Ctx
<1>3. B \in Holdings /\ Ctx(B, 8) /\ Ctx(B, 18)
  BY <1>1, <1>2, EnterAt, ModeNames
<1>4. Has(B, "if_list")
  BY <1>2, Added, OwnsHas, ModeNames
<1> HIDE DEF B
<1>5. Stable(B, SprintIfList)
  BY <1>3, <1>4, SprintIfListKeeps
<1>6. Stable(A, Reading("if_list", SprintIfList))
  BY <1>2, <1>5, CtxReading, RankValues, LockNames DEF B
<1>7. Stable(A, SendToSocket)
  BY <1>2, SendToSocketKeeps
<1> QED BY <1>2, <1>6, <1>7, StSeq DEF CliShowIpIface

(* CliShowIpRtable: takes locks from answer on.                                      *)
LEMMA CliShowIpRtableKeeps ==
  ASSUME NEW A, Ctx(A, 2)
  PROVE  Stable(A, CliShowIpRtable)
<1> DEFINE B == Plus(A, "rtable", "rd")
<1>1. Rank["rtable"] = 8 /\ {"rtable"} \subseteq Locks
  BY RankValues, LockNames
<1>2. A \in Holdings
  BY DEF Ctx
<1>3. B \in Holdings /\ Ctx(B, 9) /\ Ctx(B, 18)
  BY <1>1, <1>2, EnterAt, ModeNames
<1>4. Has(B, "rtable")
  BY <1>2, Added, OwnsHas, ModeNames
<1> HIDE DEF B
<1>5. Stable(B, SprintRtable)
  BY <1>3, <1>4, SprintRtableKeeps
<1>6. Stable(A, Reading("rtable", SprintRtable))
  BY <1>2, <1>5, CtxReading, RankValues, LockNames DEF B
<1>7. Stable(A, SendToSocket)
  BY <1>2, SendToSocketKeeps
<1> QED BY <1>2, <1>6, <1>7, StSeq DEF CliShowIpRtable

(* CliShowPwospfIface: takes locks from answer on.                                   *)
LEMMA CliShowPwospfIfaceKeeps ==
  ASSUME NEW A, Ctx(A, 2)
  PROVE  Stable(A, CliShowPwospfIface)
<1> DEFINE B == Plus(A, "if_list", "rd")
<1>1. Rank["if_list"] = 7 /\ {"if_list"} \subseteq Locks
  BY RankValues, LockNames
<1>2. A \in Holdings
  BY DEF Ctx
<1>3. B \in Holdings /\ Ctx(B, 8) /\ Ctx(B, 18)
  BY <1>1, <1>2, EnterAt, ModeNames
<1>4. Has(B, "if_list")
  BY <1>2, Added, OwnsHas, ModeNames
<1> HIDE DEF B
<1>5. Stable(B, SprintPwospfIfList)
  BY <1>3, <1>4, SprintPwospfIfListKeeps
<1>6. Stable(A, Reading("if_list", SprintPwospfIfList))
  BY <1>2, <1>5, CtxReading, RankValues, LockNames DEF B
<1>7. Stable(A, SendToSocket)
  BY <1>2, SendToSocketKeeps
<1> QED BY <1>2, <1>6, <1>7, StSeq DEF CliShowPwospfIface

(* CliShowPwospfRouterList: takes locks from answer on.                              *)
LEMMA CliShowPwospfRouterListKeeps ==
  ASSUME NEW A, Ctx(A, 2)
  PROVE  Stable(A, CliShowPwospfRouterList)
<1> DEFINE B == Plus(A, "router_list", "wr")
<1>1. Rank["router_list"] = 9 /\ {"router_list"} \subseteq Locks
  BY RankValues, LockNames
<1>2. A \in Holdings
  BY DEF Ctx
<1>3. B \in Holdings /\ Ctx(B, 10) /\ Ctx(B, 18)
  BY <1>1, <1>2, EnterAt, ModeNames
<1>4. Has(B, "router_list")
  BY <1>2, Added, OwnsHas, ModeNames
<1> HIDE DEF B
<1>5. Stable(B, SprintPwospfRouterList)
  BY <1>3, <1>4, SprintPwospfRouterListKeeps
<1>6. Stable(A, Writing("router_list", SprintPwospfRouterList))
  BY <1>2, <1>5, CtxWriting, RankValues, LockNames DEF B
<1>7. Stable(A, SendToSocket)
  BY <1>2, SendToSocketKeeps
<1> QED BY <1>2, <1>6, <1>7, StSeq DEF CliShowPwospfRouterList

(* CliShowPwospfInfo: takes locks from answer on.                                    *)
LEMMA CliShowPwospfInfoKeeps ==
  ASSUME NEW A, Ctx(A, 2)
  PROVE  Stable(A, CliShowPwospfInfo)
<1>1. A \in Holdings
  BY DEF Ctx
<1>2. Stable(A, CliShowPwospfRouterList)
  BY <1>1, CliShowPwospfRouterListKeeps
<1>3. Stable(A, CliShowPwospfIface)
  BY <1>1, CliShowPwospfIfaceKeeps
<1> QED BY <1>1, <1>2, <1>3, StSeq DEF CliShowPwospfInfo

(* CliShowHwArpCache: takes locks from answer on.                                    *)
LEMMA CliShowHwArpCacheKeeps ==
  ASSUME NEW A, Ctx(A, 2)
  PROVE  Stable(A, CliShowHwArpCache)
<1>1. A \in Holdings /\ Ctx(A, 18)
  BY CtxMore DEF Ctx
<1>2. Stable(A, SprintHwArpCache)
  BY <1>1, SprintHwArpCacheKeeps
<1>3. Stable(A, SendToSocket)
  BY <1>1, SendToSocketKeeps
<1> QED BY <1>1, <1>2, <1>3, StSeq DEF CliShowHwArpCache

(* CliShowHwRtable: takes locks from answer on.                                      *)
LEMMA CliShowHwRtableKeeps ==
  ASSUME NEW A, Ctx(A, 2)
  PROVE  Stable(A, CliShowHwRtable)
<1>1. A \in Holdings /\ Ctx(A, 18)
  BY CtxMore DEF Ctx
<1>2. Stable(A, SprintHwRtable)
  BY <1>1, SprintHwRtableKeeps
<1>3. Stable(A, SendToSocket)
  BY <1>1, SendToSocketKeeps
<1> QED BY <1>1, <1>2, <1>3, StSeq DEF CliShowHwRtable

(* CliShowHwInterface: takes locks from answer on.                                   *)
LEMMA CliShowHwInterfaceKeeps ==
  ASSUME NEW A, Ctx(A, 2)
  PROVE  Stable(A, CliShowHwInterface)
<1>1. A \in Holdings /\ Ctx(A, 18)
  BY CtxMore DEF Ctx
<1>2. Stable(A, SprintHwIface)
  BY <1>1, SprintHwIfaceKeeps
<1>3. Stable(A, SendToSocket)
  BY <1>1, SendToSocketKeeps
<1> QED BY <1>1, <1>2, <1>3, StSeq DEF CliShowHwInterface

(* CliHwCounters: takes locks from answer on.                                        *)
LEMMA CliHwCountersKeeps ==
  ASSUME NEW A, Ctx(A, 2)
  PROVE  Stable(A, CliHwCounters)
<1>1. A \in Holdings /\ Ctx(A, 18)
  BY CtxMore DEF Ctx
<1>2. Stable(A, GetQueueCounters)
  BY <1>1, GetQueueCountersKeeps
<1>3. Stable(A, SendToSocket)
  BY <1>1, SendToSocketKeeps
<1> QED BY <1>1, <1>2, <1>3, StSeq DEF CliHwCounters

(* CliHwInfo: takes locks from answer on.                                            *)
LEMMA CliHwInfoKeeps ==
  ASSUME NEW A, Ctx(A, 2)
  PROVE  Stable(A, CliHwInfo)
<1>1. A \in Holdings /\ Ctx(A, 14) /\ Ctx(A, 18)
  BY CtxMore DEF Ctx
<1>2. Stable(A, SprintHwStats)
  BY <1>1, SprintHwStatsKeeps
<1>3. Stable(A, SendToSocket)
  BY <1>1, SendToSocketKeeps
<1>4. Stable(A, SprintHwDrops)
  BY <1>1, SprintHwDropsKeeps
<1>5. Stable(A, SprintHwIface)
  BY <1>1, SprintHwIfaceKeeps
<1>6. Stable(A, SprintHwLocalIpFilter)
  BY <1>1, SprintHwLocalIpFilterKeeps
<1>7. Stable(A, SprintHwRtable)
  BY <1>1, SprintHwRtableKeeps
<1>8. Stable(A, SprintHwArpCache)
  BY <1>1, SprintHwArpCacheKeeps
<1> QED BY <1>1, <1>2, <1>3, <1>4, <1>5, <1>6, <1>7, <1>8, StSeq DEF CliHwInfo

(* SetHwIface: takes no lock.                                                        *)
LEMMA SetHwIfaceKeeps ==
  ASSUME NEW A, Ctx(A, 18)
  PROVE  Stable(A, SetHwIface)
<1>1. A \in Holdings
  BY DEF Ctx
<1>2. Stable(A, ReadHwIfaceMac)
  BY <1>1, ReadHwIfaceMacKeeps
<1>3. Stable(A, Bare({}, {"iface_hw"}))
  BY <1>1, StBare, LockNames DEF Bare
<1> QED BY <1>1, <1>2, <1>3, StSeq DEF SetHwIface

(* CliHwInterfaceSet: takes locks from answer on.                                    *)
LEMMA CliHwInterfaceSetKeeps ==
  ASSUME NEW A, Ctx(A, 2)
  PROVE  Stable(A, CliHwInterfaceSet)
<1>1. A \in Holdings /\ Ctx(A, 18)
  BY CtxMore DEF Ctx
<1>2. Stable(A, SetHwIface)
  BY <1>1, SetHwIfaceKeeps
<1>3. Stable(A, SendToSocket)
  BY <1>1, SendToSocketKeeps
<1> QED BY <1>1, <1>2, <1>3, StSeq DEF CliHwInterfaceSet

(* CliHwInterfaceAdd: takes locks from answer on.                                    *)
LEMMA CliHwInterfaceAddKeeps ==
  ASSUME NEW A, Ctx(A, 2)
  PROVE  Stable(A, CliHwInterfaceAdd)
<1>1. A \in Holdings /\ Ctx(A, 18)
  BY CtxMore DEF Ctx
<1>2. Stable(A, WriteHwIfaceMac)
  BY <1>1, WriteHwIfaceMacKeeps
<1>3. Stable(A, SendToSocket)
  BY <1>1, SendToSocketKeeps
<1> QED BY <1>1, <1>2, <1>3, StSeq DEF CliHwInterfaceAdd

(* CliHelp: takes locks from answer on.                                              *)
LEMMA CliHelpKeeps ==
  ASSUME NEW A, Ctx(A, 2)
  PROVE  Stable(A, CliHelp)
BY SendToSocketKeeps DEF CliHelp

(* CliShowVns: takes locks from answer on.                                           *)
LEMMA CliShowVnsKeeps ==
  ASSUME NEW A, Ctx(A, 2)
  PROVE  Stable(A, CliShowVns)
BY SendToSocketKeeps DEF CliShowVns

(* CliPwospfSet: takes locks from answer on.                                         *)
LEMMA CliPwospfSetKeeps ==
  ASSUME NEW A, Ctx(A, 2)
  PROVE  Stable(A, CliPwospfSet)
BY SendToSocketKeeps DEF CliPwospfSet

(* CliIpArpAdd: takes locks from answer on.                                          *)
LEMMA CliIpArpAddKeeps ==
  ASSUME NEW A, Ctx(A, 2)
  PROVE  Stable(A, CliIpArpAdd)
<1> DEFINE B == Plus(A, "arp_cache", "wr")
<1>1. Rank["arp_cache"] = 5 /\ {"arp_cache"} \subseteq Locks
  BY RankValues, LockNames
<1>2. A \in Holdings
  BY DEF Ctx
<1>3. B \in Holdings /\ Ctx(B, 6) /\ Ctx(B, 18)
  BY <1>1, <1>2, EnterAt, ModeNames
<1>4. Owns(B, "arp_cache")
  BY <1>2, Added, OwnsHas, ModeNames
<1> HIDE DEF B
<1>5. Stable(B, UpdateArpCache)
  BY <1>3, <1>4, UpdateArpCacheKeeps
<1>6. Stable(A, Writing("arp_cache", UpdateArpCache))
  BY <1>2, <1>5, CtxWriting, RankValues, LockNames DEF B
<1>7. Stable(A, SendToSocket)
  BY <1>2, SendToSocketKeeps
<1> QED BY <1>2, <1>6, <1>7, StSeq DEF CliIpArpAdd

(* CliIpArpDel: takes locks from answer on.                                          *)
LEMMA CliIpArpDelKeeps ==
  ASSUME NEW A, Ctx(A, 2)
  PROVE  Stable(A, CliIpArpDel)
<1> DEFINE B == Plus(A, "arp_cache", "wr")
<1>1. Rank["arp_cache"] = 5 /\ {"arp_cache"} \subseteq Locks
  BY RankValues, LockNames
<1>2. A \in Holdings
  BY DEF Ctx
<1>3. B \in Holdings /\ Ctx(B, 6) /\ Ctx(B, 18)
  BY <1>1, <1>2, EnterAt, ModeNames
<1>4. Owns(B, "arp_cache")
  BY <1>2, Added, OwnsHas, ModeNames
<1> HIDE DEF B
<1>5. Stable(B, DelArpCache)
  BY <1>3, <1>4, DelArpCacheKeeps
<1>6. Stable(B, TriggerArpCacheModified)
  BY <1>3, <1>4, TriggerArpCacheModifiedKeeps
<1>7. Stable(B, DelArpCache ++ Opt(TriggerArpCacheModified))
  BY <1>3, <1>4, <1>5, <1>6, StSeq, StOpt
<1>8. Stable(A, Writing("arp_cache", DelArpCache ++ Opt(TriggerArpCacheModified)))
  BY <1>2, <1>7, CtxWriting, RankValues, LockNames DEF B
<1>9. Stable(A, SendToSocket)
  BY <1>2, SendToSocketKeeps
<1> QED BY <1>2, <1>8, <1>9, StSeq DEF CliIpArpDel

(* CliNukeArpCache: takes locks from answer on.                                      *)
LEMMA CliNukeArpCacheKeeps ==
  ASSUME NEW A, Ctx(A, 2)
  PROVE  Stable(A, CliNukeArpCache)
<1> DEFINE B == Plus(A, "arp_cache", "wr")
<1>1. Rank["arp_cache"] = 5 /\ {"arp_cache"} \subseteq Locks
  BY RankValues, LockNames
<1>2. A \in Holdings
  BY DEF Ctx
<1>3. B \in Holdings /\ Ctx(B, 6) /\ Ctx(B, 18)
  BY <1>1, <1>2, EnterAt, ModeNames
<1>4. Owns(B, "arp_cache")
  BY <1>2, Added, OwnsHas, ModeNames
<1> HIDE DEF B
<1>5. Stable(B, DelArpCache)
  BY <1>3, <1>4, DelArpCacheKeeps
<1>6. Stable(B, TriggerArpCacheModified)
  BY <1>3, <1>4, TriggerArpCacheModifiedKeeps
<1>7. Stable(B, DelArpCache ++ Opt(TriggerArpCacheModified))
  BY <1>3, <1>4, <1>5, <1>6, StSeq, StOpt
<1>8. Stable(A, Writing("arp_cache", DelArpCache ++ Opt(TriggerArpCacheModified)))
  BY <1>2, <1>7, CtxWriting, RankValues, LockNames DEF B
<1>9. Stable(A, SendToSocket)
  BY <1>2, SendToSocketKeeps
<1> QED BY <1>2, <1>8, <1>9, StSeq DEF CliNukeArpCache

(* CliNukeHwArp: takes locks from answer on.                                         *)
LEMMA CliNukeHwArpKeeps ==
  ASSUME NEW A, Ctx(A, 2)
  PROVE  Stable(A, CliNukeHwArp)
<1>1. A \in Holdings
  BY DEF Ctx
<1>2. Stable(A, Bare({}, {"arp_hw"}))
  BY <1>1, StBare, LockNames DEF Bare
<1>3. Stable(A, SendToSocket)
  BY <1>1, SendToSocketKeeps
<1> QED BY <1>1, <1>2, <1>3, StSeq DEF CliNukeHwArp

(* AddRoute, with rtable held for writing: takes no lock.                            *)
LEMMA AddRouteKeeps ==
  ASSUME NEW A, Ctx(A, 18), Owns(A, "rtable")
  PROVE  Stable(A, AddRoute)
<1>1. A \in Holdings
  BY DEF Ctx
<1>2. Stable(A, Use({}, {"rtable"}))
  BY <1>1, StUse, LockNames DEF Use, MayRead, MayWrite, Guard, Free
<1>3. Stable(A, TriggerRtableModified)
  BY <1>1, TriggerRtableModifiedKeeps
<1> QED BY <1>1, <1>2, <1>3, StSeq DEF AddRoute

(* DelRoute, with rtable held for writing: takes no lock.                            *)
LEMMA DelRouteKeeps ==
  ASSUME NEW A, Ctx(A, 18), Owns(A, "rtable")
  PROVE  Stable(A, DelRoute)
<1>1. A \in Holdings
  BY DEF Ctx
<1>2. Stable(A, Use({}, {"rtable"}))
  BY <1>1, StUse, LockNames DEF Use, MayRead, MayWrite, Guard, Free
<1>3. Stable(A, TriggerRtableModified)
  BY <1>1, TriggerRtableModifiedKeeps
<1> QED BY <1>1, <1>2, <1>3, StSeq DEF DelRoute

(* CliIpRouteAdd: takes locks from answer on.                                        *)
LEMMA CliIpRouteAddKeeps ==
  ASSUME NEW A, Ctx(A, 2)
  PROVE  Stable(A, CliIpRouteAdd)
<1> DEFINE B == Plus(A, "rtable", "wr")
<1>1. Rank["rtable"] = 8 /\ {"rtable"} \subseteq Locks
  BY RankValues, LockNames
<1>2. A \in Holdings
  BY DEF Ctx
<1>3. B \in Holdings /\ Ctx(B, 9) /\ Ctx(B, 18)
  BY <1>1, <1>2, EnterAt, ModeNames
<1>4. Owns(B, "rtable")
  BY <1>2, Added, OwnsHas, ModeNames
<1> HIDE DEF B
<1>5. Stable(B, AddRoute)
  BY <1>3, <1>4, AddRouteKeeps
<1>6. Stable(A, Writing("rtable", AddRoute))
  BY <1>2, <1>5, CtxWriting, RankValues, LockNames DEF B
<1>7. Stable(A, SendToSocket)
  BY <1>2, SendToSocketKeeps
<1> QED BY <1>2, <1>6, <1>7, StSeq DEF CliIpRouteAdd

(* CliIpRouteDel: takes locks from answer on.                                        *)
LEMMA CliIpRouteDelKeeps ==
  ASSUME NEW A, Ctx(A, 2)
  PROVE  Stable(A, CliIpRouteDel)
<1> DEFINE B == Plus(A, "rtable", "wr")
<1>1. Rank["rtable"] = 8 /\ {"rtable"} \subseteq Locks
  BY RankValues, LockNames
<1>2. A \in Holdings
  BY DEF Ctx
<1>3. B \in Holdings /\ Ctx(B, 9) /\ Ctx(B, 18)
  BY <1>1, <1>2, EnterAt, ModeNames
<1>4. Owns(B, "rtable")
  BY <1>2, Added, OwnsHas, ModeNames
<1> HIDE DEF B
<1>5. Stable(B, DelRoute)
  BY <1>3, <1>4, DelRouteKeeps
<1>6. Stable(A, Writing("rtable", DelRoute))
  BY <1>2, <1>5, CtxWriting, RankValues, LockNames DEF B
<1>7. Stable(A, SendToSocket)
  BY <1>2, SendToSocketKeeps
<1> QED BY <1>2, <1>6, <1>7, StSeq DEF CliIpRouteDel

(* ActivateRoutes, with rtable held for writing: takes no lock.                      *)
LEMMA ActivateRoutesKeeps ==
  ASSUME NEW A, Ctx(A, 18), Owns(A, "rtable")
  PROVE  Stable(A, ActivateRoutes)
<1>1. A \in Holdings
  BY DEF Ctx
<1>2. Stable(A, Use({}, {"rtable"}))
  BY <1>1, StUse, LockNames DEF Use, MayRead, MayWrite, Guard, Free
<1>3. Stable(A, TriggerRtableModified)
  BY <1>1, TriggerRtableModifiedKeeps
<1> QED BY <1>1, <1>2, <1>3, StSeq DEF ActivateRoutes

(* IfaceUp, with if_list and rtable held for writing: takes locks from router_list   *)
(* on.                                                                               *)
LEMMA IfaceUpKeeps ==
  ASSUME NEW A, Ctx(A, 9), Owns(A, "if_list"), Owns(A, "rtable")
  PROVE  Stable(A, IfaceUp)
<1> DEFINE B == Plus(A, "router_list", "wr")
<1>1. Rank["router_list"] = 9 /\ {"router_list"} \subseteq Locks
  BY RankValues, LockNames
<1>2. A \in Holdings /\ Ctx(A, 18)
  BY CtxMore DEF Ctx
<1>3. Has(A, "if_list")
  BY OwnsHas
<1>4. B \in Holdings /\ Ctx(B, 10)
  BY <1>1, <1>2, <1>3, EnterAt, ModeNames
<1>5. Owns(B, "router_list") /\ Has(B, "if_list")
  BY <1>2, <1>3, Added, OwnsHas, ModeNames
<1> HIDE DEF B
<1>6. Stable(A, Use({}, {"if_list"}))
  BY <1>2, <1>3, StUse, LockNames DEF Use, MayRead, MayWrite, Guard, Free
<1>7. Stable(A, ActivateRoutes)
  BY <1>2, <1>3, ActivateRoutesKeeps
<1>8. Stable(A, Bare({}, {"router_list"}))
  BY <1>2, <1>3, StBare, LockNames DEF Bare
<1>9. Stable(B, PropagatePwospfChanges("use"))
  BY <1>4, <1>5, PropagatePwospfChangesUseKeeps
<1>10. Stable(A, Writing("router_list", PropagatePwospfChanges("use")))
  BY <1>2, <1>3, <1>9, CtxWriting, RankValues, LockNames DEF B
<1> QED BY <1>2, <1>3, <1>6, <1>7, <1>8, <1>10, StSeq, StOpt DEF IfaceUp

(* IfaceDown, with if_list and rtable held for writing: takes locks from             *)
(* router_list on.                                                                   *)
LEMMA IfaceDownKeeps ==
  ASSUME NEW A, Ctx(A, 9), Owns(A, "if_list"), Owns(A, "rtable")
  PROVE  Stable(A, IfaceDown)
<1> DEFINE B == Plus(A, "router_list", "wr")
<1>1. Rank["router_list"] = 9 /\ {"router_list"} \subseteq Locks
  BY RankValues, LockNames
<1>2. A \in Holdings /\ Ctx(A, 18)
  BY CtxMore DEF Ctx
<1>3. Has(A, "if_list")
  BY OwnsHas
<1>4. B \in Holdings /\ Ctx(B, 10)
  BY <1>1, <1>2, <1>3, EnterAt, ModeNames
<1>5. Owns(B, "router_list") /\ Has(B, "if_list")
  BY <1>2, <1>3, Added, OwnsHas, ModeNames
<1> HIDE DEF B
<1>6. Stable(A, Use({}, {"if_list"}))
  BY <1>2, <1>3, StUse, LockNames DEF Use, MayRead, MayWrite, Guard, Free
<1>7. Stable(A, ActivateRoutes)
  BY <1>2, <1>3, ActivateRoutesKeeps
<1>8. Stable(A, Bare({}, {"router_list"}))
  BY <1>2, <1>3, StBare, LockNames DEF Bare
<1>9. Stable(B, PropagatePwospfChanges("use"))
  BY <1>4, <1>5, PropagatePwospfChangesUseKeeps
<1>10. Stable(A, Writing("router_list", PropagatePwospfChanges("use")))
  BY <1>2, <1>3, <1>9, CtxWriting, RankValues, LockNames DEF B
<1> QED BY <1>2, <1>3, <1>6, <1>7, <1>8, <1>10, StSeq, StOpt DEF IfaceDown

(* IfaceUpdate, with if_list held for writing: takes no lock.                        *)
LEMMA IfaceUpdateKeeps ==
  ASSUME NEW A, Ctx(A, 18), Owns(A, "if_list")
  PROVE  Stable(A, IfaceUpdate)
BY OwnsHas, StUse, LockNames DEF Ctx, IfaceUpdate, Use, MayRead, MayWrite, Guard, Free

(* CliIpInterface: takes locks from answer on.                                       *)
LEMMA CliIpInterfaceKeeps ==
  ASSUME NEW A, Ctx(A, 2)
  PROVE  Stable(A, CliIpInterface)
<1> DEFINE B == Plus(A, "if_list", "wr")
           C == Plus(B, "rtable", "wr")
<1>1. /\ Rank["if_list"] = 7 /\ Rank["rtable"] = 8
      /\ {"if_list", "rtable"} \subseteq Locks
  BY RankValues, LockNames
<1>2. A \in Holdings
  BY DEF Ctx
<1>3. B \in Holdings /\ Ctx(B, 8) /\ Ctx(B, 18)
  BY <1>1, <1>2, EnterAt, ModeNames
<1>4. Owns(B, "if_list")
  BY <1>2, Added, OwnsHas, ModeNames
<1>5. C \in Holdings /\ Ctx(C, 9)
  BY <1>1, <1>3, <1>4, EnterAt, ModeNames
<1>6. Owns(C, "if_list") /\ Owns(C, "rtable")
  BY <1>3, <1>4, Added, OwnsHas, ModeNames
<1> HIDE DEF B, C
<1>7. Stable(C, IfaceUp)
  BY <1>5, <1>6, IfaceUpKeeps
<1>8. Stable(C, IfaceDown)
  BY <1>5, <1>6, IfaceDownKeeps
<1>9. Stable(C, IfaceUp \cup IfaceDown)
  BY <1>5, <1>6, <1>7, <1>8, StUnion
<1>10. Stable(B, Writing("rtable", IfaceUp \cup IfaceDown))
  BY <1>3, <1>4, <1>9, CtxWriting, RankValues, LockNames DEF C
<1>11. Stable(A, Writing("if_list", Writing("rtable", IfaceUp \cup IfaceDown)))
  BY <1>2, <1>10, CtxWriting, RankValues, LockNames DEF B
<1>12. Stable(B, IfaceUpdate)
  BY <1>3, <1>4, IfaceUpdateKeeps
<1>13. Stable(A, Writing("if_list", IfaceUpdate))
  BY <1>2, <1>12, CtxWriting, RankValues, LockNames DEF B
<1>14. Stable(A, SendToSocket)
  BY <1>2, SendToSocketKeeps
<1> QED BY <1>2, <1>11, <1>13, <1>14, StSeq, StOpt, StUnion DEF CliIpInterface

(* CliPwospfSendHello: takes locks from answer on.                                   *)
LEMMA CliPwospfSendHelloKeeps ==
  ASSUME NEW A, Ctx(A, 2)
  PROVE  Stable(A, CliPwospfSendHello)
<1> DEFINE B == Plus(A, "if_list", "wr")
<1>1. Rank["if_list"] = 7 /\ {"if_list"} \subseteq Locks
  BY RankValues, LockNames
<1>2. A \in Holdings
  BY DEF Ctx
<1>3. B \in Holdings /\ Ctx(B, 8) /\ Ctx(B, 9)
  BY <1>1, <1>2, EnterAt, ModeNames
<1>4. Owns(B, "if_list")
  BY <1>2, Added, OwnsHas, ModeNames
<1> HIDE DEF B
<1>5. Stable(B, BroadcastHello)
  BY <1>3, <1>4, BroadcastHelloKeeps
<1>6. Stable(A, Writing("if_list", BroadcastHello))
  BY <1>2, <1>5, CtxWriting, RankValues, LockNames DEF B
<1>7. Stable(A, SendToSocket)
  BY <1>2, SendToSocketKeeps
<1> QED BY <1>2, <1>6, <1>7, StSeq DEF CliPwospfSendHello

(* CliPwospfSendLsu: takes locks from answer on.                                     *)
LEMMA CliPwospfSendLsuKeeps ==
  ASSUME NEW A, Ctx(A, 2)
  PROVE  Stable(A, CliPwospfSendLsu)
<1>1. A \in Holdings /\ Ctx(A, 9)
  BY CtxMore DEF Ctx
<1>2. Stable(A, FloodUnderRouterList)
  BY <1>1, FloodUnderRouterListKeeps
<1>3. Stable(A, SendToSocket)
  BY <1>1, SendToSocketKeeps
<1> QED BY <1>1, <1>2, <1>3, StSeq DEF CliPwospfSendLsu

(* SendIcmpEchoRequest: takes locks from write on.                                   *)
LEMMA SendIcmpEchoRequestKeeps ==
  ASSUME NEW A, Ctx(A, 15)
  PROVE  Stable(A, SendIcmpEchoRequest)
<1>1. A \in Holdings
  BY DEF Ctx
<1>2. Stable(A, Bare({"if_list", "rtable", "arp_cache"}, {}))
  BY <1>1, StBare, LockNames DEF Bare
<1>3. Stable(A, SendPacket)
  BY <1>1, SendPacketKeeps
<1>4. Stable(A, Bare({}, {"arp_queue"}))
  BY <1>1, StBare, LockNames DEF Bare
<1> QED BY <1>1, <1>2, <1>3, <1>4, StSeq, StUnion, StOpt DEF SendIcmpEchoRequest

(* The wait of cli_sping for its reply: the condition gives up the lock once.        *)
LEMMA WaitForReplyKeeps ==
  ASSUME NEW A, Ctx(A, 11)
  PROVE  Stable(A, WaitForReply)
<1> DEFINE B == Plus(A, "sping_queue", "wr")
<1>1. Rank["sping_queue"] = 11 /\ "sping_queue" \in Locks \ {"answer"}
  BY RankValues, LockNames
<1>2. B \in Holdings /\ Owns(B, "sping_queue")
  BY <1>1, EnterAt, Added, ModeNames
<1> HIDE DEF B
<1>3. Stable(B, Use({}, {"sping_queue"}))
  BY <1>2, StUse, LockNames DEF Use, MayRead, MayWrite, Guard, Free
<1>4. Stable(B, Opt(Use({}, {"sping_queue"})))
  BY <1>2, <1>3, StOpt
<1>5. Stable(A, Writing("sping_queue", Opt(Use({}, {"sping_queue"}))))
  BY <1>1, <1>4, CtxWriting DEF B
<1>6. Stable(A, Wr("sping_queue") ++ Rel("sping_queue"))
  BY <1>1, TakeAgain
<1> QED BY <1>5, <1>6, StSeq DEF WaitForReply

(* CliSping: takes locks from answer on.                                             *)
LEMMA CliSpingKeeps ==
  ASSUME NEW A, Ctx(A, 2)
  PROVE  Stable(A, CliSping)
<1>1. A \in Holdings /\ Ctx(A, 11) /\ Ctx(A, 15)
  BY CtxMore DEF Ctx
<1>2. Stable(A, SendIcmpEchoRequest)
  BY <1>1, SendIcmpEchoRequestKeeps
<1>3. Stable(A, WaitForReply)
  BY <1>1, WaitForReplyKeeps
<1>4. Stable(A, SendToSocket)
  BY <1>1, SendToSocketKeeps
<1> QED BY <1>1, <1>2, <1>3, <1>4, StSeq, StOpt DEF CliSping

(* A command, called from the command line or from the web server.                   *)
LEMMA CommandsKeep ==
  ASSUME NEW A, Ctx(A, 2)
  PROVE  Stable(A, Commands)
<1>1. A \in Holdings /\ Ctx(A, 2)
  BY DEF Ctx
<1>2. Stable(A, CliShowIpArp) /\ Stable(A, CliShowIpIface)
  BY <1>1, CliShowIpArpKeeps, CliShowIpIfaceKeeps
<1>3. Stable(A, CliShowIpRtable) /\ Stable(A, CliShowPwospfIface)
  BY <1>1, CliShowIpRtableKeeps, CliShowPwospfIfaceKeeps
<1>4. Stable(A, CliShowPwospfRouterList) /\ Stable(A, CliShowPwospfInfo)
  BY <1>1, CliShowPwospfRouterListKeeps, CliShowPwospfInfoKeeps
<1>5. Stable(A, CliShowHwArpCache) /\ Stable(A, CliShowHwRtable)
  BY <1>1, CliShowHwArpCacheKeeps, CliShowHwRtableKeeps
<1>6. Stable(A, CliHwInfo) /\ Stable(A, CliIpArpAdd)
  BY <1>1, CliHwInfoKeeps, CliIpArpAddKeeps
<1>7. Stable(A, CliIpArpDel) /\ Stable(A, CliNukeArpCache)
  BY <1>1, CliIpArpDelKeeps, CliNukeArpCacheKeeps
<1>8. Stable(A, CliNukeHwArp) /\ Stable(A, CliIpRouteAdd)
  BY <1>1, CliNukeHwArpKeeps, CliIpRouteAddKeeps
<1>9. Stable(A, CliIpRouteDel) /\ Stable(A, CliIpInterface)
  BY <1>1, CliIpRouteDelKeeps, CliIpInterfaceKeeps
<1>10. Stable(A, CliPwospfSendHello) /\ Stable(A, CliPwospfSendLsu)
  BY <1>1, CliPwospfSendHelloKeeps, CliPwospfSendLsuKeeps
<1>11. Stable(A, CliSping) /\ Stable(A, CliShowHwInterface)
  BY <1>1, CliSpingKeeps, CliShowHwInterfaceKeeps
<1>12. Stable(A, CliHwInterfaceSet) /\ Stable(A, CliHwInterfaceAdd)
  BY <1>1, CliHwInterfaceSetKeeps, CliHwInterfaceAddKeeps
<1>13. Stable(A, CliHwCounters) /\ Stable(A, CliHelp)
  BY <1>1, CliHwCountersKeeps, CliHelpKeeps
<1>14. Stable(A, CliShowVns) /\ Stable(A, CliPwospfSet)
  BY <1>1, CliShowVnsKeeps, CliPwospfSetKeeps
<1> QED BY <1>2, <1>3, <1>4, <1>5, <1>6, <1>7, <1>8, <1>9, <1>10, <1>11, <1>12, <1>13,
      <1>14 DEF Commands, Stable, Keeps

(* CliCommandLpm, with cli_commands held: takes no lock.                             *)
LEMMA CliCommandLpmKeeps ==
  ASSUME NEW A, Ctx(A, 18), Has(A, "cli_commands")
  PROVE  Stable(A, CliCommandLpm)
BY OwnsHas, StUse, LockNames DEF Ctx, CliCommandLpm, Use, MayRead, MayWrite, Guard, Free

(* ProcessClientRequest: takes locks from answer on.                                 *)
LEMMA ProcessClientRequestKeeps ==
  ASSUME NEW A, Ctx(A, 2)
  PROVE  Stable(A, ProcessClientRequest)
<1>1. A \in Holdings
  BY DEF Ctx
<1>2. Stable(A, Bare({"cli_commands"}, {}))
  BY <1>1, StBare, LockNames DEF Bare
<1>3. Stable(A, Commands)
  BY <1>1, CommandsKeep
<1> QED BY <1>1, <1>2, <1>3, StSeq DEF ProcessClientRequest

(* CliMain: takes locks from answer on.                                              *)
LEMMA CliMainKeeps ==
  ASSUME NEW A, Ctx(A, 2)
  PROVE  Stable(A, CliMain)
BY CallTransportKeeps DEF CliMain

(* WwwMain: takes locks from answer on.                                              *)
LEMMA WwwMainKeeps ==
  ASSUME NEW A, Ctx(A, 2)
  PROVE  Stable(A, WwwMain)
<1> DEFINE B == Plus(A, "www_queue", "wr")
<1>1. Rank["www_queue"] = 12 /\ {"www_queue"} \subseteq Locks
  BY RankValues, LockNames
<1>2. A \in Holdings
  BY DEF Ctx
<1>3. B \in Holdings /\ Ctx(B, 13)
  BY <1>1, <1>2, EnterAt, ModeNames
<1>4. Owns(B, "www_queue")
  BY <1>2, Added, OwnsHas, ModeNames
<1> HIDE DEF B
<1>5. Stable(A, CallTransport)
  BY <1>2, CallTransportKeeps
<1>6. Stable(B, Use({}, {"www_queue"}))
  BY <1>3, <1>4, StUse, LockNames DEF Use, MayRead, MayWrite, Guard, Free
<1>7. Stable(A, Writing("www_queue", Use({}, {"www_queue"})))
  BY <1>2, <1>6, CtxWriting, RankValues, LockNames DEF B
<1> QED BY <1>2, <1>5, <1>7, StSeq DEF WwwMain

(* ListCommands: takes locks from cli_commands on.                                   *)
LEMMA ListCommandsKeeps ==
  ASSUME NEW A, Ctx(A, 1)
  PROVE  Stable(A, ListCommands)
<1> DEFINE B == Plus(A, "cli_commands", "rd")
<1>1. Rank["cli_commands"] = 1 /\ {"cli_commands"} \subseteq Locks
  BY RankValues, LockNames
<1>2. A \in Holdings
  BY DEF Ctx
<1>3. B \in Holdings /\ Ctx(B, 2)
  BY <1>1, <1>2, EnterAt, ModeNames
<1>4. Has(B, "cli_commands")
  BY <1>2, Added, OwnsHas, ModeNames
<1> HIDE DEF B
<1>5. Stable(B, Use({"cli_commands"}, {}))
  BY <1>3, <1>4, StUse, LockNames DEF Use, MayRead, MayWrite, Guard, Free
<1>6. Stable(A, Reading("cli_commands", Use({"cli_commands"}, {})))
  BY <1>2, <1>5, CtxReading, RankValues, LockNames DEF B
<1> QED BY <1>2, <1>6 DEF ListCommands

(* CommandPage: takes locks from cli_commands on.                                    *)
LEMMA CommandPageKeeps ==
  ASSUME NEW A, Ctx(A, 1)
  PROVE  Stable(A, CommandPage)
<1> DEFINE B == Plus(A, "cli_commands", "rd")
<1>1. Rank["cli_commands"] = 1 /\ {"cli_commands"} \subseteq Locks
  BY RankValues, LockNames
<1>2. A \in Holdings /\ Ctx(A, 2)
  BY CtxMore DEF Ctx
<1>3. B \in Holdings /\ Ctx(B, 2) /\ Ctx(B, 18)
  BY <1>1, <1>2, EnterAt, ModeNames
<1>4. Has(B, "cli_commands")
  BY <1>2, Added, OwnsHas, ModeNames
<1> HIDE DEF B
<1>5. Stable(A, SendToSocket)
  BY <1>2, SendToSocketKeeps
<1>6. Stable(B, CliCommandLpm)
  BY <1>3, <1>4, CliCommandLpmKeeps
<1>7. Stable(B, Commands)
  BY <1>3, <1>4, CommandsKeep
<1>8. Stable(B, CliCommandLpm ++ Commands)
  BY <1>3, <1>4, <1>6, <1>7, StSeq
<1>9. Stable(A, Reading("cli_commands", CliCommandLpm ++ Commands))
  BY <1>2, <1>8, CtxReading, RankValues, LockNames DEF B
<1> QED BY <1>2, <1>5, <1>9, StSeq DEF CommandPage

(* ServiceRequest: takes locks from cli_commands on.                                 *)
LEMMA ServiceRequestKeeps ==
  ASSUME NEW A, Ctx(A, 1)
  PROVE  Stable(A, ServiceRequest)
<1>1. A \in Holdings /\ Ctx(A, 2) /\ Ctx(A, 14)
  BY CtxMore DEF Ctx
<1>2. Stable(A, ListCommands)
  BY <1>1, ListCommandsKeeps
<1>3. Stable(A, SendToSocket)
  BY <1>1, SendToSocketKeeps
<1>4. Stable(A, SprintHwStats)
  BY <1>1, SprintHwStatsKeeps
<1>5. Stable(A, CommandPage)
  BY <1>1, CommandPageKeeps
<1> QED BY <1>1, <1>2, <1>3, <1>4, <1>5, StUnion, StSeq DEF ServiceRequest

(* A web client thread: it waits on the queue and serves with no lock held.          *)
LEMMA WwwClientThreadKeeps ==
  ASSUME NEW A, Ctx(A, 1)
  PROVE  Stable(A, WwwClientThread)
<1> DEFINE B == Plus(A, "www_queue", "wr")
           Q == Wr("www_queue")
           R == Rel("www_queue")
           U == Use({}, {"www_queue"})
<1>1. Rank["www_queue"] = 12 /\ "www_queue" \in Locks \ {"answer"}
  BY RankValues, LockNames
<1>2. B \in Holdings /\ Owns(B, "www_queue")
  BY <1>1, EnterAt, Added, ModeNames
<1>3. Keeps(A, Q, {B}) /\ Keeps(B, R, {A})
  BY <1>1, TakeWr, Drop, ModeNames
<1> HIDE DEF B
<1>4. Keeps(B, U, {B})
  BY <1>2, StUse, LockNames DEF Stable, Use, MayRead, MayWrite, Guard, Free
<1>5. Keeps(A, ServiceRequest, {A})
  BY ServiceRequestKeeps DEF Stable
<1> HIDE DEF Q, R, U
<1>6. Keeps(B, R ++ Q, {B}) /\ Keeps(B, U ++ R, {A})
  BY <1>3, <1>4, Then
<1>7. Keeps(B, R ++ Q ++ R, {A}) /\ Keeps(B, U ++ R ++ ServiceRequest, {A})
  BY <1>3, <1>5, <1>6, Then
<1>8. Keeps(B, (R ++ Q ++ R) \cup (U ++ R ++ ServiceRequest), {A})
  BY <1>7, UnionKeeps
<1>9. Keeps(A, Q ++ ((R ++ Q ++ R) \cup (U ++ R ++ ServiceRequest)), {A})
  BY <1>3, <1>8, Then
<1> QED BY <1>9 DEF WwwClientThread, Stable, Q, R, U

(* FindSrcip: takes locks from if_list on.                                           *)
LEMMA FindSrcipKeeps ==
  ASSUME NEW A, Ctx(A, 7)
  PROVE  Stable(A, FindSrcip)
<1> DEFINE B == Plus(A, "if_list", "rd")
           C == Plus(B, "rtable", "rd")
<1>1. /\ Rank["if_list"] = 7 /\ Rank["rtable"] = 8
      /\ {"if_list", "rtable"} \subseteq Locks
  BY RankValues, LockNames
<1>2. A \in Holdings
  BY DEF Ctx
<1>3. B \in Holdings /\ Ctx(B, 8)
  BY <1>1, <1>2, EnterAt, ModeNames
<1>4. Has(B, "if_list")
  BY <1>2, Added, OwnsHas, ModeNames
<1>5. C \in Holdings /\ Ctx(C, 9)
  BY <1>1, <1>3, <1>4, EnterAt, ModeNames
<1>6. Has(C, "if_list") /\ Has(C, "rtable")
  BY <1>3, <1>4, Added, OwnsHas, ModeNames
<1> HIDE DEF B, C
<1>7. Stable(C, Use({"if_list", "rtable"}, {}))
  BY <1>5, <1>6, StUse, LockNames DEF Use, MayRead, MayWrite, Guard, Free
<1>8. Stable(B, Reading("rtable", Use({"if_list", "rtable"}, {})))
  BY <1>3, <1>4, <1>7, CtxReading, RankValues, LockNames DEF C
<1>9. Stable(A, Reading("if_list", Reading("rtable", Use({"if_list", "rtable"}, {}))))
  BY <1>2, <1>8, CtxReading, RankValues, LockNames DEF B
<1> QED BY <1>2, <1>9 DEF FindSrcip

(* The transport thread.  Whoever asks it waits for it from the first request on: it *)
(* never waits for an answer itself.                                                 *)
LEMMA TransportThreadKeeps ==
  ASSUME NEW A, Ctx(A, 5)
  PROVE  Keeps(A, TransportThread, {A} \cup Astray)
<1> DEFINE B == Plus(A, "mbox", "wr")
           F == Do("fetch", "mbox", {}, {"mbox"})
           N == Do("answer", "answer", {}, {})
           K == {A} \cup Astray
<1>1. Rank["mbox"] = 17 /\ "mbox" \in Locks \ {"answer"}
  BY RankValues, LockNames
<1>2. B \in Holdings /\ Owns(B, "mbox")
  BY <1>1, EnterAt, Added, ModeNames
<1> HIDE DEF B
<1>3. Stable(B, F)
  BY <1>2, StMail
<1> HIDE DEF F
<1>4. Stable(A, Writing("mbox", F))
  BY <1>1, <1>3, CtxWriting DEF B
<1>5. A \in Holdings /\ Ctx(A, 7)
  BY CtxMore DEF Ctx
<1>6. Stable(A, Opt(FindSrcip))
  BY <1>5, FindSrcipKeeps, StOpt
<1>7. Keeps(A, Opt(SendIpPacket), K)
  <2>1. Keeps(A, SendIpPacket, K)
    BY SendIpPacketKeeps
  <2>2. Keeps(A, Skip, K)
    BY <1>5, SkipStable, Weaken DEF Stable
  <2> QED BY <2>1, <2>2, UnionKeeps DEF Opt
<1>8. \A C \in K : Keeps(C, N, K)
  <2> SUFFICES ASSUME NEW C \in K PROVE Keeps(C, N, K)
    OBVIOUS
  <2>1. C \in Holdings
    BY <1>5 DEF Astray
  <2>2. Keeps(C, N, {C})
    BY <2>1, StAnswer DEF Stable
  <2>3. {C} \subseteq K
    OBVIOUS
  <2> HIDE DEF K, N
  <2> QED BY <2>2, <2>3, Weaken
<1> HIDE DEF N
<1>k. K = {A} \cup Astray
  OBVIOUS
<1> HIDE DEF K
<1>9. Keeps(A, Writing("mbox", F) ++ Opt(FindSrcip), {A})
  BY <1>4, <1>6, Then DEF Stable
<1>10. Keeps(A, Writing("mbox", F) ++ Opt(FindSrcip) ++ Opt(SendIpPacket), K)
  BY <1>7, <1>9, Then
<1>11. Keeps(A, Writing("mbox", F) ++ Opt(FindSrcip) ++ Opt(SendIpPacket) ++ N, K)
  BY <1>8, <1>10, SeqKeeps
<1> QED BY <1>11, <1>k DEF TransportThread, F, N

(* AddLocalIpFilter: takes locks from filters on.                                    *)
LEMMA AddLocalIpFilterKeeps ==
  ASSUME NEW A, Ctx(A, 13)
  PROVE  Stable(A, AddLocalIpFilter)
<1> DEFINE B == Plus(A, "filters", "wr")
<1>1. Rank["filters"] = 13 /\ {"filters"} \subseteq Locks
  BY RankValues, LockNames
<1>2. A \in Holdings
  BY DEF Ctx
<1>3. B \in Holdings /\ Ctx(B, 14)
  BY <1>1, <1>2, EnterAt, ModeNames
<1>4. Owns(B, "filters")
  BY <1>2, Added, OwnsHas, ModeNames
<1> HIDE DEF B
<1>5. Stable(B, Use({}, {"filters"}))
  BY <1>3, <1>4, StUse, LockNames DEF Use, MayRead, MayWrite, Guard, Free
<1>6. Stable(A, Writing("filters", Use({}, {"filters"})))
  BY <1>2, <1>5, CtxWriting, RankValues, LockNames DEF B
<1>7. Stable(B, Use({}, {"filters", "filters_hw"}))
  BY <1>3, <1>4, StUse, LockNames DEF Use, MayRead, MayWrite, Guard, Free
<1>8. Stable(A, Writing("filters", Use({}, {"filters", "filters_hw"})))
  BY <1>2, <1>7, CtxWriting, RankValues, LockNames DEF B
<1> QED BY <1>2, <1>6, <1>8, StSeq DEF AddLocalIpFilter

(* InitAddInterface: takes locks from filters on.                                    *)
LEMMA InitAddInterfaceKeeps ==
  ASSUME NEW A, Ctx(A, 13)
  PROVE  Stable(A, InitAddInterface)
<1>1. A \in Holdings
  BY DEF Ctx
<1>2. Stable(A, Bare({}, {"if_list", "iface_hw"}))
  BY <1>1, StBare, LockNames DEF Bare
<1>3. Stable(A, AddLocalIpFilter)
  BY <1>1, AddLocalIpFilterKeeps
<1> QED BY <1>1, <1>2, <1>3, StSeq DEF InitAddInterface

(* InitRouterList: takes no lock.                                                    *)
LEMMA InitRouterListKeeps ==
  ASSUME NEW A, Ctx(A, 18)
  PROVE  Stable(A, InitRouterList)
BY StBare, LockNames DEF Ctx, InitRouterList, Bare

(* InitRtable: takes locks from rtable on.                                           *)
LEMMA InitRtableKeeps ==
  ASSUME NEW A, Ctx(A, 8)
  PROVE  Stable(A, InitRtable)
<1> DEFINE B == Plus(A, "rtable", "wr")
           C == Plus(A, "router_list", "wr")
<1>1. /\ Rank["rtable"] = 8 /\ Rank["router_list"] = 9
      /\ {"rtable", "router_list"} \subseteq Locks
  BY RankValues, LockNames
<1>2. A \in Holdings
  BY DEF Ctx
<1>3. B \in Holdings /\ Ctx(B, 9) /\ Ctx(B, 18)
  BY <1>1, <1>2, EnterAt, ModeNames
<1>4. Owns(B, "rtable")
  BY <1>2, Added, OwnsHas, ModeNames
<1>5. C \in Holdings /\ Ctx(C, 10)
  BY <1>1, <1>2, EnterAt, ModeNames
<1>6. Owns(C, "router_list")
  BY <1>2, Added, OwnsHas, ModeNames
<1> HIDE DEF B, C
<1>7. Stable(B, AddRoute)
  BY <1>3, <1>4, AddRouteKeeps
<1>8. Stable(B, Opt(AddRoute))
  BY <1>3, <1>4, <1>7, StOpt
<1>9. Stable(A, Writing("rtable", Opt(AddRoute)))
  BY <1>2, <1>8, CtxWriting, RankValues, LockNames DEF B
<1>10. Stable(C, Use({}, {"router_list"}))
  BY <1>5, <1>6, StUse, LockNames DEF Use, MayRead, MayWrite, Guard, Free
<1>11. Stable(A, Writing("router_list", Use({}, {"router_list"})))
  BY <1>2, <1>10, CtxWriting, RankValues, LockNames DEF C
<1> QED BY <1>2, <1>9, <1>11, StSeq, StOpt DEF InitRtable

(* InitCli: takes locks from cli_commands on.                                        *)
LEMMA InitCliKeeps ==
  ASSUME NEW A, Ctx(A, 1)
  PROVE  Stable(A, InitCli)
<1> DEFINE B == Plus(A, "cli_commands", "wr")
<1>1. Rank["cli_commands"] = 1 /\ {"cli_commands"} \subseteq Locks
  BY RankValues, LockNames
<1>2. A \in Holdings
  BY DEF Ctx
<1>3. B \in Holdings /\ Ctx(B, 2)
  BY <1>1, <1>2, EnterAt, ModeNames
<1>4. Owns(B, "cli_commands")
  BY <1>2, Added, OwnsHas, ModeNames
<1> HIDE DEF B
<1>5. Stable(B, Use({}, {"cli_commands"}))
  BY <1>3, <1>4, StUse, LockNames DEF Use, MayRead, MayWrite, Guard, Free
<1>6. Stable(A, Writing("cli_commands", Use({}, {"cli_commands"})))
  BY <1>2, <1>5, CtxWriting, RankValues, LockNames DEF B
<1> QED BY <1>2, <1>6 DEF InitCli

(* StartUp: takes locks from cli_commands on.                                        *)
LEMMA StartUpKeeps ==
  ASSUME NEW A, Ctx(A, 1)
  PROVE  Stable(A, StartUp)
<1>1. A \in Holdings /\ Ctx(A, 8) /\ Ctx(A, 13) /\ Ctx(A, 18)
  BY CtxMore DEF Ctx
<1>2. Stable(A, InitAddInterface)
  BY <1>1, InitAddInterfaceKeeps
<1>3. Stable(A, InitRouterList)
  BY <1>1, InitRouterListKeeps
<1>4. Stable(A, InitRtable)
  BY <1>1, InitRtableKeeps
<1>5. Stable(A, InitCli)
  BY <1>1, InitCliKeeps
<1> QED BY <1>1, <1>2, <1>3, <1>4, <1>5, StSeq DEF StartUp

--------------------------------------------------------------------------------
(* A thread that holds nothing may take any lock.                                    *)
LEMMA NothingHeld == {} \in Holdings /\ \A n \in 0 .. 18 : Ctx({}, n)
BY DEF Ctx, Under, Holdings

(* Every program keeps the rules from the holdings its thread rests with.             *)
LEMMA ProgramKeeps ==
  ASSUME NEW x \in Roles
  PROVE  /\ x = "transport" => \A A : Ctx(A, 5) => Keeps(A, Program[x], {A} \cup Astray)
         /\ x # "transport" => Keeps({}, Program[x], {{}} \cup Astray)
<1> DEFINE K == {{}} \cup Astray
<1>1. {} \in Holdings /\ Ctx({}, 1) /\ Ctx({}, 2) /\ Ctx({}, 3) /\ Ctx({}, 4) /\ Ctx({}, 5)
      /\ Ctx({}, 7) /\ Ctx({}, 9) /\ Ctx({}, 11) /\ Ctx({}, 14)
  BY NothingHeld
<1>2. ASSUME NEW p, Stable({}, p) PROVE Keeps({}, p, K)
  BY <1>2, Weaken DEF Stable
<1>3. Keeps({}, NetfpgaInput, K)
  BY <1>1, NetfpgaInputKeeps
<1> HIDE DEF K
<1>4. Keeps({}, StartUp, K) /\ Keeps({}, CliMain, K) /\ Keeps({}, ArpThread, K)
  BY <1>1, <1>2, StartUpKeeps, CliMainKeeps, ArpThreadKeeps
<1>5. Keeps({}, PwospfHelloThread, K) /\ Keeps({}, PwospfLsuThread, K)
  BY <1>1, <1>2, PwospfHelloThreadKeeps, PwospfLsuThreadKeeps
<1>6. Keeps({}, PwospfLsuTimeoutThread, K) /\ Keeps({}, PwospfLsuBcastThread, K)
  BY <1>1, <1>2, PwospfLsuTimeoutThreadKeeps, PwospfLsuBcastThreadKeeps
<1>7. Keeps({}, DijkstraThread, K) /\ Keeps({}, NetfpgaStats, K) /\ Keeps({}, SpingQueueCleanup, K)
  BY <1>1, <1>2, DijkstraThreadKeeps, NetfpgaStatsKeeps, SpingQueueCleanupKeeps
<1>8. Keeps({}, ProcessClientRequest, K) /\ Keeps({}, WwwMain, K) /\ Keeps({}, WwwClientThread, K)
  BY <1>1, <1>2, ProcessClientRequestKeeps, WwwMainKeeps, WwwClientThreadKeeps
<1>9. x # "transport" => Keeps({}, Program[x], K)
  BY <1>3, <1>4, <1>5, <1>6, <1>7, <1>8 DEF Roles, Program
<1>10. Program["transport"] = TransportThread
  BY DEF Program
<1>11. \A A : Ctx(A, 5) => Keeps(A, TransportThread, {A} \cup Astray)
  BY TransportThreadKeeps
<1> QED BY <1>9, <1>10, <1>11 DEF K

(* Every role has a program.                                                        *)
LEMMA ProgramTyped == \A x \in Roles : Program[x] \in Traces
<1> SUFFICES ASSUME NEW x \in Roles, NEW q \in Program[x] PROVE q \in Seq(Steps)
  BY DEF Traces
<1>0. Ctx({}, 5)
  BY NothingHeld
<1>1. CASE x = "transport"
  <2>1. Keeps({}, Program[x], {{}} \cup Astray)
    BY <1>0, <1>1, ProgramKeeps
  <2> QED BY <2>1 DEF Keeps
<1>2. CASE x # "transport"
  <2>1. Keeps({}, Program[x], {{}} \cup Astray)
    BY <1>2, ProgramKeeps
  <2> QED BY <2>1 DEF Keeps
<1> QED BY <1>1, <1>2

(* What a step leaves of a thread's traces are traces.                              *)
LEMMA AdvanceTyped ==
  ASSUME TypeOK, NEW t \in Threads, NEW s, Advance(t, s)
  PROVE  rest' \in [Threads -> SUBSET Seq(Steps)]
<1>1. \A q \in Seq(Steps) : q # <<>> => Tail(q) \in Seq(Steps)
  OBVIOUS
<1>2. rest[t] \subseteq Seq(Steps) /\ rest \in [Threads -> SUBSET Seq(Steps)]
  BY DEF TypeOK
<1>3. {Tail(q) : q \in {x \in rest[t] \ {<<>>} : Head(x) = s}} \subseteq Seq(Steps)
  BY <1>1, <1>2
<1> QED BY <1>2, <1>3 DEF Advance

(* The step a thread is before is one of Steps.                                     *)
LEMMA NextStepsTyped ==
  ASSUME TypeOK, NEW t \in Threads, NEW s \in NextSteps(t)
  PROVE  s \in Steps
<1>1. PICK q \in rest[t] \ {<<>>} : s = Head(q)
  BY DEF NextSteps
<1>2. q \in Seq(Steps) /\ q # <<>>
  BY <1>1 DEF TypeOK
<1> QED BY <1>1, <1>2

(* The variables keep their types, for any set of threads: no handler of any role   *)
(* takes a step other than those WaitsFor knows of.                                 *)
THEOREM TypeCorrect == Spec => []TypeOK
<1>1. Init => TypeOK
  <2> SUFFICES ASSUME Init PROVE TypeOK
    OBVIOUS
  <2>1. StartUp \in Traces
    BY ProgramTyped DEF Roles, Program
  <2>2. Skip \in Traces
    BY DEF Skip, Traces
  <2> QED BY <2>1, <2>2, SconeLocksAssumption DEF Init, TypeOK, Traces
<1>2. TypeOK /\ [Next]_vars => TypeOK'
  <2> SUFFICES ASSUME TypeOK, [Next]_vars PROVE TypeOK'
    OBVIOUS
  <2>1. CASE UNCHANGED vars
    BY <2>1 DEF vars, TypeOK
  <2>2. ASSUME NEW t \in Threads, Begin(t) PROVE TypeOK'
    <3>1. Program[role[t]] \in SUBSET Seq(Steps)
      BY ProgramTyped DEF TypeOK, Traces
    <3> QED BY <2>2, <3>1 DEF Begin, TypeOK
  <2>3. ASSUME NEW t \in Threads, Acquire(t) PROVE TypeOK'
    <3>1. PICK s \in NextSteps(t) :
            /\ s.op \in Modes /\ Advance(t, s)
            /\ held' = [held EXCEPT ![t] = @ \cup {<<s.lock, s.op>>}]
      BY <2>3 DEF Acquire
    <3>2. rest' \in [Threads -> SUBSET Seq(Steps)]
      BY <3>1, AdvanceTyped
    <3>3. <<s.lock, s.op>> \in Locks \X Modes
      BY <3>1, NextStepsTyped DEF Steps
    <3>4. held' \in [Threads -> SUBSET (Locks \X Modes)]
      BY <3>1, <3>3 DEF TypeOK
    <3> QED BY <2>3, <3>2, <3>4 DEF Acquire, TypeOK
  <2>4. ASSUME NEW t \in Threads, Release(t) PROVE TypeOK'
    <3>1. PICK s \in NextSteps(t) :
            Advance(t, s) /\ held' = [held EXCEPT ![t] = @ \ ({s.lock} \X Modes)]
      BY <2>4 DEF Release
    <3>2. rest' \in [Threads -> SUBSET Seq(Steps)]
      BY <3>1, AdvanceTyped
    <3>3. held' \in [Threads -> SUBSET (Locks \X Modes)]
      BY <3>1 DEF TypeOK
    <3> QED BY <2>4, <3>2, <3>3 DEF Release, TypeOK
  <2>5. ASSUME NEW t \in Threads, Access(t) \/ Await(t) \/ Post(t) \/ Return(t) PROVE TypeOK'
    <3>1. \E s \in NextSteps(t) : Advance(t, s)
      BY <2>5 DEF Access, Await, Post, Return
    <3>2. rest' \in [Threads -> SUBSET Seq(Steps)]
      BY <3>1, AdvanceTyped
    <3> QED BY <2>5, <3>2 DEF Access, Await, Post, Return, TypeOK
  <2>6. ASSUME NEW t \in Threads, Fetch(t) \/ Answer(t) PROVE TypeOK'
    <3>1. \E s \in NextSteps(t) : Advance(t, s)
      BY <2>6 DEF Fetch, Answer
    <3>2. rest' \in [Threads -> SUBSET Seq(Steps)]
      BY <3>1, AdvanceTyped
    <3> QED BY <2>6, <3>2, SconeLocksAssumption DEF Fetch, Answer, TypeOK
  <2> QED BY <2>1, <2>2, <2>3, <2>4, <2>5, <2>6 DEF Next
<1> QED BY <1>1, <1>2, PTL DEF Spec

(* A set of ranks that has a larger one for each of its members is empty.           *)
LEMMA NoEndlessClimb ==
  ASSUME NEW R \in SUBSET (1 .. 17), \A m \in R : \E n \in R : m < n
  PROVE  R = {}
<1>1. 17 \notin R /\ 16 \notin R /\ 15 \notin R /\ 14 \notin R
  OBVIOUS
<1>2. 13 \notin R /\ 12 \notin R /\ 11 \notin R /\ 10 \notin R
  BY <1>1
<1>3. 9 \notin R /\ 8 \notin R /\ 7 \notin R /\ 6 \notin R
  BY <1>1, <1>2
<1>4. 5 \notin R /\ 4 \notin R /\ 3 \notin R /\ 2 \notin R /\ 1 \notin R
  BY <1>1, <1>2, <1>3
<1> QED BY <1>1, <1>2, <1>3, <1>4

(* Of threads that wait for each other in a circle, each waits for a lock of a       *)
(* higher rank than all it holds; the next one holds that lock and waits for a       *)
(* higher one still.  There are only 17.                                             *)
LEMMA OrderExcludesCycles == TypeOK /\ LockOrder => NoCycle
<1> SUFFICES ASSUME TypeOK, LockOrder,
                    NEW B \in (SUBSET Threads) \ {{}},
                    \A t \in B : \E s \in NextSteps(t) : WaitsFor(t, s) \cap B # {}
             PROVE  FALSE
  BY DEF NoCycle
<1> DEFINE R == {n \in 1 .. 17 : \E t \in B : \E s \in NextSteps(t) :
                         WaitsFor(t, s) \cap B # {} /\ Rank[s.lock] = n}
<1>1. ASSUME NEW t \in B, NEW s \in NextSteps(t), NEW u \in WaitsFor(t, s)
      PROVE  s.op \in Waits /\ s.lock \in Locks /\ s.lock \in Binds(u)
  <2>1. s \in Steps
    BY NextStepsTyped
  <2>2. s.lock \in Locks /\ (s.op = "await" => s.lock = "answer")
    BY <2>1 DEF Steps
  <2>3. CASE s.op = "rd" \/ s.op = "wr"
    <3>1. \E m \in Modes : <<s.lock, m>> \in held[u]
      BY <2>3, <1>1 DEF WaitsFor, Modes
    <3>2. s.lock \in {h[1] : h \in held[u]}
      BY <3>1
    <3> QED BY <2>2, <2>3, <3>2 DEF Binds, Waits
  <2>4. CASE s.op = "await"
    BY <2>2, <2>4, <1>1 DEF WaitsFor, Binds, Waits
  <2> QED BY <2>3, <2>4, <1>1 DEF WaitsFor
<1>2. ASSUME NEW t \in B, NEW s \in NextSteps(t), WaitsFor(t, s) \cap B # {}
      PROVE  Rank[s.lock] \in R
  BY <1>1, <1>2, LockNames
<1>3. \A m \in R : \E n \in R : m < n
  <2> SUFFICES ASSUME NEW m \in R PROVE \E n \in R : m < n
    OBVIOUS
  <2>0. PICK t \in B : \E s \in NextSteps(t) : WaitsFor(t, s) \cap B # {} /\ Rank[s.lock] = m
    OBVIOUS
  <2>1. PICK s \in NextSteps(t) : WaitsFor(t, s) \cap B # {} /\ Rank[s.lock] = m
    BY <2>0
  <2>2. PICK u \in B : u \in WaitsFor(t, s)
    BY <2>1
  <2>3. PICK v \in NextSteps(u) : WaitsFor(u, v) \cap B # {}
    OBVIOUS
  <2>4. v.op \in Waits
    BY <1>1, <2>3
  <2>5. Rank[s.lock] < Rank[v.lock]
    BY <1>1, <2>2, <2>4 DEF LockOrder
  <2> QED BY <1>2, <2>1, <2>3, <2>5
<1>4. R # {}
  BY <1>2
<1>5. R \in SUBSET (1 .. 17)
  OBVIOUS
<1> HIDE DEF R
<1> QED BY <1>3, <1>4, <1>5, NoEndlessClimb

--------------------------------------------------------------------------------
(* The transport thread answers in all it does, as if it held a lock for it.          *)
Base(t) == IF t = Transport THEN {<<"answer", "rd">>} ELSE {}

(* What thread t holds, and whether it has passed over unlock calls.                  *)
Own(t) == held[t] \cup Base(t) \cup (IF t \in leaks THEN {Leaked} ELSE {})

(* All that is left of every thread's pass keeps to the rules.                        *)
Follows ==
  \A t \in Threads : \A q \in rest[t] : \E B \in {Base(t)} \cup Astray : Runs(q, Own(t), B)

(* A lock held for writing is held by one thread.                                     *)
Exclusion ==
  \A t, u \in Threads : t # u =>
    \A l \in Locks : <<l, "wr">> \in held[t] => \A m \in Modes : <<l, m>> \notin held[u]

AnswerIsNoLock == \A t \in Threads : \A m \in Modes : <<"answer", m>> \notin held[t]
OneTransport == \A t \in Threads : role[t] = "transport" <=> t = Transport

IInv == TypeOK /\ OneTransport /\ AnswerIsNoLock /\ Exclusion /\ Follows

(* What a thread rests with lets it take the packet's locks.                         *)
LEMMA BaseHeld ==
  ASSUME NEW t \in Threads
  PROVE  Base(t) \in Holdings /\ Ctx(Base(t), 5)
<1>1. "answer" \in Locks /\ "rd" \in Modes /\ Rank["answer"] = 2
  BY LockNames, ModeNames, RankValues
<1> QED BY <1>1 DEF Base, Ctx, Under, Holdings

(* The step before which a thread is keeps the rules, and so does what is left.       *)
LEMMA StepFollows ==
  ASSUME TypeOK, Follows, NEW t \in Threads, NEW q \in rest[t], q # <<>>
  PROVE  /\ q \in Seq(Steps) /\ Head(q) \in Steps
         /\ \E B \in Holdings, C \in {Base(t)} \cup Astray :
              Moves(Head(q), Own(t), B) /\ Runs(Tail(q), B, C)
<1>1. q \in Seq(Steps) /\ Head(q) \in Steps
  BY DEF TypeOK
<1>2. PICK C \in {Base(t)} \cup Astray : Runs(q, Own(t), C)
  BY DEF Follows
<1>3. \E B \in Holdings : Moves(Head(q), Own(t), B) /\ Runs(Tail(q), B, C)
  BY <1>1, <1>2, RunsTail
<1> QED BY <1>1, <1>3

(* The step before which a thread is keeps the rules.                                *)
LEMMA NextMoves ==
  ASSUME TypeOK, Follows, NEW t \in Threads, NEW s \in NextSteps(t)
  PROVE  s \in Steps /\ \E B \in Holdings : Moves(s, Own(t), B)
<1>1. PICK q \in rest[t] \ {<<>>} : s = Head(q)
  BY DEF NextSteps
<1>2. q \in rest[t] /\ q # <<>>
  BY <1>1
<1> QED BY <1>1, <1>2, StepFollows

(* A step of t, once it is known that it leaves t what Moves says.                    *)
LEMMA AdvanceFollows ==
  ASSUME TypeOK, Follows, NEW t \in Threads, NEW s, Advance(t, s),
         \A B \in Holdings : Moves(s, Own(t), B) => B = Own(t)',
         \A u \in Threads : u # t => Own(u)' = Own(u)
  PROVE  Follows'
<1>1. rest' = [rest EXCEPT ![t] = {Tail(q) : q \in {x \in rest[t] \ {<<>>} : Head(x) = s}}]
      /\ rest \in [Threads -> SUBSET Seq(Steps)]
  BY DEF Advance, TypeOK
<1>2. ASSUME NEW u \in Threads, u # t, NEW q \in rest'[u]
      PROVE  \E C \in {Base(u)} \cup Astray : Runs(q, Own(u)', C)
  <2>1. q \in rest[u]
    BY <1>1, <1>2
  <2>2. Own(u)' = Own(u)
    BY <1>2
  <2> QED BY <2>1, <2>2 DEF Follows
<1>3. ASSUME NEW q \in rest'[t]
      PROVE  \E C \in {Base(t)} \cup Astray : Runs(q, Own(t)', C)
  <2>1. PICK x \in rest[t] \ {<<>>} : Head(x) = s /\ q = Tail(x)
    BY <1>1
  <2>2. x \in rest[t] /\ x # <<>>
    BY <2>1
  <2>3. PICK B \in Holdings, C \in {Base(t)} \cup Astray :
          Moves(Head(x), Own(t), B) /\ Runs(Tail(x), B, C)
    BY <2>2, StepFollows
  <2>4. B = Own(t)'
    BY <2>1, <2>3
  <2> QED BY <2>1, <2>3, <2>4
<1>4. \A u \in Threads : Base(u)' = Base(u)
  BY DEF Base
<1> QED BY <1>2, <1>3, <1>4 DEF Follows, Astray, Holdings

(* Initially every thread rests, or is the main thread before its first step.        *)
LEMMA InitHolds == Init => IInv
<1> SUFFICES ASSUME Init PROVE IInv
  OBVIOUS
<1>1. TypeOK
  <2>1. StartUp \in Traces
    BY ProgramTyped DEF Roles, Program
  <2>2. Skip \in Traces
    BY DEF Skip, Traces
  <2> QED BY <2>1, <2>2, SconeLocksAssumption DEF Init, TypeOK, Traces
<1>2. OneTransport /\ AnswerIsNoLock /\ Exclusion
  BY DEF Init, OneTransport, AnswerIsNoLock, Exclusion
<1>3. Follows
  <2> SUFFICES ASSUME NEW t \in Threads, NEW q \in rest[t]
               PROVE  \E B \in {Base(t)} \cup Astray : Runs(q, Own(t), B)
    BY DEF Follows
  <2>1. Own(t) = Base(t)
    BY DEF Init, Own
  <2>2. rest[t] = IF role[t] = "main" THEN StartUp ELSE Skip
    BY DEF Init
  <2>3. CASE role[t] = "main"
    <3>1. Base(t) = {}
      BY <2>3, <1>2 DEF OneTransport, Base
    <3>2. Stable({}, StartUp)
      BY NothingHeld, StartUpKeeps
    <3>3. Runs(q, {}, {})
      BY <2>2, <2>3, <3>2 DEF Stable, Keeps
    <3> QED BY <2>1, <3>1, <3>3
  <2>4. CASE role[t] # "main"
    <3>1. Stable(Base(t), Skip)
      BY BaseHeld, SkipStable
    <3>2. Runs(q, Base(t), Base(t))
      BY <2>2, <2>4, <3>1 DEF Stable, Keeps
    <3> QED BY <2>1, <3>2
  <2> QED BY <2>3, <2>4
<1> QED BY <1>1, <1>2, <1>3 DEF IInv

(* A pass ends only with the thread's locks given back, or after a leak.              *)
LEMMA RestOwns ==
  ASSUME TypeOK, Follows, NEW t \in Threads, <<>> \in rest[t], t \notin leaks
  PROVE  Own(t) = Base(t)
<1>1. PICK B \in {Base(t)} \cup Astray : Runs(<<>>, Own(t), B)
  BY DEF Follows
<1>2. Own(t) = B
  BY <1>1, RunsNothing
<1>3. Leaked \notin held[t] /\ Leaked \notin Base(t)
  BY Strings, LockNames, ModeNames DEF TypeOK, Base
<1>4. Own(t) \notin Astray
  BY <1>3 DEF Astray, Own
<1> QED BY <1>1, <1>2, <1>4

(* A pass begins with what the thread rests with, and its program keeps the rules.   *)
LEMMA BeginHolds ==
  ASSUME IInv, NEW t \in Threads, Begin(t)
  PROVE  Follows'
<1>1. /\ leaks = {} /\ <<>> \in rest[t] /\ rest' = [rest EXCEPT ![t] = Program[role[t]]]
      /\ UNCHANGED <<role, held, leaks>>
  BY DEF Begin
<1>2. TypeOK /\ Follows /\ OneTransport
  BY DEF IInv
<1>3. Own(t) = Base(t)
  BY <1>1, <1>2, RestOwns
<1>4. \A u \in Threads : Own(u)' = Own(u) /\ Base(u)' = Base(u)
  BY <1>1 DEF Own, Base
<1>5. role[t] \in Roles /\ (role[t] = "transport" <=> t = Transport)
  BY <1>2 DEF TypeOK, OneTransport
<1>6. Keeps(Base(t), Program[role[t]], {Base(t)} \cup Astray)
  <2>1. CASE t = Transport
    BY <2>1, <1>5, ProgramKeeps, BaseHeld
  <2>2. CASE t # Transport
    BY <2>2, <1>5, ProgramKeeps DEF Base
  <2> QED BY <2>1, <2>2
<1>7. ASSUME NEW u \in Threads, NEW q \in rest'[u]
      PROVE  \E B \in {Base(u)} \cup Astray : Runs(q, Own(u), B)
  <2>1. CASE u = t
    <3>1. q \in Program[role[t]]
      BY <2>1, <1>1, <1>2 DEF TypeOK
    <3> QED BY <2>1, <3>1, <1>3, <1>6 DEF Keeps
  <2>2. CASE u # t
    <3>1. q \in rest[u]
      BY <2>2, <1>1, <1>2 DEF TypeOK
    <3> QED BY <3>1, <1>2 DEF Follows
  <2> QED BY <2>1, <2>2
<1> QED BY <1>4, <1>7 DEF Follows, Astray, Holdings

(* A lock is taken when nobody holds it against the taker.                           *)
LEMMA AcquireHolds ==
  ASSUME IInv, NEW t \in Threads, Acquire(t)
  PROVE  Follows' /\ Exclusion' /\ AnswerIsNoLock'
<1>1. PICK s \in NextSteps(t) :
        /\ s.op \in Modes /\ WaitsFor(t, s) = {} /\ Advance(t, s)
        /\ held' = [held EXCEPT ![t] = held[t] \cup {<<s.lock, s.op>>}]
        /\ UNCHANGED <<role, asks, serves, leaks>>
  BY DEF Acquire
<1>2. TypeOK /\ Follows /\ Exclusion /\ AnswerIsNoLock
  BY DEF IInv
<1>3. s \in Steps /\ \E B \in Holdings : Moves(s, Own(t), B)
  BY <1>2, NextMoves
<1>4. s.lock \in Locks /\ s.lock # "answer"
  BY <1>1, <1>3 DEF Steps, Moves
<1>5. /\ held'[t] = held[t] \cup {<<s.lock, s.op>>}
      /\ \A u \in Threads : u # t => held'[u] = held[u]
  BY <1>1, <1>2 DEF TypeOK
<1>6. \A u \in Threads : u # t => Own(u)' = Own(u)
  BY <1>1, <1>5 DEF Own, Base
<1>7. ASSUME NEW B \in Holdings, Moves(s, Own(t), B) PROVE B = Own(t)'
  <2>1. B = Own(t) \cup {<<s.lock, s.op>>}
    BY <1>1, <1>7 DEF Moves
  <2> QED BY <2>1, <1>1, <1>5 DEF Own, Base
<1>8. Follows'
  BY <1>1, <1>2, <1>6, <1>7, AdvanceFollows
<1>9. AnswerIsNoLock'
  <2> SUFFICES ASSUME NEW u \in Threads, NEW m \in Modes PROVE <<"answer", m>> \notin held'[u]
    BY DEF AnswerIsNoLock
  <2>1. <<"answer", m>> \notin held[u]
    BY <1>2 DEF AnswerIsNoLock
  <2>2. <<"answer", m>> # <<s.lock, s.op>>
    BY <1>4
  <2> QED BY <2>1, <2>2, <1>5
<1>10. Exclusion'
  <2> SUFFICES ASSUME NEW a \in Threads, NEW b \in Threads, a # b, NEW l \in Locks,
                      <<l, "wr">> \in held'[a], NEW m \in Modes, <<l, m>> \in held'[b]
               PROVE  FALSE
    BY DEF Exclusion
  <2>1. CASE a # t /\ b # t
    BY <2>1, <1>2, <1>5 DEF Exclusion
  <2>2. CASE a = t
    <3>1. <<l, m>> \in held[b]
      BY <2>2, <1>5
    <3>2. <<l, "wr">> \notin held[a]
      BY <3>1, <1>2 DEF Exclusion
    <3>3. l = s.lock /\ s.op = "wr"
      BY <3>2, <2>2, <1>5
    <3>4. b \in WaitsFor(t, s)
      BY <3>1, <3>3 DEF WaitsFor
    <3> QED BY <3>4, <1>1
  <2>3. CASE b = t
    <3>1. <<l, "wr">> \in held[a]
      BY <2>3, <1>5
    <3>2. <<l, m>> \notin held[b]
      BY <3>1, <1>2 DEF Exclusion
    <3>3. l = s.lock /\ s.op = m
      BY <3>2, <2>3, <1>5
    <3>4. a \in WaitsFor(t, s)
      BY <3>1, <3>3, ModeNames DEF WaitsFor, Modes
    <3> QED BY <3>4, <1>1
  <2> QED BY <2>1, <2>2, <2>3
<1> QED BY <1>8, <1>9, <1>10

(* A lock is given back.                                                             *)
LEMMA ReleaseHolds ==
  ASSUME IInv, NEW t \in Threads, Release(t)
  PROVE  Follows' /\ Exclusion' /\ AnswerIsNoLock'
<1>1. PICK s \in NextSteps(t) :
        /\ s.op = "rel" /\ Advance(t, s)
        /\ held' = [held EXCEPT ![t] = held[t] \ ({s.lock} \X Modes)]
        /\ UNCHANGED <<role, asks, serves, leaks>>
  BY DEF Release
<1>2. TypeOK /\ Follows /\ Exclusion /\ AnswerIsNoLock
  BY DEF IInv
<1>3. s \in Steps /\ \E B \in Holdings : Moves(s, Own(t), B)
  BY <1>2, NextMoves
<1>4. s.lock \in Locks /\ s.lock # "answer"
  BY <1>1, <1>3 DEF Steps, Moves
<1>5. /\ held'[t] = held[t] \ ({s.lock} \X Modes)
      /\ \A u \in Threads : u # t => held'[u] = held[u]
  BY <1>1, <1>2 DEF TypeOK
<1>6. \A u \in Threads : u # t => Own(u)' = Own(u)
  BY <1>1, <1>5 DEF Own, Base
<1>7. ASSUME NEW B \in Holdings, Moves(s, Own(t), B) PROVE B = Own(t)'
  <2>1. "rel" \notin Modes
    BY DEF Modes
  <2>2. B = Own(t) \ ({s.lock} \X Modes)
    BY <2>1, <1>1, <1>7 DEF Moves
  <2>3. Leaked \notin {s.lock} \X Modes /\ <<"answer", "rd">> \notin {s.lock} \X Modes
    BY <1>4, Strings
  <2>4. Own(t)' = held'[t] \cup Base(t) \cup (IF t \in leaks THEN {Leaked} ELSE {})
    BY <1>1 DEF Own, Base
  <2> QED BY <2>2, <2>3, <2>4, <1>5 DEF Own, Base
<1>8. Follows'
  BY <1>1, <1>2, <1>6, <1>7, AdvanceFollows
<1>9. \A u \in Threads : held'[u] \subseteq held[u]
  BY <1>5
<1>10. AnswerIsNoLock' /\ Exclusion'
  BY <1>2, <1>9 DEF AnswerIsNoLock, Exclusion
<1> QED BY <1>8, <1>10

(* The steps that take and give back no lock.                                         *)
LEMMA OtherHolds ==
  ASSUME IInv, NEW t \in Threads,
         Access(t) \/ Post(t) \/ Await(t) \/ Fetch(t) \/ Answer(t)
  PROVE  Follows' /\ Exclusion' /\ AnswerIsNoLock'
<1>1. PICK s \in NextSteps(t) :
        /\ s.op \in {"use", "bare", "post", "await", "fetch", "answer"} /\ Advance(t, s)
        /\ UNCHANGED <<held, leaks>>
  BY DEF Access, Post, Await, Fetch, Answer
<1>2. TypeOK /\ Follows /\ Exclusion /\ AnswerIsNoLock
  BY DEF IInv
<1>3. \A u \in Threads : Own(u)' = Own(u)
  BY <1>1 DEF Own, Base
<1>4. ASSUME NEW B \in Holdings, Moves(s, Own(t), B) PROVE B = Own(t)'
  <2>1. s.op \notin Modes /\ s.op # "rel" /\ s.op # "leak"
    BY <1>1 DEF Modes
  <2>2. B = Own(t)
    BY <2>1, <1>4 DEF Moves
  <2> QED BY <2>2, <1>3
<1>5. Follows'
  BY <1>1, <1>2, <1>3, <1>4, AdvanceFollows
<1> QED BY <1>1, <1>2, <1>5 DEF AnswerIsNoLock, Exclusion

(* A handler returns past its unlock calls.                                          *)
LEMMA ReturnHolds ==
  ASSUME IInv, NEW t \in Threads, Return(t)
  PROVE  Follows' /\ Exclusion' /\ AnswerIsNoLock'
<1>1. PICK s \in NextSteps(t) :
        /\ s.op = "leak" /\ Advance(t, s) /\ leaks' = leaks \cup {t}
        /\ UNCHANGED <<role, held, asks, serves>>
  BY DEF Return
<1>2. TypeOK /\ Follows /\ Exclusion /\ AnswerIsNoLock
  BY DEF IInv
<1>3. \A u \in Threads : u # t => Own(u)' = Own(u)
  BY <1>1 DEF Own, Base
<1>4. ASSUME NEW B \in Holdings, Moves(s, Own(t), B) PROVE B = Own(t)'
  <2>1. s.op \notin Modes /\ s.op # "rel"
    BY <1>1 DEF Modes
  <2>2. B = Own(t) \cup {Leaked}
    BY <2>1, <1>1, <1>4 DEF Moves
  <2> QED BY <2>2, <1>1 DEF Own, Base
<1>5. Follows'
  BY <1>1, <1>2, <1>3, <1>4, AdvanceFollows
<1> QED BY <1>1, <1>2, <1>5 DEF AnswerIsNoLock, Exclusion

(* The inductive invariant: whatever is left of any thread's pass keeps the rules    *)
(* from what the thread holds, and a lock held for writing has one holder.           *)
THEOREM LocksInvariant == Spec => []IInv
<1>1. TypeOK /\ IInv /\ [Next]_vars /\ TypeOK' => IInv'
  <2> SUFFICES ASSUME IInv, [Next]_vars, TypeOK' PROVE IInv'
    OBVIOUS
  <2>1. OneTransport'
    <3>1. role' = role
      BY DEF Next, vars, Begin, Acquire, Release, Access, Post, Await, Fetch, Answer, Return
    <3> QED BY <3>1 DEF IInv, OneTransport
  <2>2. Follows' /\ Exclusion' /\ AnswerIsNoLock'
    <3>1. CASE UNCHANGED vars
      BY <3>1 DEF vars, IInv, Follows, Exclusion, AnswerIsNoLock, Own, Base, Astray, Holdings
    <3>2. ASSUME NEW t \in Threads, Begin(t) PROVE Follows' /\ Exclusion' /\ AnswerIsNoLock'
      <4>1. Follows'
        BY <3>2, BeginHolds
      <4>2. held' = held
        BY <3>2 DEF Begin
      <4> QED BY <4>1, <4>2 DEF IInv, Exclusion, AnswerIsNoLock
    <3>3. ASSUME NEW t \in Threads, Acquire(t) PROVE Follows' /\ Exclusion' /\ AnswerIsNoLock'
      BY <3>3, AcquireHolds
    <3>4. ASSUME NEW t \in Threads, Release(t) PROVE Follows' /\ Exclusion' /\ AnswerIsNoLock'
      BY <3>4, ReleaseHolds
    <3>5. ASSUME NEW t \in Threads,
                 Access(t) \/ Post(t) \/ Await(t) \/ Fetch(t) \/ Answer(t)
          PROVE  Follows' /\ Exclusion' /\ AnswerIsNoLock'
      BY <3>5, OtherHolds
    <3>6. ASSUME NEW t \in Threads, Return(t) PROVE Follows' /\ Exclusion' /\ AnswerIsNoLock'
      BY <3>6, ReturnHolds
    <3> QED BY <3>1, <3>2, <3>3, <3>4, <3>5, <3>6 DEF Next
  <2> QED BY <2>1, <2>2 DEF IInv
<1>2. IInv => TypeOK
  BY DEF IInv
<1> QED BY <1>1, <1>2, InitHolds, TypeCorrect, PTL DEF Spec

(* A step that waits keeps the order, so the thread before it does.                  *)
LEMMA InvariantOrders == IInv => LockOrder
<1> SUFFICES ASSUME IInv, NEW t \in Threads, NEW s \in NextSteps(t), s.op \in Waits,
                    NEW l \in Binds(t)
             PROVE  Rank[l] < Rank[s.lock]
  BY DEF LockOrder
<1>1. PICK B \in Holdings : Moves(s, Own(t), B)
  BY NextMoves DEF IInv
<1>2. Under(Own(t), Rank[s.lock])
  BY <1>1 DEF Moves
<1>3. \E h \in Own(t) : h[1] = l
  <2>1. CASE l \in {h[1] : h \in held[t]}
    BY <2>1 DEF Own
  <2>2. CASE t = Transport /\ l = "answer"
    <3>1. <<"answer", "rd">> \in Own(t) /\ <<"answer", "rd">>[1] = l
      BY <2>2 DEF Own, Base
    <3> QED BY <3>1
  <2> QED BY <2>1, <2>2 DEF Binds
<1> QED BY <1>2, <1>3 DEF Under

(* A thread at the end of its pass holds nothing it was not to keep.                 *)
LEMMA InvariantRests == IInv => RestsUnlocked
<1> SUFFICES ASSUME IInv, NEW t \in Threads, <<>> \in rest[t], t \notin leaks
             PROVE  held[t] = {}
  BY DEF RestsUnlocked
<1>1. Own(t) = Base(t)
  BY RestOwns DEF IInv
<1>2. held[t] \subseteq Base(t)
  BY <1>1 DEF Own
<1>3. <<"answer", "rd">> \notin held[t]
  BY ModeNames DEF IInv, AnswerIsNoLock
<1> QED BY <1>2, <1>3 DEF Base

(* What a thread may touch lies under a lock that it holds.                           *)
LEMMA GuardHeld ==
  ASSUME NEW t \in Threads, NEW d, d # "answer"
  PROVE  /\ MayWrite(Own(t), d) => d \notin Free /\ <<Guard(d), "wr">> \in held[t]
         /\ MayRead(Own(t), d) => d \in Free \/ \E m \in Modes : <<Guard(d), m>> \in held[t]
<1>1. Guard(d) # "answer"
  BY DEF Guard
<1>2. \A m \in Modes : <<Guard(d), m>> # Leaked /\ <<Guard(d), m>> \notin Base(t)
  BY <1>1 DEF Modes, Leaked, Base
<1>3. \A m \in Modes : <<Guard(d), m>> \in Own(t) => <<Guard(d), m>> \in held[t]
  BY <1>2 DEF Own
<1> QED BY <1>3, ModeNames DEF MayWrite, MayRead, Owns, Has

(* Two threads that touch the same data both hold its lock, one of them for          *)
(* writing.                                                                          *)
LEMMA InvariantGuards == IInv => NoRace
<1> SUFFICES ASSUME IInv, NEW t \in Threads, NEW u \in Threads, t # u,
                    NEW s \in NextSteps(t), NEW v \in NextSteps(u),
                    NEW d \in s.w \cap (v.r \cup v.w), s.op # "bare", v.op # "bare"
             PROVE  FALSE
  BY DEF NoRace
<1>1. /\ s \in Steps /\ \E B \in Holdings : Moves(s, Own(t), B)
      /\ v \in Steps /\ \E B \in Holdings : Moves(v, Own(u), B)
  BY NextMoves DEF IInv
<1>2. d # "answer" /\ MayWrite(Own(t), d)
  BY <1>1 DEF Moves
<1>3. MayRead(Own(u), d) \/ MayWrite(Own(u), d)
  BY <1>1 DEF Moves
<1>4. d \notin Free /\ <<Guard(d), "wr">> \in held[t]
  BY <1>2, GuardHeld
<1>5. \E m \in Modes : <<Guard(d), m>> \in held[u]
  BY <1>2, <1>3, <1>4, GuardHeld, ModeNames
<1>6. Guard(d) \in Locks
  BY <1>4 DEF IInv, TypeOK
<1> QED BY <1>4, <1>5, <1>6 DEF IInv, Exclusion

(* For any set of threads: every thread takes its locks in the one order, takes      *)
(* none twice, and asks the transport thread with none of the router's locks held.   *)
THEOREM OrderKept == Spec => []LockOrder
BY LocksInvariant, InvariantOrders, PTL

(* For any set of threads: no threads wait for each other in a circle, and a thread  *)
(* that has come to the end of a pass has given its locks back, unless it returned   *)
(* from send_ip_packet without a route or from a hello with another mask.            *)
THEOREM DeadlockFree == Spec => []NoDeadlock
<1>1. IInv => NoDeadlock
  BY InvariantOrders, InvariantRests, OrderExcludesCycles DEF IInv, NoDeadlock
<1> QED BY <1>1, LocksInvariant, PTL

(* For any set of threads: no thread changes guarded data while another one uses     *)
(* it, except where the code takes no lock.                                          *)
THEOREM RaceFree == Spec => []NoRace
BY LocksInvariant, InvariantGuards, PTL

================================================================================
