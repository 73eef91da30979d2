----------------------------- MODULE OmfProofs -----------------------------
(***************************************************************************)
(* Theorems about the OMF proxies: ResourceTree, for any number of         *)
(* resources and groups, and Application, for any bounds.                  *)
(*                                                                         *)
(* The tree and the lists of children agree (ListedOnce), and no resource  *)
(* is left without its parent (NoOrphans), although release_self deletes   *)
(* from the list it walks and a group subscription may call back at any    *)
(* time.  The state property of an application is true of the program      *)
(* until an EXIT crosses the write of a state.                             *)
(***************************************************************************)
EXTENDS ResourceTree, Application, FiniteSetTheorems, SequenceTheorems, TLAPS

(* No list holds a resource twice. *)
Distinct(s) == \A j, k \in DOMAIN s : s[j] = s[k] => j = k

(* Where a resource belongs: the condition of ListedOnce. *)
ChildOf(c, p) == c # Root /\ status[c] \in Alive /\ parent[c] = p

Parents ==
  \A c \in Resources :
    IF c = Root \/ status[c] = "none" THEN parent[c] = None ELSE parent[c] \in Resources

Lists ==
  \A p \in Resources :
    /\ Distinct(children[p])
    /\ \A c \in Resources : IsIn(c, children[p]) <=> ChildOf(c, p)

(* A resource hears a group only as a member, and only from its creation   *)
(* on; a resource whose own topic is not there yet has asked for no group. *)
Listens ==
  \A r \in Resources :
    /\ \A g \in listening[r] : membership[r][g] > 0
    /\ listening[r] # {} => status[r] \in {"ready", "failed", "revived"}
    /\ status[r] \in {"none", "pending"} => \A g \in Groups : pending[r][g] = 0

RootLives == status[Root] = "ready"

(* release_self runs for resources that were created, never for the root. *)
FramesLive ==
  \A k \in DOMAIN stack : stack[k].res # Root /\ status[stack[k].res] # "none"

IInv ==
  /\ TypeOK /\ Parents /\ Lists /\ Listens /\ RootLives /\ FramesLive /\ NoOrphans

-----------------------------------------------------------------------------
(* What Array#delete leaves of a list without repetitions. *)
LEMMA WithoutFacts ==
  ASSUME NEW R, NEW s \in Seq(R), NEW x, Distinct(s)
  PROVE  /\ Without(s, x) \in Seq(R)
         /\ Distinct(Without(s, x))
         /\ \A y : IsIn(y, Without(s, x)) <=> IsIn(y, s) /\ y # x
<1>1. CASE ~IsIn(x, s)
  BY <1>1 DEF Without, IsIn
<1>2. CASE IsIn(x, s)
  <2> DEFINE k == CHOOSE j \in DOMAIN s : s[j] = x
             n == Len(s)
             t == SubSeq(s, 1, k - 1) \o SubSeq(s, k + 1, n)
  <2>1. k \in DOMAIN s /\ s[k] = x
    BY <1>2 DEF IsIn
  <2>2. n \in Nat /\ DOMAIN s = 1 .. n /\ k \in 1 .. n
    BY <2>1
  <2>3. Without(s, x) = t
    BY <1>2 DEF Without
  <2> HIDE DEF k
  <2>4. /\ t \in Seq(R)
        /\ Len(t) = n - 1
        /\ \A j \in 1 .. n - 1 : t[j] = IF j < k THEN s[j] ELSE s[j + 1]
    <3>1. /\ SubSeq(s, 1, k - 1) \in Seq(R) /\ Len(SubSeq(s, 1, k - 1)) = k - 1
          /\ \A j \in 1 .. k - 1 : SubSeq(s, 1, k - 1)[j] = s[j]
      BY <2>2
    <3>2. /\ SubSeq(s, k + 1, n) \in Seq(R) /\ Len(SubSeq(s, k + 1, n)) = n - k
          /\ \A j \in 1 .. n - k : SubSeq(s, k + 1, n)[j] = s[k + j]
      <4>1. \A j \in k + 1 .. n : s[j] \in R
        BY <2>2, ElementOfSeq
      <4> DEFINE q == SubSeq(s, k + 1, n)
      <4> HIDE DEF n
      <4>2. /\ q \in Seq(R)
            /\ Len(q) = IF k + 1 <= n THEN n - (k + 1) + 1 ELSE 0
            /\ \A j \in 1 .. n - (k + 1) + 1 : q[j] = s[(k + 1) + j - 1]
        BY <4>1, <2>2, SubSeqProperties
      <4> HIDE DEF q
      <4>3. q \in Seq(R) /\ Len(q) = n - k
        BY <4>2, <2>2
      <4>4. ASSUME NEW j \in 1 .. n - k PROVE q[j] = s[k + j]
        <5>1. j \in 1 .. n - (k + 1) + 1 /\ (k + 1) + j - 1 = k + j
          BY <2>2
        <5> QED BY <5>1, <4>2
      <4>5. q \in Seq(R) /\ Len(q) = n - k /\ \A j \in 1 .. n - k : q[j] = s[k + j]
        BY <4>3, <4>4
      <4> QED BY <4>5, Zenon DEF q
    <3> DEFINE a == SubSeq(s, 1, k - 1)
               b == SubSeq(s, k + 1, n)
    <3> HIDE DEF a, b
    <3>3. /\ a \in Seq(R) /\ Len(a) = k - 1 /\ (\A j \in 1 .. k - 1 : a[j] = s[j])
          /\ b \in Seq(R) /\ Len(b) = n - k /\ (\A j \in 1 .. n - k : b[j] = s[k + j])
          /\ t = a \o b
      BY <3>1, <3>2 DEF a, b
    <3> HIDE DEF t, n
    <3>4. t \in Seq(R) /\ Len(t) = n - 1
      BY <3>3, <2>2, ConcatProperties
    <3>5. ASSUME NEW j \in 1 .. n - 1
          PROVE  t[j] = IF j < k THEN s[j] ELSE s[j + 1]
      <4>1. CASE j < k
        BY <4>1, <3>3, <2>2
      <4>2. CASE ~(j < k)
        <5>1. t[j] = b[j - (k - 1)]
          BY <4>2, <3>3, <2>2
        <5>2. j - (k - 1) \in 1 .. n - k /\ k + (j - (k - 1)) = j + 1
          BY <4>2, <2>2
        <5>3. b[j - (k - 1)] = s[k + (j - (k - 1))]
          BY <5>2, <3>3
        <5> QED BY <4>2, <5>1, <5>2, <5>3
      <4> QED BY <4>1, <4>2
    <3> QED BY <3>4, <3>5
  <2> HIDE DEF t, n
  <2>5. DOMAIN t = 1 .. n - 1
    BY <2>4, <2>2
  <2>6. Distinct(t)
    <3> SUFFICES ASSUME NEW i \in 1 .. n - 1, NEW j \in 1 .. n - 1, t[i] = t[j]
                 PROVE  i = j
      BY <2>5 DEF Distinct
    <3> DEFINE u == IF i < k THEN i ELSE i + 1
               v == IF j < k THEN j ELSE j + 1
    <3>1. u \in DOMAIN s /\ v \in DOMAIN s /\ s[u] = s[v]
      BY <2>2, <2>4
    <3>2. u = v
      BY <3>1 DEF Distinct
    <3> QED BY <3>2, <2>2
  <2>7. ASSUME NEW y PROVE IsIn(y, t) <=> IsIn(y, s) /\ y # x
    <3>1. ASSUME IsIn(y, t) PROVE IsIn(y, s) /\ y # x
      <4>1. PICK j \in 1 .. n - 1 : t[j] = y
        BY <3>1, <2>5 DEF IsIn
      <4> DEFINE u == IF j < k THEN j ELSE j + 1
      <4>2. u \in DOMAIN s /\ s[u] = y /\ u # k
        BY <4>1, <2>2, <2>4
      <4>3. s[u] # s[k]
        BY <4>2, <2>1 DEF Distinct
      <4> QED BY <4>2, <4>3, <2>1 DEF IsIn
    <3>2. ASSUME IsIn(y, s), y # x PROVE IsIn(y, t)
      <4>1. PICK i \in 1 .. n : s[i] = y
        BY <3>2, <2>2 DEF IsIn
      <4>2. i # k
        BY <4>1, <3>2, <2>1
      <4> DEFINE j == IF i < k THEN i ELSE i - 1
      <4>3. j \in 1 .. n - 1 /\ t[j] = s[i]
        <5>1. CASE i < k
          BY <5>1, <2>2, <2>4
        <5>2. CASE i > k
          <6>1. j = i - 1 /\ j \in 1 .. n - 1 /\ ~(j < k) /\ j + 1 = i
            BY <5>2, <2>2
          <6> HIDE DEF j
          <6> QED BY <6>1, <2>4
        <5> QED BY <5>1, <5>2, <4>2, <2>2
      <4> HIDE DEF j
      <4> QED BY <4>1, <4>3, <2>5 DEF IsIn
    <3> QED BY <3>1, <3>2
  <2> QED BY <2>3, <2>4, <2>6, <2>7
<1> QED BY <1>1, <1>2

-----------------------------------------------------------------------------
LEMMA InitIInv == Init => IInv
<1> SUFFICES ASSUME Init PROVE IInv
  OBVIOUS
<1> USE ResourceTreeAssumption
<1>1. TypeOK
  BY DEF Init, TypeOK, Statuses, Frames
<1>2. Parents /\ RootLives /\ FramesLive
  BY DEF Init, Parents, RootLives, FramesLive
<1>3. Lists
  BY DEF Init, Lists, Distinct, IsIn, ChildOf, Alive
<1>4. Listens
  BY DEF Init, Listens
<1>5. NoOrphans
  BY DEF Init, NoOrphans, Alive
<1> QED BY <1>1, <1>2, <1>3, <1>4, <1>5 DEF IInv

(* The new child was in no list and becomes the last of its parent's. *)
LEMMA CreateIInv ==
  ASSUME IInv, NEW p \in Resources, NEW c \in Resources, Create(p, c)
  PROVE  IInv'
<1> USE ResourceTreeAssumption
<1>a. /\ TypeOK /\ Parents /\ Lists /\ Listens /\ RootLives /\ FramesLive /\ NoOrphans
      /\ status[c] = "none" /\ Handles(p)
      /\ status' = [status EXCEPT ![c] = "pending"]
      /\ parent' = [parent EXCEPT ![c] = p]
      /\ children' = [children EXCEPT ![p] = Append(children[p], c)]
      /\ UNCHANGED <<stack, membership, listening, pending, result>>
  BY DEF IInv, Create
<1>b. c # Root /\ p # c /\ status[p] \in {"ready", "failed", "revived"}
  BY <1>a DEF RootLives, Handles, Listens
<1>1. TypeOK'
  BY <1>a DEF TypeOK, Statuses
<1>2. Parents' /\ RootLives' /\ FramesLive'
  BY <1>a, <1>b DEF TypeOK, Statuses, Parents, RootLives, FramesLive
<1>3. Lists'
  <2> DEFINE s == children[p]
             t == Append(s, c)
  <2>1. s \in Seq(Resources) /\ Distinct(s) /\ ~IsIn(c, s)
    BY <1>a DEF TypeOK, Lists, ChildOf, Alive
  <2>2. /\ Len(t) = Len(s) + 1 /\ t[Len(s) + 1] = c
        /\ \A k \in 1 .. Len(s) : t[k] = s[k]
        /\ Len(s) \in Nat /\ DOMAIN s = 1 .. Len(s) /\ DOMAIN t = 1 .. Len(s) + 1
    BY <2>1
  <2> HIDE DEF s, t
  <2>3. Distinct(t)
    BY <2>1, <2>2 DEF Distinct, IsIn
  <2>4. \A y : IsIn(y, t) <=> IsIn(y, s) \/ y = c
    BY <2>1, <2>2 DEF IsIn
  <2>5. \A q \in Resources : children'[q] = IF q = p THEN t ELSE children[q]
    BY <1>a DEF TypeOK, s, t
  <2>6. \A q, d \in Resources : ChildOf(d, q)' <=> ChildOf(d, q) \/ (d = c /\ q = p)
    BY <1>a, <1>b DEF TypeOK, ChildOf, Alive
  <2>7. ASSUME NEW q \in Resources
        PROVE  Distinct(children'[q]) /\ \A d \in Resources : IsIn(d, children'[q]) <=> ChildOf(d, q)'
    <3>1. Distinct(children[q]) /\ \A d \in Resources : IsIn(d, children[q]) <=> ChildOf(d, q)
      BY <1>a DEF Lists
    <3>2. CASE q = p
      BY <3>1, <3>2, <2>3, <2>4, <2>5, <2>6 DEF s
    <3>3. CASE q # p
      BY <3>1, <3>3, <2>5, <2>6
    <3> QED BY <3>2, <3>3
  <2> QED BY <2>7 DEF Lists
<1>4. Listens'
  BY <1>a, <1>b DEF TypeOK, Listens
<1>5. NoOrphans'
  BY <1>a, <1>b DEF TypeOK, NoOrphans, Alive, Parents
<1> QED BY <1>1, <1>2, <1>3, <1>4, <1>5 DEF IInv

LEMMA SubscribedIInv ==
  ASSUME IInv, NEW c \in Resources, NEW g \in Groups \cup {None}, NEW ok \in BOOLEAN,
         Subscribed(c, g, ok)
  PROVE  IInv'
<1> USE ResourceTreeAssumption
<1> DEFINE st == IF ok THEN "ready" ELSE "failed"
<1>a. /\ TypeOK /\ Parents /\ Lists /\ Listens /\ RootLives /\ FramesLive /\ NoOrphans
      /\ status[c] = "pending"
      /\ status' = [status EXCEPT ![c] = st]
      /\ pending' = IF g = None THEN pending ELSE Asked(c, g, 0)
      /\ UNCHANGED <<parent, children, stack, membership, listening, result>>
  BY DEF IInv, Subscribed
<1>b. st \in {"ready", "failed"}
  OBVIOUS
<1> HIDE DEF st
<1>c. g # None => g \in Groups /\ pending[c][g] = 0 /\ pending[c] \in [Groups -> 0 .. MaxPending]
  BY <1>a DEF Listens, TypeOK
<1>d. pending' \in [Resources -> [Groups -> 0 .. MaxPending]]
  BY <1>a, <1>c DEF TypeOK, Asked
<1>e. \A r \in Resources \ {c} : pending'[r] = pending[r]
  BY <1>a DEF TypeOK, Asked
<1>1. TypeOK'
  BY <1>a, <1>b, <1>d DEF TypeOK, Statuses
<1>2. Parents' /\ RootLives' /\ FramesLive'
  BY <1>a, <1>b DEF TypeOK, Statuses, Parents, RootLives, FramesLive
<1>3. Lists'
  <2>1. \A q, d \in Resources : ChildOf(d, q)' <=> ChildOf(d, q)
    BY <1>a, <1>b DEF TypeOK, ChildOf, Alive
  <2> QED BY <1>a, <2>1 DEF Lists
<1>4. Listens'
  BY <1>a, <1>b, <1>e DEF TypeOK, Listens
<1>5. NoOrphans'
  BY <1>a, <1>b DEF TypeOK, NoOrphans, Alive, Parents
<1> QED BY <1>1, <1>2, <1>3, <1>4, <1>5 DEF IInv

-----------------------------------------------------------------------------
(* Steps that change neither the tree nor the groups, only the activations. *)
LEMMA FramesIInv ==
  ASSUME IInv,
         UNCHANGED <<status, parent, children, membership, listening, pending>>,
         stack' \in Seq(Frames),
         result' \in {"child", "nil", "NoMethodError", "TopicNotSubscribedError"},
         \A k \in DOMAIN stack' : stack'[k].res # Root /\ status[stack'[k].res] # "none"
  PROVE  IInv'
<1>1. TypeOK'
  BY DEF IInv, TypeOK
<1>2. Parents' /\ RootLives' /\ Listens' /\ NoOrphans' /\ Lists'
  BY DEF IInv, Parents, RootLives, Listens, NoOrphans, Lists, ChildOf
<1>3. FramesLive'
  BY DEF FramesLive
<1> QED BY <1>1, <1>2, <1>3 DEF IInv

(* A resource in a list was created by another: it is not the root. *)
LEMMA ListedLives ==
  ASSUME IInv, NEW p \in Resources, NEW c \in Resources, IsIn(c, children[p])
  PROVE  c # Root /\ status[c] # "none"
BY DEF IInv, Lists, ChildOf, Alive

LEMMA ReleaseIInv ==
  ASSUME IInv, NEW p \in Resources, NEW c \in Resources, Release(p, c)
  PROVE  IInv'
<1>1. CASE IsIn(c, children[p])
  <2>1. stack' = <<[res |-> c, i |-> 1]>> /\ result' = result
    BY <1>1 DEF Release
  <2>2. stack' \in Seq(Frames)
    BY <2>1 DEF Frames
  <2>3. \A k \in DOMAIN stack' : stack'[k].res = c
    BY <2>1
  <2> QED BY <2>1, <2>2, <2>3, <1>1, ListedLives, FramesIInv DEF Release, IInv, TypeOK
<1>2. CASE ~IsIn(c, children[p])
  BY <1>2, FramesIInv DEF Release, IInv, TypeOK, FramesLive
<1> QED BY <1>1, <1>2

(* The innermost activation, and what the stack is once it has returned. *)
LEMMA StackFacts ==
  ASSUME IInv, stack # << >>
  PROVE  /\ Top \in Frames /\ Top.res # Root /\ status[Top.res] # "none"
         /\ Return \in Seq(Frames)
         /\ \A k \in DOMAIN Return : k \in DOMAIN stack /\ Return[k].res = stack[k].res
<1> DEFINE n == Len(stack)
<1>1. stack \in Seq(Frames) /\ n \in Nat \ {0} /\ DOMAIN stack = 1 .. n
  BY DEF IInv, TypeOK
<1>2. Top \in Frames /\ Top.res # Root /\ status[Top.res] # "none"
  BY <1>1 DEF Top, IInv, FramesLive
<1>3. /\ Below \in Seq(Frames) /\ Len(Below) = n - 1 /\ DOMAIN Below = 1 .. n - 1
      /\ \A k \in 1 .. n - 1 : Below[k] = stack[k]
  BY <1>1 DEF Below
<1> HIDE DEF n
<1>4. CASE Below = << >>
  BY <1>2, <1>4 DEF Return
<1>5. CASE Below # << >>
  <2> DEFINE m == Len(Below)
             f == Below[m]
  <2>1. m \in 1 .. n - 1 /\ f \in Frames
    BY <1>1, <1>3, <1>5
  <2>2. Return = [Below EXCEPT ![m] = [res |-> f.res, i |-> f.i + 1]]
    BY <1>5 DEF Return
  <2>3. [res |-> f.res, i |-> f.i + 1] \in Frames
    BY <2>1 DEF Frames
  <2> HIDE DEF m
  <2>4. Return \in Seq(Frames) /\ DOMAIN Return = 1 .. n - 1
    BY <2>1, <2>2, <2>3, <1>3
  <2>5. \A k \in 1 .. n - 1 : Return[k].res = Below[k].res
    BY <2>1, <2>2, <1>3
  <2> QED BY <1>1, <1>2, <1>3, <2>4, <2>5
<1> QED BY <1>4, <1>5

LEMMA ReleaseNextIInv == ASSUME IInv, ReleaseNext PROVE IInv'
<1> DEFINE r == Top.res
           c == children[r][Top.i]
<1>1. r \in Resources /\ Top.i \in Nat \ {0}
  BY StackFacts DEF ReleaseNext, Frames
<1>2. children[r] \in Seq(Resources) /\ Top.i \in DOMAIN children[r]
  BY <1>1 DEF ReleaseNext, IInv, TypeOK
<1>3. c \in Resources /\ IsIn(c, children[r])
  BY <1>2 DEF IsIn
<1>4. c # Root /\ status[c] # "none"
  BY <1>1, <1>3, ListedLives
<1> DEFINE f == [res |-> c, i |-> 1]
<1>5. f \in Frames /\ f.res = c
  BY <1>3 DEF Frames
<1>6. /\ stack' = Append(stack, f) /\ stack \in Seq(Frames)
      /\ UNCHANGED <<status, parent, children, membership, listening, pending, result>>
  BY DEF ReleaseNext, IInv, TypeOK
<1> HIDE DEF f, c, r
<1>7. stack' \in Seq(Frames)
  BY <1>5, <1>6
<1>8. \A k \in DOMAIN stack' : stack'[k] = f \/ (k \in DOMAIN stack /\ stack'[k] = stack[k])
  BY <1>5, <1>6
<1>9. result \in {"child", "nil", "NoMethodError", "TopicNotSubscribedError"}
  BY DEF IInv, TypeOK
<1>10. \A k \in DOMAIN stack' : stack'[k].res # Root /\ status[stack'[k].res] # "none"
  BY <1>4, <1>5, <1>8 DEF IInv, FramesLive
<1> QED BY <1>6, <1>7, <1>9, <1>10, FramesIInv

LEMMA KeptSelfIInv == ASSUME IInv, KeptSelf PROVE IInv'
<1>1. stack # << >> /\ stack' = Return
  BY DEF KeptSelf, AtEnd
<1>2. result' \in {"child", "nil", "NoMethodError", "TopicNotSubscribedError"}
  BY DEF KeptSelf, IInv, TypeOK
<1>3. \A k \in DOMAIN stack' : stack'[k].res # Root /\ status[stack'[k].res] # "none"
  BY <1>1, StackFacts DEF IInv, FramesLive
<1> QED BY <1>1, <1>2, <1>3, StackFacts, FramesIInv DEF KeptSelf

LEMMA RaisedSelfIInv == ASSUME IInv, RaisedSelf PROVE IInv'
<1>1. stack' = << >> /\ result' = "TopicNotSubscribedError"
  BY DEF RaisedSelf
<1>2. stack' \in Seq(Frames) /\ \A k \in DOMAIN stack' : FALSE
  BY <1>1
<1> QED BY <1>1, <1>2, FramesIInv DEF RaisedSelf

(* A resource that is released has an empty list, so it is the parent of   *)
(* no resource that is alive; its own entry goes with it.                  *)
LEMMA ReleasedSelfIInv == ASSUME IInv, ReleasedSelf PROVE IInv'
<1> USE ResourceTreeAssumption
<1> DEFINE r == Top.res
           p == parent[r]
<1>a. /\ TypeOK /\ Parents /\ Lists /\ Listens /\ RootLives /\ FramesLive /\ NoOrphans
      /\ stack # << >> /\ children[r] = << >> /\ status[r] # "pending"
      /\ status' = [status EXCEPT ![r] = "released"]
      /\ listening' = [listening EXCEPT ![r] = {g \in listening[r] : membership[r][g] = 0}]
      /\ children' = [children EXCEPT ![p] = Without(children[p], r)]
      /\ stack' = Return
      /\ result' = IF Below = << >> THEN "child" ELSE result
      /\ UNCHANGED <<parent, membership, pending>>
  BY DEF IInv, ReleasedSelf, AtEnd, Empty, Forget
<1>b. r \in Resources /\ r # Root /\ status[r] # "none"
  BY <1>a, StackFacts DEF Frames
<1>c. p \in Resources
  BY <1>a, <1>b DEF Parents
<1> HIDE DEF r
<1>d. {g \in listening[r] : membership[r][g] = 0} = {}
  <2>1. \A g \in listening[r] : g \in Groups /\ membership[r][g] \in Nat /\ membership[r][g] > 0
    BY <1>a, <1>b DEF Listens, TypeOK
  <2>2. \A g \in listening[r] : membership[r][g] # 0
    BY <2>1
  <2> QED BY <2>2
<1>e. children[p] \in Seq(Resources) /\ Distinct(children[p])
  BY <1>a, <1>c DEF TypeOK, Lists
<1>f. /\ Without(children[p], r) \in Seq(Resources)
      /\ Distinct(Without(children[p], r))
      /\ \A y : IsIn(y, Without(children[p], r)) <=> IsIn(y, children[p]) /\ y # r
  BY <1>e, WithoutFacts
<1> HIDE DEF p
<1>1. TypeOK'
  BY <1>a, <1>b, <1>c, <1>d, <1>f, StackFacts DEF TypeOK, Statuses
<1>2. Parents' /\ RootLives'
  BY <1>a, <1>b DEF TypeOK, Parents, RootLives
<1>3. FramesLive'
  <2>1. \A d \in Resources : status[d] # "none" => status'[d] # "none"
    BY <1>a, <1>b DEF TypeOK
  <2>2. ASSUME NEW k \in DOMAIN stack'
        PROVE  stack'[k].res # Root /\ status'[stack'[k].res] # "none"
    <3>1. k \in DOMAIN stack /\ stack'[k].res = stack[k].res
      BY <1>a, StackFacts
    <3>2. stack[k].res \in Resources
      <4>1. stack[k] \in Frames
        BY <3>1, <1>a DEF TypeOK
      <4> QED BY <4>1 DEF Frames
    <3> QED BY <3>1, <3>2, <2>1, <1>a DEF FramesLive
  <2> QED BY <2>2 DEF FramesLive
<1>4. Lists'
  <2>1. \A q, d \in Resources : ChildOf(d, q)' <=> ChildOf(d, q) /\ d # r
    BY <1>a, <1>b DEF TypeOK, ChildOf, Alive
  <2>2. \A q \in Resources :
          children'[q] = IF q = p THEN Without(children[p], r) ELSE children[q]
    BY <1>a, <1>c DEF TypeOK
  <2>3. \A q \in Resources : ChildOf(r, q) => q = p
    BY DEF ChildOf, p
  <2>4. ASSUME NEW q \in Resources
        PROVE  Distinct(children'[q]) /\ \A d \in Resources : IsIn(d, children'[q]) <=> ChildOf(d, q)'
    <3>1. Distinct(children[q]) /\ \A d \in Resources : IsIn(d, children[q]) <=> ChildOf(d, q)
      BY <1>a DEF Lists
    <3>2. CASE q = p
      BY <3>1, <3>2, <1>f, <2>1, <2>2
    <3>3. CASE q # p
      BY <3>1, <3>3, <2>1, <2>2, <2>3
    <3> QED BY <3>2, <3>3
  <2> QED BY <2>4 DEF Lists
<1>5. Listens'
  BY <1>a, <1>b, <1>d DEF TypeOK, Listens
<1>6. NoOrphans'
  <2> SUFFICES ASSUME NEW c \in Resources \ {Root}, status'[c] \in Alive
               PROVE  status'[parent'[c]] \in Alive \cup {"revived"}
    BY DEF NoOrphans
  <2>1. c # r /\ status[c] \in Alive
    BY <1>a, <1>b DEF TypeOK, Alive
  <2>2. ~IsIn(c, children[r])
    BY <1>a DEF IsIn
  <2>3. parent[c] # r
    BY <2>1, <2>2, <1>a, <1>b DEF Lists, ChildOf
  <2>4. status[parent[c]] \in Alive \cup {"revived"}
    BY <2>1, <1>a DEF NoOrphans
  <2>5. parent[c] \in Resources
    BY <2>1, <1>a DEF Parents, Alive
  <2> QED BY <2>3, <2>4, <2>5, <1>a, <1>b DEF TypeOK
<1> QED BY <1>1, <1>2, <1>3, <1>4, <1>5, <1>6 DEF IInv

-----------------------------------------------------------------------------
(* Steps that change only the groups. *)
LEMMA GroupsIInv ==
  ASSUME IInv, UNCHANGED <<status, parent, children, stack, result>>, TypeOK', Listens'
  PROVE  IInv'
<1>1. Parents' /\ RootLives' /\ NoOrphans' /\ Lists' /\ FramesLive'
  BY DEF IInv, Parents, RootLives, NoOrphans, Lists, ChildOf, FramesLive
<1> QED BY <1>1 DEF IInv

LEMMA AskedFacts ==
  ASSUME TypeOK, NEW r \in Resources, NEW g \in Groups, NEW m, pending[r][g] < MaxPending
  PROVE  /\ Asked(r, g, m) \in [Resources -> [Groups -> 0 .. MaxPending]]
         /\ \A d \in Resources \ {r} : Asked(r, g, m)[d] = pending[d]
<1> USE ResourceTreeAssumption
<1>1. pending[r][g] \in 0 .. MaxPending
  BY DEF TypeOK
<1> QED BY <1>1 DEF TypeOK, Asked

(* A resource that handles a message has its topic. *)
LEMMA HandlerLives ==
  ASSUME IInv, NEW r \in Resources, Handles(r)
  PROVE  status[r] \in {"ready", "failed", "revived"}
BY DEF IInv, Handles, Listens

LEMMA JoinIInv ==
  ASSUME IInv, NEW r \in Joiners, NEW g \in Groups, Join(r, g)
  PROVE  IInv'
<1>a. r \in Resources
  BY ResourceTreeAssumption
<1>b. /\ TypeOK /\ Listens /\ Handles(r) /\ pending' = Asked(r, g, membership[r][g])
      /\ pending[r][g] < MaxPending
      /\ UNCHANGED <<status, parent, children, stack, membership, listening, result>>
  BY DEF Join, IInv
<1>c. status[r] \in {"ready", "failed", "revived"}
  BY <1>a, <1>b, HandlerLives
<1>d. /\ pending' \in [Resources -> [Groups -> 0 .. MaxPending]]
      /\ \A d \in Resources \ {r} : pending'[d] = pending[d]
  BY <1>a, <1>b, AskedFacts
<1>1. TypeOK'
  BY <1>b, <1>d DEF TypeOK
<1>2. Listens'
  BY <1>b, <1>c, <1>d DEF Listens
<1> QED BY <1>b, <1>1, <1>2, GroupsIInv

LEMMA LeaveIInv ==
  ASSUME IInv, NEW r \in Joiners, NEW g \in Groups, Leave(r, g)
  PROVE  IInv'
<1>a. r \in Resources
  BY ResourceTreeAssumption
<1>b. /\ TypeOK /\ Listens
      /\ membership' = [membership EXCEPT ![r] = [membership[r] EXCEPT ![g] = 0]]
      /\ listening' = [listening EXCEPT ![r] = listening[r] \ {g}]
      /\ UNCHANGED <<status, parent, children, stack, pending, result>>
  BY DEF Leave, IInv
<1>1. TypeOK'
  BY <1>a, <1>b DEF TypeOK
<1>2. Listens'
  <2> SUFFICES ASSUME NEW d \in Resources
               PROVE  /\ \A x \in listening'[d] : membership'[d][x] > 0
                      /\ listening'[d] # {} => status[d] \in {"ready", "failed", "revived"}
    BY <1>b DEF Listens
  <2>1. /\ listening[d] \subseteq Groups /\ (\A x \in listening[d] : membership[d][x] > 0)
        /\ listening[d] # {} => status[d] \in {"ready", "failed", "revived"}
    BY <1>b DEF Listens, TypeOK
  <2>2. CASE d = r
    BY <2>1, <2>2, <1>a, <1>b DEF TypeOK
  <2>3. CASE d # r
    BY <2>1, <2>3, <1>a, <1>b DEF TypeOK
  <2> QED BY <2>2, <2>3
<1> QED BY <1>b, <1>1, <1>2, GroupsIInv

LEMMA OnlyIInv ==
  ASSUME IInv, NEW r \in Joiners, NEW g \in Groups, Only(r, g)
  PROVE  IInv'
<1>a. r \in Resources
  BY ResourceTreeAssumption
<1>b. /\ TypeOK /\ Listens /\ Handles(r) /\ pending' = Asked(r, g, 0)
      /\ pending[r][g] < MaxPending
      /\ membership' = [membership EXCEPT ![r] = [x \in Groups |-> 0]]
      /\ listening' = [listening EXCEPT ![r] = {}]
      /\ UNCHANGED <<status, parent, children, stack, result>>
  BY DEF Only, IInv
<1>c. status[r] \in {"ready", "failed", "revived"}
  BY <1>a, <1>b, HandlerLives
<1>d. /\ pending' \in [Resources -> [Groups -> 0 .. MaxPending]]
      /\ \A d \in Resources \ {r} : pending'[d] = pending[d]
  BY <1>a, <1>b, AskedFacts
<1>1. TypeOK'
  BY <1>a, <1>b, <1>d DEF TypeOK
<1>2. Listens'
  BY <1>a, <1>b, <1>c, <1>d DEF Listens, TypeOK
<1> QED BY <1>b, <1>1, <1>2, GroupsIInv

(* The callback may revive a released resource, never one that is alive. *)
LEMMA JoinedIInv ==
  ASSUME IInv, NEW r \in Resources, NEW g \in Groups, NEW ok \in BOOLEAN, Joined(r, g, ok)
  PROVE  IInv'
<1> USE ResourceTreeAssumption
<1>a. /\ TypeOK /\ Parents /\ Lists /\ Listens /\ RootLives /\ FramesLive /\ NoOrphans
      /\ pending[r][g] > 0
      /\ pending' = [pending EXCEPT ![r] = [pending[r] EXCEPT ![g] = pending[r][g] - 1]]
      /\ UNCHANGED <<parent, children, stack, result>>
  BY DEF Joined, IInv
<1>b. pending[r] \in [Groups -> 0 .. MaxPending] /\ pending[r][g] \in 0 .. MaxPending
  BY <1>a DEF TypeOK
<1>c. status[r] \in {"ready", "failed", "released", "revived"}
  <2>1. pending[r][g] # 0
    BY <1>a, <1>b
  <2>2. status[r] \notin {"none", "pending"}
    BY <2>1, <1>a DEF Listens
  <2> QED BY <2>2, <1>a DEF TypeOK, Statuses
<1>d. pending' \in [Resources -> [Groups -> 0 .. MaxPending]]
  BY <1>a, <1>b DEF TypeOK
<1>e. \A d \in Resources \ {r} : pending'[d] = pending[d]
  BY <1>a DEF TypeOK
<1>1. CASE ~ok
  <2>1. UNCHANGED <<status, membership, listening>>
    BY <1>1 DEF Joined
  <2>2. TypeOK'
    BY <2>1, <1>a, <1>d DEF TypeOK
  <2>3. Listens'
    BY <2>1, <1>a, <1>c, <1>e DEF Listens
  <2> QED BY <2>1, <2>2, <2>3, <1>a, GroupsIInv
<1>2. CASE ok
  <2> DEFINE st == IF status[r] = "released" THEN "revived" ELSE status[r]
  <2>1. /\ membership' = [membership EXCEPT ![r] = [membership[r] EXCEPT ![g] = membership[r][g] + 1]]
        /\ listening' = [listening EXCEPT ![r] = listening[r] \cup {g}]
        /\ status' = [status EXCEPT ![r] = st]
    BY <1>2 DEF Joined
  <2>2. st \in {"ready", "failed", "revived"} /\ (st \in Alive <=> status[r] \in Alive)
    BY <1>c DEF Alive
  <2>f. status[r] = "ready" => st = "ready"
    OBVIOUS
  <2>g. status[r] \in Alive \cup {"revived"} => st \in Alive \cup {"revived"}
    BY <1>c DEF Alive
  <2> HIDE DEF st
  <2>3. TypeOK'
    BY <2>1, <2>2, <1>a, <1>d DEF TypeOK, Statuses
  <2>h. \A d \in Resources : status'[d] = "none" <=> status[d] = "none"
    BY <2>1, <2>2, <1>a, <1>c DEF TypeOK
  <2>4. Parents' /\ RootLives'
    BY <2>1, <2>f, <2>h, <1>a DEF TypeOK, Parents, RootLives
  <2>i. FramesLive'
    <3>1. \A k \in DOMAIN stack : stack[k] \in Frames
      BY <1>a DEF TypeOK
    <3>2. \A k \in DOMAIN stack : stack[k].res \in Resources
      BY <3>1 DEF Frames
    <3> QED BY <3>2, <2>h, <1>a DEF FramesLive
  <2>5. \A q, d \in Resources : ChildOf(d, q)' <=> ChildOf(d, q)
    BY <2>1, <2>2, <1>a DEF TypeOK, ChildOf
  <2>6. Lists'
    BY <2>5, <1>a DEF Lists
  <2>7. Listens'
    <3> SUFFICES ASSUME NEW d \in Resources
                 PROVE  /\ \A x \in listening'[d] : membership'[d][x] > 0
                        /\ listening'[d] # {} => status'[d] \in {"ready", "failed", "revived"}
                        /\ status'[d] \in {"none", "pending"} =>
                             \A x \in Groups : pending'[d][x] = 0
      BY DEF Listens
    <3>1. CASE d = r
      <4>1. /\ listening'[d] = listening[r] \cup {g} /\ listening[r] \subseteq Groups
            /\ membership[r] \in [Groups -> Nat]
            /\ membership'[d] = [membership[r] EXCEPT ![g] = membership[r][g] + 1]
            /\ status'[d] = st
        BY <3>1, <2>1, <1>a DEF TypeOK
      <4>2. \A x \in listening[r] : membership[r][x] > 0
        BY <1>a DEF Listens
      <4>3. \A x \in listening'[d] : membership'[d][x] > 0
        BY <4>1, <4>2
      <4> QED BY <4>1, <4>3, <2>2
    <3>2. CASE d # r
      <4>1. /\ listening'[d] = listening[d] /\ membership'[d] = membership[d]
            /\ status'[d] = status[d] /\ pending'[d] = pending[d]
        BY <3>2, <2>1, <1>a, <1>e DEF TypeOK
      <4> QED BY <4>1, <1>a DEF Listens
    <3> QED BY <3>1, <3>2
  <2>8. NoOrphans'
    <3> SUFFICES ASSUME NEW c \in Resources \ {Root}, status'[c] \in Alive
                 PROVE  status'[parent'[c]] \in Alive \cup {"revived"}
      BY DEF NoOrphans
    <3>1. status[c] \in Alive
      BY <2>1, <2>2, <1>a DEF TypeOK
    <3>2. parent[c] \in Resources
      BY <3>1, <1>a DEF Parents, Alive
    <3>3. status[parent[c]] \in Alive \cup {"revived"}
      BY <3>1, <1>a DEF NoOrphans
    <3> QED BY <3>2, <3>3, <2>1, <2>g, <1>a DEF TypeOK
  <2> QED BY <2>3, <2>4, <2>i, <2>6, <2>7, <2>8 DEF IInv
<1> QED BY <1>1, <1>2

-----------------------------------------------------------------------------
LEMMA NextIInv == IInv /\ [Next]_vars => IInv'
<1> SUFFICES ASSUME IInv, [Next]_vars PROVE IInv'
  OBVIOUS
<1>1. ASSUME NEW p \in Resources, NEW c \in Resources, Create(p, c) \/ Release(p, c)
      PROVE  IInv'
  BY <1>1, CreateIInv, ReleaseIInv
<1>2. ASSUME NEW c \in Resources, NEW g \in Groups \cup {None}, NEW ok \in BOOLEAN,
             Subscribed(c, g, ok)
      PROVE  IInv'
  BY <1>2, SubscribedIInv
<1>3. CASE ReleaseStep
  BY <1>3, ReleaseNextIInv, ReleasedSelfIInv, KeptSelfIInv, RaisedSelfIInv DEF ReleaseStep
<1>4. ASSUME NEW r \in Joiners, NEW g \in Groups, Join(r, g) \/ Leave(r, g) \/ Only(r, g)
      PROVE  IInv'
  BY <1>4, JoinIInv, LeaveIInv, OnlyIInv
<1>5. ASSUME NEW r \in Resources, NEW g \in Groups, NEW ok \in BOOLEAN, Joined(r, g, ok)
      PROVE  IInv'
  BY <1>5, JoinedIInv
<1>6. CASE UNCHANGED vars
  BY <1>6 DEF vars, IInv, TypeOK, Parents, Lists, ChildOf, Listens, RootLives,
              FramesLive, NoOrphans
<1> QED BY <1>1, <1>2, <1>3, <1>4, <1>5, <1>6 DEF Next

(* The tree stays well formed in every execution: the inductive invariant. *)
THEOREM TreeInvariant == Spec => []IInv
BY InitIInv, NextIInv, PTL DEF Spec

(* Every variable keeps its type; in particular release_self is called on  *)
(* resources only, and the subscriptions under way stay within their bound. *)
THEOREM TypeCorrect == Spec => []TypeOK
<1>1. IInv => TypeOK
  BY DEF IInv
<1> QED BY <1>1, TreeInvariant, PTL

(* As long as a resource has not been released, neither has its creator    *)
(* (unless a late group callback revived it): release_self gives up its    *)
(* topics only when no child is left.                                      *)
THEOREM ParentsOutlive == Spec => []NoOrphans
<1>1. IInv => NoOrphans
  BY DEF IInv
<1> QED BY <1>1, TreeInvariant, PTL

(* A resource is in its parent's children exactly once from create to the  *)
(* end of its release_self, and in no other resource's, although the loop  *)
(* of release_self deletes from the list it walks.                         *)
THEOREM ListedOnceHolds == Spec => []ListedOnce
<1>1. IInv => ListedOnce
  <2> SUFFICES ASSUME IInv, NEW p \in Resources, NEW c \in Resources
               PROVE  LET places == {k \in DOMAIN children[p] : children[p][k] = c}
                      IN  Cardinality(places) =
                            IF c # Root /\ status[c] \in Alive /\ parent[c] = p THEN 1 ELSE 0
    BY DEF ListedOnce
  <2> DEFINE places == {k \in DOMAIN children[p] : children[p][k] = c}
  <2>1. Distinct(children[p]) /\ (IsIn(c, children[p]) <=> ChildOf(c, p))
    BY DEF IInv, Lists
  <2>2. CASE ChildOf(c, p)
    <3>1. PICK k \in DOMAIN children[p] : children[p][k] = c
      BY <2>1, <2>2 DEF IsIn
    <3>2. places = {k}
      BY <3>1, <2>1 DEF Distinct
    <3>3. Cardinality(places) = 1
      BY <3>2, FS_Singleton
    <3> QED BY <3>3, <2>2 DEF ChildOf
  <2>3. CASE ~ChildOf(c, p)
    <3>1. places = {}
      BY <2>1, <2>3 DEF IsIn
    <3>2. Cardinality(places) = 0
      BY <3>1, FS_EmptySet
    <3> QED BY <3>2, <2>3 DEF ChildOf
  <2> QED BY <2>2, <2>3
<1> QED BY <1>1, TreeInvariant, PTL
-----------------------------------------------------------------------------
(* The application proxy.                                                  *)

(* The instances ExecApp knows are those that run: at most one, the last   *)
(* that was started.  Unless the end of that one is still to be heard of,  *)
(* or a handler is about to write the state, the state says whether it     *)
(* runs.                                                                   *)
AppMatch ==
  /\ live = IF app = 0 THEN {} ELSE {app}
  /\ app # 0 => app = started
  /\ writing # "none" => app # 0 \/ started \in exits
  /\ writing = "none" /\ app # 0 => state \in {"running", "paused"}
  /\ writing = "none" /\ app = 0 /\ started \notin exits =>
       state \notin {"running", "paused"}
  /\ started \in exits => app = 0
  /\ \A i \in exits : i <= started

(* The types, and the match until an EXIT goes astray. *)
AppIInv == AppTypeOK /\ (~overtaken => AppMatch)

USE ApplicationAssumption

(* Every step keeps the types. *)
LEMMA AppTypeStep ==
  ASSUME AppTypeOK, [AppNext]_AppVars
  PROVE  AppTypeOK'
  <1> USE DEF AppTypeOK, States, Instances
  <1>1. ASSUME NEW v \in States, ConfigureState(v)
        PROVE  AppTypeOK'
    <2>1. todo' \in Seq(States) /\ Len(todo') <= MaxTodo
      BY <1>1 DEF ConfigureState
    <2>2. QED
      BY <1>1, <2>1 DEF ConfigureState
  <1>2. \A v : Due(v) => todo' \in Seq(States) /\ Len(todo') <= MaxTodo
    BY DEF Due
  <1>3. ASSUME NEW b \in BOOLEAN, SwitchToInstalling(b)
        PROVE  AppTypeOK'
    BY <1>2, <1>3 DEF SwitchToInstalling
  <1>4. ASSUME NEW b \in BOOLEAN, SwitchToRunning(b)
        PROVE  AppTypeOK'
    <2>1. todo' \in Seq(States) /\ Len(todo') <= MaxTodo
      BY <1>2, <1>4 DEF SwitchToRunning
    <2>2. CASE MayStart /\ b /\ started < MaxInstances
      <3>1. /\ started' = started + 1 /\ app' = started + 1
            /\ live' = live \cup {started + 1} /\ writing' = "running"
        BY <1>4, <2>2 DEF SwitchToRunning
      <3>2. started + 1 \in Instances /\ started + 1 \in 0 .. MaxInstances
        BY <2>2
      <3>3. live' \subseteq Instances /\ killed \subseteq live'
            /\ app' \in live' \cup {0}
        BY <3>1, <3>2
      <3>4. QED
        BY <1>4, <2>1, <3>1, <3>2, <3>3 DEF SwitchToRunning
    <2>3. CASE ~(MayStart /\ b /\ started < MaxInstances)
      <3>1. /\ writing' \in {"running", "none"}
            /\ UNCHANGED <<started, app, live>>
        BY <1>4, <2>3 DEF SwitchToRunning
      <3>2. QED
        BY <1>4, <2>1, <3>1 DEF SwitchToRunning
    <2>4. QED
      BY <2>2, <2>3
  <1>5. CASE SwitchToStopped
    <2>1. todo' \in Seq(States) /\ Len(todo') <= MaxTodo
      BY <1>2, <1>5 DEF SwitchToStopped
    <2>2. [sig |-> "TERM", meant |-> app] \in Timers
      BY DEF Timers
    <2>3. CASE state \in {"running", "paused"}
      <3>1. /\ Len(timers) < MaxTimers
            /\ state' = IF app # 0 THEN state ELSE "stopped"
            /\ timers' = Append(timers, [sig |-> "TERM", meant |-> app])
        BY <1>5, <2>3 DEF SwitchToStopped
      <3>2. timers' \in Seq(Timers) /\ Len(timers') <= MaxTimers
        BY <2>2, <3>1
      <3>3. QED
        BY <1>5, <2>1, <3>1, <3>2 DEF SwitchToStopped
    <2>4. CASE ~(state \in {"running", "paused"})
      BY <1>5, <2>1, <2>4 DEF SwitchToStopped
    <2>5. QED
      BY <2>3, <2>4
  <1>6. CASE SwitchToPaused \/ SwitchToUnknown
    BY <1>2, <1>6 DEF SwitchToPaused, SwitchToUnknown
  <1>7. CASE WriteState
    BY <1>7 DEF WriteState
  <1>8. CASE FireTimer
    <2> DEFINE t == Head(timers)
    <2>1. t \in Timers /\ Tail(timers) \in Seq(Timers) /\ timers # << >>
          /\ Len(Tail(timers)) = Len(timers) - 1
      BY <1>8 DEF FireTimer
    <2>2. [sig |-> "KILL", meant |-> t.meant] \in Timers /\ t.meant \in 0 .. MaxInstances
      BY <2>1 DEF Timers
    <2>3. timers' \in Seq(Timers) /\ Len(timers') <= MaxTimers
      BY <1>8, <2>1, <2>2 DEF FireTimer, After
    <2>4. CASE app = 0
      BY <1>8, <2>3, <2>4 DEF FireTimer
    <2>5. CASE app # 0
      <3>1. astray' = (astray \/ app # t.meant)
        BY <1>8, <2>5 DEF FireTimer
      <3>2. astray' \in BOOLEAN
        BY <3>1, Zenon
      <3>3. QED
        BY <1>8, <2>3, <2>5, <3>2 DEF FireTimer
    <2>6. QED
      BY <2>4, <2>5
  <1>9. ASSUME NEW i \in Instances, InstanceEnds(i) \/ ExitCallback(i)
        PROVE  AppTypeOK'
    <2>1. CASE InstanceEnds(i)
      <3>1. /\ live' = live \ {i} /\ killed' = killed \ {i} /\ app' = 0
            /\ exits' = exits \cup {i}
        BY <2>1 DEF InstanceEnds
      <3>2. QED
        BY <2>1, <3>1 DEF InstanceEnds
    <2>2. CASE ExitCallback(i)
      <3>1. exits' = exits \ {i} /\ state' = "stopped"
        BY <2>2 DEF ExitCallback
      <3>2. overtaken' \in BOOLEAN
        BY <2>2, Zenon DEF ExitCallback
      <3>3. QED
        BY <2>2, <3>1, <3>2 DEF ExitCallback
    <2>3. QED
      BY <1>9, <2>1, <2>2
  <1>10. ASSUME NEW b \in BOOLEAN, ConfigureInstalled(b)
         PROVE  AppTypeOK'
    BY <1>10 DEF ConfigureInstalled
  <1>11. CASE UNCHANGED AppVars
    BY <1>11 DEF AppVars
  <1>12. QED
    BY <1>1, <1>3, <1>4, <1>5, <1>6, <1>7, <1>8, <1>9, <1>10, <1>11
       DEF AppNext, Dispatch

(* Every step that is not an EXIT gone wrong keeps the match. *)
LEMMA AppMatchStep ==
  ASSUME AppTypeOK, AppMatch, ~overtaken', [AppNext]_AppVars
  PROVE  AppMatch'
  <1> USE DEF AppTypeOK, AppMatch, States, Instances
  <1>1. ASSUME NEW v \in States, ConfigureState(v)
        PROVE  AppMatch'
    BY <1>1 DEF ConfigureState
  <1>2. ASSUME NEW b \in BOOLEAN, SwitchToInstalling(b)
        PROVE  AppMatch'
    BY <1>2 DEF SwitchToInstalling, Due, LoopFree
  <1>3. ASSUME NEW b \in BOOLEAN, SwitchToRunning(b)
        PROVE  AppMatch'
    <2>1. CASE MayStart /\ b /\ started < MaxInstances
      <3>1. /\ state \in {"created", "stopped"} /\ writing = "none"
            /\ exits' = exits /\ state' = state
        BY <1>3, <2>1 DEF SwitchToRunning, MayStart, Due, LoopFree
      <3>2. live = {}
        BY <3>1
      <3>3. /\ app' = started + 1 /\ live' = live \cup {started + 1}
            /\ writing' = "running" /\ started' = started + 1
        BY <1>3, <2>1 DEF SwitchToRunning
      <3>4. started \in Nat /\ started + 1 # 0 /\ started + 1 \notin exits
        OBVIOUS
      <3>5. \A i \in exits' : i <= started'
        BY <3>1, <3>3
      <3>6. QED
        BY <3>1, <3>2, <3>3, <3>4, <3>5
    <2>2. CASE ~(MayStart /\ b /\ started < MaxInstances)
      BY <1>3, <2>2 DEF SwitchToRunning, Due, LoopFree
    <2>3. QED
      BY <2>1, <2>2
  <1>4. CASE SwitchToStopped
    BY <1>4 DEF SwitchToStopped, Due, LoopFree
  <1>5. CASE SwitchToPaused \/ SwitchToUnknown
    BY <1>5 DEF SwitchToPaused, SwitchToUnknown, Due, LoopFree
  <1>6. CASE WriteState
    BY <1>6 DEF WriteState
  <1>7. CASE FireTimer
    BY <1>7 DEF FireTimer, LoopFree
  <1>8. ASSUME NEW i \in Instances, InstanceEnds(i)
        PROVE  AppMatch'
    BY <1>8 DEF InstanceEnds
  <1>9. ASSUME NEW i \in Instances, ExitCallback(i)
        PROVE  AppMatch'
    BY <1>9 DEF ExitCallback
  <1>10. ASSUME NEW b \in BOOLEAN, ConfigureInstalled(b)
         PROVE  AppMatch'
    BY <1>10 DEF ConfigureInstalled
  <1>11. CASE UNCHANGED AppVars
    BY <1>11 DEF AppVars
  <1>12. QED
    BY <1>1, <1>2, <1>3, <1>4, <1>5, <1>6, <1>7, <1>8, <1>9, <1>10, <1>11
       DEF AppNext, Dispatch

(* An EXIT that crossed the write of a state is not forgotten. *)
LEMMA OvertakenStays ==
  ASSUME AppTypeOK, [AppNext]_AppVars, overtaken
  PROVE  overtaken'
  BY DEF AppTypeOK, AppNext, Dispatch, ConfigureState, ConfigureInstalled,
         SwitchToInstalling, SwitchToRunning, SwitchToStopped, SwitchToPaused,
         SwitchToUnknown, WriteState, FireTimer, InstanceEnds, ExitCallback,
         AppVars

(* The first state has both. *)
LEMMA AppInitIInv == AppInit => AppIInv
  <1> SUFFICES ASSUME AppInit PROVE AppIInv
    OBVIOUS
  <1>1. << >> \in Seq(States) /\ << >> \in Seq(Timers) /\ Len(<< >>) = 0
    OBVIOUS
  <1>2. AppTypeOK
    <2>1. state \in States
      BY DEF AppInit, States
    <2>2. todo \in Seq(States) /\ Len(todo) <= MaxTodo
      BY <1>1 DEF AppInit
    <2>3. timers \in Seq(Timers) /\ Len(timers) <= MaxTimers
      BY <1>1 DEF AppInit
    <2>4. started \in 0 .. MaxInstances
      BY DEF AppInit
    <2>5. astray \in BOOLEAN /\ overtaken \in BOOLEAN /\ installed \in BOOLEAN
      BY Zenon DEF AppInit
    <2>6. QED
      BY <2>1, <2>2, <2>3, <2>4, <2>5 DEF AppInit, AppTypeOK
  <1>3. AppMatch
    BY DEF AppInit, AppMatch
  <1>4. QED
    BY <1>2, <1>3 DEF AppIInv

(* The types, and the match until an EXIT goes wrong, are an inductive     *)
(* invariant.                                                              *)
THEOREM AppInvariant == AppSpec => []AppIInv
  <1>1. AppIInv /\ [AppNext]_AppVars => AppIInv'
    BY AppTypeStep, AppMatchStep, OvertakenStays DEF AppIInv
  <1>2. QED
    BY <1>1, AppInitIInv, PTL DEF AppSpec

(* The variables of the proxy keep their types whatever order requests,    *)
(* timers and the callbacks of ExecApp come in; ExecApp's entry is an      *)
(* instance that runs.                                                     *)
THEOREM AppTypeCorrect == AppSpec => []AppTypeOK
  BY AppInvariant, PTL DEF AppIInv

(* Whatever thread runs when, until ExecApp's thread delivers an EXIT      *)
(* between a handler's decision and its write of the state, or after a     *)
(* newer instance was started, the state property tells the truth about    *)
(* the program, and no second instance is started beside the first.        *)
THEOREM AppStateTruthful == AppSpec => []StateMatchesProgram
  <1>1. AppIInv => StateMatchesProgram
    <2>1. Cardinality({}) = 0
      BY FS_EmptySet
    <2>2. \A x : Cardinality({x}) = 1
      BY FS_Singleton
    <2>3. QED
      BY <2>1, <2>2 DEF AppIInv, AppMatch, StateMatchesProgram
  <1>2. QED
    BY <1>1, AppInvariant, PTL
=============================================================================
