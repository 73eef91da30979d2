---------------------------- MODULE ResourceTree ----------------------------
(***************************************************************************)
(* The tree of resource proxies kept by an OMF resource controller         *)
(* (lib/omf_rc/resource_proxy/abstract_resource.rb): creation, release and *)
(* group membership.                                                       *)
(*                                                                         *)
(* Message handlers run one after another in the event loop.  What OmfCom- *)
(* mon.comm.subscribe calls back comes later, in any order.  release_self  *)
(* is recursive and walks `children' while it deletes from it; here every  *)
(* activation is a frame of `stack', with the index Ruby's `each' keeps.   *)
(***************************************************************************)
EXTENDS Integers, Sequences, FiniteSets

CONSTANTS
  Resources,    \* resource proxies that may be created
  Root,         \* the resource the controller starts with
  Groups,       \* group topics
  Joiners,      \* bound: the resources whose membership is configured
  MaxPending,   \* bound: unanswered subscriptions of a resource to a group
  None

ASSUME ResourceTreeAssumption ==
  /\ Root \in Resources
  /\ Joiners \subseteq Resources
  /\ None \notin Resources \cup Groups
  /\ MaxPending \in Nat \ {0}

VARIABLES
  status,      \* life of each resource, see below
  parent,      \* opts[:parent]
  children,    \* @children, in order
  stack,       \* activations of release_self, the innermost last
  membership,  \* how often a group is in @membership
  listening,   \* the groups whose messages reach the resource
  pending,     \* subscriptions to a group that have not called back
  result       \* what the last release returned or raised

vars == <<status, parent, children, stack, membership, listening, pending, result>>

(* "pending": created, its own topic not yet subscribed.  "failed": the    *)
(* creation callback raised, the object stays among its parent's children. *)
(* "revived": released, then called back by a group it had asked to join.  *)
Statuses == {"none", "pending", "ready", "failed", "released", "revived"}
Alive == {"pending", "ready", "failed"}

Frames == [res : Resources, i : Nat \ {0}]

TypeOK ==
  /\ status \in [Resources -> Statuses]
  /\ parent \in [Resources -> Resources \cup {None}]
  /\ children \in [Resources -> Seq(Resources)]
  /\ stack \in Seq(Frames)
  /\ membership \in [Resources -> [Groups -> Nat]]
  /\ listening \in [Resources -> SUBSET Groups]
  /\ pending \in [Resources -> [Groups -> 0 .. MaxPending]]
  /\ result \in {"child", "nil", "NoMethodError", "TopicNotSubscribedError"}

(* The event loop is free, and messages reach r: on its own topic once it  *)
(* is ready, or on a group topic (process_omf_message, objects_by_topic).  *)
Handles(r) ==
  /\ stack = << >>
  /\ status[r] = "ready" \/ listening[r] # {}

IsIn(x, s) == \E k \in DOMAIN s : s[k] = x

(* Array#delete, of an object that is in the array at most once. *)
Without(s, x) ==
  LET k == CHOOSE k \in DOMAIN s : s[k] = x
  IN  IF IsIn(x, s) THEN SubSeq(s, 1, k - 1) \o SubSeq(s, k + 1, Len(s)) ELSE s

-----------------------------------------------------------------------------
(* create: the child is among `children' at once, its topic comes later. *)
Create(p, c) ==
  /\ Handles(p) /\ status[c] = "none"
  /\ status' = [status EXCEPT ![c] = "pending"]
  /\ parent' = [parent EXCEPT ![c] = p]
  /\ children' = [children EXCEPT ![p] = Append(@, c)]
  /\ UNCHANGED <<stack, membership, listening, pending, result>>

(* A request to join g, unless r is a member: the subscription is on its   *)
(* way, and @membership does not show it yet.                              *)
Asked(r, g, member) ==
  IF member = 0 THEN [pending EXCEPT ![r][g] = @ + 1] ELSE pending

(* The callback of initialize: the properties given with the creation,     *)
(* perhaps a membership, are configured; an exception in it is reported.   *)
Subscribed(c, g, ok) ==
  /\ stack = << >> /\ status[c] = "pending"
  /\ g # None => c \in Joiners
  /\ status' = [status EXCEPT ![c] = IF ok THEN "ready" ELSE "failed"]
  /\ pending' = IF g = None THEN pending ELSE Asked(c, g, 0)
  /\ UNCHANGED <<parent, children, stack, membership, listening, result>>

-----------------------------------------------------------------------------
(* release: find the child; the call of its release_self opens a frame. *)
Release(p, c) ==
  /\ Handles(p)
  /\ IF IsIn(c, children[p])
     THEN /\ stack' = <<[res |-> c, i |-> 1]>>
          /\ UNCHANGED result
     ELSE /\ result' = "nil"
          /\ UNCHANGED stack
  /\ UNCHANGED <<status, parent, children, membership, listening, pending>>

Top == stack[Len(stack)]
Below == SubSeq(stack, 1, Len(stack) - 1)

(* children.each: call release_self of the child at the index. *)
ReleaseNext ==
  /\ stack # << >> /\ Top.i <= Len(children[Top.res])
  /\ stack' = Append(stack, [res |-> children[Top.res][Top.i], i |-> 1])
  /\ UNCHANGED <<status, parent, children, membership, listening, pending, result>>

(* The caller's `each' goes on with the next index, whether or not the     *)
(* list became shorter under it.                                           *)
Return ==
  IF Below = << >> THEN << >>
  ELSE [Below EXCEPT ![Len(Below)] = [res |-> @.res, i |-> @.i + 1]]

AtEnd == stack # << >> /\ Top.i > Len(children[Top.res])

(* Mutant: the check that no child is left is missing. *)
EmptyUnchecked(r) == TRUE

Empty(r) == children[r] = << >>

(* Mutant: the caller keeps the released child. *)
ForgetNothing(r) == children

(* Mutant: only release deletes the child, release_self does not. *)
ForgetDirectOnly(r) ==
  IF Below = << >> THEN [children EXCEPT ![parent[r]] = Without(@, r)] ELSE children

(* children.delete in the caller, release or release_self. *)
Forget(r) == [children EXCEPT ![parent[r]] = Without(@, r)]

(* release_self succeeds: the topics are given up and the caller deletes   *)
(* the child.                                                              *)
ReleasedSelf ==
  LET r == Top.res IN
  /\ AtEnd /\ Empty(r) /\ status[r] # "pending"
  /\ status' = [status EXCEPT ![r] = "released"]
  /\ listening' = [listening EXCEPT ![r] = {g \in @ : membership[r][g] = 0}]
  /\ children' = Forget(r)
  /\ stack' = Return
  /\ result' = IF Below = << >> THEN "child" ELSE result
  /\ UNCHANGED <<parent, membership, pending>>

(* release_self returns false: children are left.  In release the child is *)
(* nil then, and the debug line that prints its uid raises.                *)
KeptSelf ==
  LET r == Top.res IN
  /\ AtEnd /\ ~Empty(r)
  /\ stack' = Return
  /\ result' = IF Below = << >> THEN "NoMethodError" ELSE result
  /\ UNCHANGED <<status, parent, children, membership, listening, pending>>

(* The resource has no topic yet: resource_address raises through all the  *)
(* activations, to execute_omf_operation.                                  *)
RaisedSelf ==
  /\ AtEnd /\ Empty(Top.res) /\ status[Top.res] = "pending"
  /\ stack' = << >>
  /\ result' = "TopicNotSubscribedError"
  /\ UNCHANGED <<status, parent, children, membership, listening, pending>>

ReleaseStep == ReleaseNext \/ ReleasedSelf \/ KeptSelf \/ RaisedSelf

-----------------------------------------------------------------------------
(* configure_membership, a group to join. *)
Join(r, g) ==
  /\ Handles(r)
  /\ pending[r][g] < MaxPending
  /\ pending' = Asked(r, g, membership[r][g])
  /\ UNCHANGED <<status, parent, children, stack, membership, listening, result>>

(* configure_membership, { leave: g }: known members only. *)
Leave(r, g) ==
  /\ Handles(r)
  /\ membership[r][g] > 0
  /\ membership' = [membership EXCEPT ![r][g] = 0]
  /\ listening' = [listening EXCEPT ![r] = @ \ {g}]
  /\ UNCHANGED <<status, parent, children, stack, pending, result>>

(* configure_membership, { only: g }: leave all, then join again. *)
Only(r, g) ==
  /\ Handles(r)
  /\ pending[r][g] < MaxPending
  /\ membership' = [membership EXCEPT ![r] = [x \in Groups |-> 0]]
  /\ listening' = [listening EXCEPT ![r] = {}]
  /\ pending' = Asked(r, g, 0)
  /\ UNCHANGED <<status, parent, children, stack, result>>

(* The callback of the group subscription; on an error it raises (the name *)
(* it deletes is not defined).  Nobody asks whether r is still wanted.     *)
Joined(r, g, ok) ==
  /\ stack = << >> /\ pending[r][g] > 0
  /\ pending' = [pending EXCEPT ![r][g] = @ - 1]
  /\ IF ok
     THEN /\ membership' = [membership EXCEPT ![r][g] = @ + 1]
          /\ listening' = [listening EXCEPT ![r] = @ \cup {g}]
          /\ status' = [status EXCEPT ![r] = IF @ = "released" THEN "revived" ELSE @]
     ELSE UNCHANGED <<membership, listening, status>>
  /\ UNCHANGED <<parent, children, stack, result>>

-----------------------------------------------------------------------------
Init ==
  /\ status = [r \in Resources |-> IF r = Root THEN "ready" ELSE "none"]
  /\ parent = [r \in Resources |-> None]
  /\ children = [r \in Resources |-> << >>]
  /\ stack = << >>
  /\ membership = [r \in Resources |-> [g \in Groups |-> 0]]
  /\ listening = [r \in Resources |-> {}]
  /\ pending = [r \in Resources |-> [g \in Groups |-> 0]]
  /\ result = "nil"

Next ==
  \/ \E p, c \in Resources : Create(p, c) \/ Release(p, c)
  \/ \E c \in Resources, g \in Groups \cup {None}, ok \in BOOLEAN : Subscribed(c, g, ok)
  \/ ReleaseStep
  \/ \E r \in Joiners, g \in Groups : Join(r, g) \/ Leave(r, g) \/ Only(r, g)
  \/ \E r \in Resources, g \in Groups, ok \in BOOLEAN : Joined(r, g, ok)

Spec == Init /\ [][Next]_vars

(* The event loop runs, topics are subscribed in the end (the callback     *)
(* gets its turn between the handlers), and a client that asks the root to *)
(* release a child asks again as long as it is there.                      *)
Fairness ==
  /\ WF_vars(ReleaseStep)
  /\ SF_vars(\E c \in Resources, g \in Groups \cup {None}, ok \in BOOLEAN :
               Subscribed(c, g, ok))
  /\ \A c \in Resources \ {Root} :
       SF_vars(IsIn(c, children[Root]) /\ Release(Root, c))

FairSpec == Spec /\ Fairness

-----------------------------------------------------------------------------
(* Nothing outlives its parent: as long as a resource has not been         *)
(* released, neither has the one that created it - unless that one was     *)
(* revived by a group, where it still creates what it is told to.          *)
NoOrphans ==
  \A c \in Resources \ {Root} :
    status[c] \in Alive => status[parent[c]] \in Alive \cup {"revived"}

(* A resource is in its parent's list, once, from its creation to its      *)
(* release, and in no other: each release is effective once, although the  *)
(* list is changed under the loop that walks it.                           *)
ListedOnce ==
  \A p, c \in Resources :
    LET places == {k \in DOMAIN children[p] : children[p][k] = c}
    IN  Cardinality(places) =
          IF c # Root /\ status[c] \in Alive /\ parent[c] = p THEN 1 ELSE 0

(* A client that repeats its request gets the whole tree released, however *)
(* many children the loop of release_self jumps over each time.            *)
RetriesRelease ==
  \A c \in Resources \ {Root} :
    parent[c] = Root ~> status[c] \in {"released", "revived"}

(* "@return [AbstractResource] Released child or nil if error"             *)
(* (abstract_resource.rb:258): when release_self of the child reports that *)
(* it failed, release returns nil and does not raise.                      *)
ReleaseReturnsNil == result # "NoMethodError"
=============================================================================
