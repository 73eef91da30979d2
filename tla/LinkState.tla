------------------------------ MODULE LinkState ------------------------------
(***************************************************************************)
(* What the PWOSPF link-state database promises its readers, without the   *)
(* hellos, floods, queues and threads that keep the promise: every router  *)
(* publishes numbered advertisements of its interfaces, and what another   *)
(* router holds about it is nothing or one of the advertisements it really *)
(* published.  A held advertisement gives way only to one with a higher    *)
(* number, to nothing, or to the restart of its holder.                    *)
(***************************************************************************)
EXTENDS Naturals

CONSTANTS
  Routers,   \* the routers of the area
  Seqs,      \* the sequence numbers
  Adverts,   \* the sets of interfaces a router can advertise
  None

VARIABLES
  said,      \* router -> the advertisements it has published, <<number, set>>
  view       \* router -> router -> the advertisement held, or None

vars == <<said, view>>

(* Any moment of the life of the area: what is held has been published. *)
Init ==
  /\ \A r \in Routers : said[r] \subseteq Seqs \X Adverts
  /\ view \in [Routers -> [Routers -> (UNION {said[q] : q \in Routers}) \cup {None}]]
  /\ \A r, q \in Routers : view[r][q] # None => view[r][q] \in said[q]

(* Router r publishes one more advertisement. *)
Publish(r) ==
  /\ said'[r] \subseteq Seqs \X Adverts
  /\ \E a \in said'[r] : said' = [said EXCEPT ![r] = @ \cup {a}]

(* Advertisement a takes the place of what is held. *)
Newer(held, a) == held = None \/ a[1] > held[1]

(* Router r learns about q. *)
Learn(r, q) ==
  \E a \in said[q] : /\ Newer(view[r][q], a)
                     /\ view' = [view EXCEPT ![r][q] = a]

(* Router r drops what it holds about some routers. *)
Forget(r) ==
  \E gone \in SUBSET {q \in Routers : view[r][q] # None} :
    view' = [view EXCEPT ![r] = [q \in Routers |-> IF q \in gone THEN None ELSE @[q]]]

(* What r learns or forgets may make it publish in the same step. *)
Next ==
  \E r \in Routers :
    /\ UNCHANGED said \/ Publish(r)
    /\ UNCHANGED view \/ Forget(r) \/ \E q \in Routers \ {r} : Learn(r, q)

Spec == Init /\ [][Next]_vars
=============================================================================
