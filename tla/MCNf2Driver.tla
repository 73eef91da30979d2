---------------------------- MODULE MCNf2Driver ----------------------------
EXTENDS Nf2Driver, TLC
CONSTANTS i1, i2

Perms == Permutations(Ifaces)

(* Only the slots' distances from the head matter. *)
FromHead(s) == IF s = Nothing THEN s ELSE (s + Pool - rd) % Pool
View == <<IF rd = 0 THEN ring ELSE [k \in Slots |-> ring[(rd + k) % Pool]],
          FromHead(wr), FromHead(hw.wrOwner), hw.rdOwner, hw.room, hw.avail,
          hw.flags, hw.mask, pci, free, credit, txp, rxp, canWr, up, stopped,
          opens, snd, isr, wd, misjudged>>

(* The properties say nothing of what follows a wrong guess, and there the *)
(* counters would have no bound.                                           *)
Judged == ~misjudged
=============================================================================
