----------------------------- MODULE Nf2Driver -----------------------------
(***************************************************************************)
(* The NetFPGA kernel driver (lib/C/kernel: nf2main.c, nf2_control.c,      *)
(* nf2util.c) and the part of the CPCI chip it talks to                    *)
(* (projects/cpci/src: reg_file.v, dma_engine_ctrl.v).                     *)
(*                                                                         *)
(* Packets wait in one ring of Pool slots shared by the ports.  Three      *)
(* contexts run at once: nf2c_tx (under txbuff_lock), the interrupt        *)
(* handler nf2c_intr on another CPU, and the transmit watchdog             *)
(* nf2c_tx_timeout.  All three call nf2c_send, which takes no lock: it     *)
(* claims the DMA engine by counting dma_tx_in_progress up, and counts it  *)
(* down again when it finds nothing it may send.  The watchdog and the     *)
(* handler of a DMA error reset the card and clear the counters            *)
(* (nf2c_clear_dma_flags), and nothing keeps them apart from the others.   *)
(*                                                                         *)
(* A packet is the slot it waits in, a slot holds the port number.  Packet *)
(* contents, statistics, the MAC enable register, the PHY's link bits, the *)
(* register ioctls and interrupts that are only logged are left out.       *)
(***************************************************************************)
EXTENDS Integers, FiniteSets

CONSTANTS Ifaces,      \* MAX_IFACE ports
          Pool,        \* tx_pool_size
          MaxAvail,    \* bound: packets waiting in the card for the host
          MaxOpens,    \* bound: ports brought up between two probes
          Nothing

ASSUME Nf2DriverAssumption ==
  /\ IsFiniteSet(Ifaces) /\ Ifaces # {}
  /\ Pool \in Nat \ {0} /\ MaxAvail \in Nat /\ MaxOpens \in Nat
  /\ Nothing \notin Int \cup Ifaces

VARIABLES pci,      \* the device: is its revision known, is it bound to the
                    \* driver, what does the driver hold of it
          ring, wr, rd, free, credit,
                    \* txbuff[], wr_txbuff, rd_txbuff, free_txbuffs,
                    \* free_txbuffs_port[]
          txp, rxp, \* dma_tx_in_progress, dma_rx_in_progress
          canWr,    \* dma_can_wr_pkt, the driver's copy
          up,       \* ifup
          stopped,  \* ports whose netdev queue is stopped
          opens,
          snd,      \* where each context is inside nf2c_send
          isr, wd,  \* the interrupt handler and the watchdog
          hw,       \* the card
          misjudged \* history: has a context cleared a counter for a transfer
                    \* that another one answered for, or written back an
                    \* interrupt mask that was the handler's?

drvVars == <<pci, ring, wr, rd, free, credit, txp, rxp, canWr, up, stopped,
             opens, snd, isr, wd, hw, misjudged>>

Slots == 0 .. Pool - 1
Share == Pool \div Cardinality(Ifaces)
Callers == {"tx", "isr", "wd"}
\* nf2c_tx runs, holding txbuff_lock: it ends with its call of nf2c_send.
\* Its port is that of the packet it has just queued.
InTx == snd["tx"] # "off"
TxPort == IF InTx THEN ring[(wr + Pool - 1) % Pool] ELSE Nothing
Bits == {"queue", "rx", "tx", "avail", "err"}
\* The flags that the handler looks at before this one.
Earlier == [queue |-> {}, rx |-> {"queue"}, tx |-> {"queue", "rx"},
            avail |-> {"queue", "rx", "tx"},
            err |-> {"queue", "rx", "tx", "avail"}]

-----------------------------------------------------------------------------
(* nf2_probe and nf2c_probe acquire in this order; a failure at one of them *)
(* jumps to a label, and the labels fall through to the end.                *)
Acquired == <<"enable", "region", "card", "io", "rxpool", "txpool", "ndev">>
Failures == {"enable", "revision", "mask", "region", "card", "io", "rxpool",
             "txpool", "ndev"}
Before(f) ==
  LET n == CASE f = "enable" -> 0
             [] f \in {"revision", "mask", "region"} -> 1
             [] f = "card" -> 2
             [] f = "io" -> 3
             [] f = "rxpool" -> 4
             [] f = "txpool" -> 5
             [] f = "ndev" -> 6
  IN  {Acquired[k] : k \in 1 .. n}
UnwindsLess(f) ==                    \* mutant: two labels swapped
  CASE f = "revision" -> {}
    [] f \in {"enable", "mask", "region"} -> {"enable"}
    [] f \in {"card", "io"} -> {"enable", "region"}
    [] f \in {"rxpool", "txpool", "ndev"} ->
         {"enable", "card", "io", "rxpool", "txpool"}
Unwinds(f) ==
  CASE f = "revision" -> {}                    \* returns, no label
    [] f \in {"enable", "mask", "region"} -> {"enable"}
    [] f = "card" -> {"enable", "region"}
    [] f = "io" -> {"enable", "region", "card"}
    [] f = "rxpool" -> {"enable", "region", "card", "io"}
    [] f = "txpool" -> {"enable", "region", "card", "io", "rxpool"}
    [] f = "ndev" -> {"enable", "region", "card", "io", "rxpool", "txpool"}

Everything == {Acquired[k] : k \in DOMAIN Acquired}

-----------------------------------------------------------------------------
(* The card.  A reset clears the owner bits and the flags; the queue status *)
(* and the packet-available edge are then seen anew.                        *)
Edges(room, avail) ==
  (IF room # {} \/ avail > 0 THEN {"queue"} ELSE {})
    \cup (IF avail > 0 THEN {"avail"} ELSE {})

ResetCpci(h) == [h EXCEPT !.wrOwner = Nothing, !.rdOwner = FALSE,
                          !.flags = Edges(h.room, h.avail)]
\* nf2_hw_reset: the CPCI, then the CNET with its queues; all is masked.
HwReset(h) == [wrOwner |-> Nothing, rdOwner |-> FALSE, room |-> Ifaces,
               avail |-> 0, flags |-> Edges(Ifaces, 0), mask |-> Bits]

\* Another port can take a packet again.
HwRoom(i) ==
  /\ i \notin hw.room
  /\ hw' = [hw EXCEPT !.room = @ \cup {i}, !.flags = @ \cup {"queue"}]
  /\ UNCHANGED <<pci, ring, wr, rd, free, credit, txp, rxp, canWr, up, stopped,
                 opens, snd, isr, wd, misjudged>>

\* A packet for the host arrives: an interrupt only for the first one.
HwArrive ==
  /\ up # {} /\ hw.avail < MaxAvail
  /\ hw' = [hw EXCEPT !.avail = @ + 1,
                      !.flags = IF hw.avail = 0 THEN @ \cup {"queue", "avail"}
                                                ELSE @]
  /\ UNCHANGED <<pci, ring, wr, rd, free, credit, txp, rxp, canWr, up, stopped,
                 opens, snd, isr, wd, misjudged>>

Again(avail) == IF avail > 0 THEN {"avail"} ELSE {"queue"}

\* One transfer by the DMA engine; it prefers a read.
HwRead ==
  /\ hw.rdOwner /\ hw.avail > 0
  /\ \/ hw' = [hw EXCEPT !.rdOwner = FALSE, !.avail = @ - 1,
                         !.flags = @ \cup {"rx"} \cup Again(hw.avail - 1)]
     \/ hw' = [hw EXCEPT !.rdOwner = FALSE,                    \* aborted
                         !.flags = @ \cup {"err"} \cup Again(hw.avail)]
  /\ UNCHANGED <<pci, ring, wr, rd, free, credit, txp, rxp, canWr, up, stopped,
                 opens, snd, isr, wd, misjudged>>

HwWrite ==
  /\ hw.wrOwner # Nothing /\ ~(hw.rdOwner /\ hw.avail > 0)
  /\ LET i == ring[hw.wrOwner]
         again == IF hw.avail > 0 THEN {"avail"} ELSE {}
     IN  \/ /\ i \in hw.room
            /\ \/ hw' = [hw EXCEPT !.wrOwner = Nothing,
                                   !.flags = @ \cup {"tx"} \cup again]
               \/ hw' = [hw EXCEPT !.wrOwner = Nothing, !.room = @ \ {i},
                                   !.flags = @ \cup {"tx", "queue"} \cup again]
         \/ hw' = [hw EXCEPT !.wrOwner = Nothing,       \* MAC full, or aborted
                             !.flags = @ \cup {"err"} \cup again]
  /\ UNCHANGED <<pci, ring, wr, rd, free, credit, txp, rxp, canWr, up, stopped,
                 opens, snd, isr, wd, misjudged>>

Hardware == HwArrive \/ HwRead \/ HwWrite \/ \E i \in Ifaces : HwRoom(i)

-----------------------------------------------------------------------------
(* Loading and unloading, opening and closing a port.                       *)
Probe ==
  /\ ~pci.bound /\ pci.known
  /\ pci' = [pci EXCEPT !.bound = TRUE, !.held = @ \cup Everything]
  /\ wr' = 0 /\ rd' = 0 /\ free' = Pool
  /\ credit' = [i \in Ifaces |-> Share]
  /\ txp' = 0 /\ rxp' = 0 /\ canWr' = {} /\ opens' = 0
  /\ UNCHANGED <<ring, up, stopped, snd, isr, wd, hw, misjudged>>

\* A card of another revision gets no further than that check.
ProbeFails(f) ==
  /\ ~pci.bound
  /\ f = "enable" \/ (f = "revision" <=> ~pci.known)
  /\ pci' = [pci EXCEPT !.held = (@ \cup Before(f)) \ Unwinds(f)]
  /\ UNCHANGED <<ring, wr, rd, free, credit, txp, rxp, canWr, up, stopped,
                 opens, snd, isr, wd, hw, misjudged>>

\* nf2_remove: unregister_netdev has closed the ports.
Remove ==
  /\ pci.bound /\ up = {}
  /\ pci' = [pci EXCEPT !.bound = FALSE, !.held = @ \ Everything]
  /\ rd' = (rd + Pool - free) % Pool /\ free' = Pool
  /\ UNCHANGED <<ring, wr, credit, txp, rxp, canWr, up, stopped,
                 opens, snd, isr, wd, hw, misjudged>>

\* The first port resets the card, attaches the handler and unmasks.
Open(i) ==
  /\ pci.bound /\ i \notin up /\ opens < MaxOpens
  /\ opens' = opens + 1
  /\ hw' = IF up = {} THEN [HwReset(hw) EXCEPT !.mask = {}] ELSE hw
  /\ up' = up \cup {i}
  /\ stopped' = stopped \ {i}
  /\ UNCHANGED <<pci, ring, wr, rd, free, credit, txp, rxp, canWr, snd, 
                 isr, wd, misjudged>>

OpenFails(i) ==                      \* request_irq fails
  /\ pci.bound /\ i \notin up /\ up = {}
  /\ hw' = HwReset(hw)
  /\ UNCHANGED <<pci, ring, wr, rd, free, credit, txp, rxp, canWr, up, stopped,
                 opens, snd, isr, wd, misjudged>>

\* nf2c_release: the kernel has let nf2c_tx and the watchdog of this port end;
\* free_irq lets the handler end.  The port credits are not given back.
Release(i) ==
  /\ i \in up /\ TxPort # i /\ wd.iface # i
  /\ up' = up \ {i}
  /\ stopped' = stopped \cup {i}
  /\ IF up' = {}
       THEN /\ isr.pc = "idle"
            /\ hw' = HwReset(hw)
            /\ ring' = [s \in Slots |-> Nothing]
            /\ rd' = (rd + Pool - free) % Pool /\ free' = Pool
            /\ txp' = 0 /\ rxp' = 0
       ELSE UNCHANGED <<hw, ring, rd, free, txp, rxp>>
  /\ UNCHANGED <<pci, wr, credit, canWr, opens, snd, isr, wd, misjudged>>

-----------------------------------------------------------------------------
(* nf2c_send, called by p: claim, look, start the transfer or step back.    *)
SendClaimAlways(p) ==                \* mutant: the count is not looked at
  /\ snd[p] = "claim"
  /\ txp' = txp + 1
  /\ snd' = [snd EXCEPT ![p] = "look"]
  /\ UNCHANGED <<pci, ring, wr, rd, free, credit, rxp, canWr, up, stopped,
                 opens, isr, wd, hw, misjudged>>

SendClaim(p) ==
  /\ snd[p] = "claim"
  /\ txp' = txp + 1
  /\ snd' = [snd EXCEPT ![p] = IF txp + 1 = 1 THEN "look" ELSE "back"]
  /\ UNCHANGED <<pci, ring, wr, rd, free, credit, rxp, canWr, up, stopped,
                 opens, isr, wd, hw, misjudged>>

SendLook(p) ==
  /\ snd[p] = "look"
  /\ IF free # Pool /\ ring[rd] \in canWr
       THEN /\ snd' = [snd EXCEPT ![p] = "off"]
            /\ hw' = [hw EXCEPT !.wrOwner = rd]
       ELSE /\ snd' = [snd EXCEPT ![p] = "back"]
            /\ UNCHANGED hw
  /\ UNCHANGED <<pci, ring, wr, rd, free, credit, txp, rxp, canWr, up, stopped,
                 opens, isr, wd, misjudged>>

SendBack(p) ==
  /\ snd[p] = "back"
  /\ txp' = txp - 1
  /\ snd' = [snd EXCEPT ![p] = "off"]
  /\ UNCHANGED <<pci, ring, wr, rd, free, credit, rxp, canWr, up, stopped,
                 opens, isr, wd, hw, misjudged>>

Send(p) == SendClaim(p) \/ SendLook(p) \/ SendBack(p)

\* "if (card->free_txbuffs != tx_pool_size) nf2c_send(...)"
SendIfAny(p, n) == [snd EXCEPT ![p] = IF n # Pool THEN "claim" ELSE "off"]

-----------------------------------------------------------------------------
(* nf2c_tx: queue a packet of port i under txbuff_lock, then try to send.   *)
(* With no free slot it changes nothing and the kernel keeps the packet.    *)
NfTxNoCredit(i) ==                   \* mutant: the port's credit is not taken
  /\ ~InTx /\ i \in up \ stopped /\ free > 0 /\ wd.iface # i
  /\ ring' = [ring EXCEPT ![wr] = i]
  /\ wr' = (wr + 1) % Pool
  /\ free' = free - 1
  /\ snd' = [snd EXCEPT !["tx"] = "claim"]
  /\ UNCHANGED <<pci, rd, credit, stopped, txp, rxp, canWr, up, opens, isr,
                 wd, hw, misjudged>>
NfTx(i) ==
  /\ ~InTx /\ i \in up \ stopped /\ free > 0
  /\ wd.iface # i                                \* the port's own xmit lock
  /\ ring' = [ring EXCEPT ![wr] = i]
  /\ wr' = (wr + 1) % Pool
  /\ free' = free - 1
  /\ credit' = [credit EXCEPT ![i] = @ - 1]
  /\ stopped' = IF credit[i] - 1 = 0 THEN stopped \cup {i} ELSE stopped
  /\ snd' = [snd EXCEPT !["tx"] = "claim"]
  /\ UNCHANGED <<pci, rd, txp, rxp, canWr, up, opens, isr, wd, hw, misjudged>>

\* The slot at rd is done with; under txbuff_lock, so not while nf2c_tx runs.
FreeSlot(p) ==
  LET i == ring[rd]
  IN  /\ ~InTx
      /\ ring' = [ring EXCEPT ![rd] = Nothing]
      /\ rd' = (rd + 1) % Pool
      /\ free' = free + 1
      /\ credit' = [credit EXCEPT ![i] = @ + 1]
      /\ txp' = txp - 1
      /\ stopped' = IF credit[i] + 1 = 1 THEN stopped \ {i} ELSE stopped
      /\ snd' = SendIfAny(p, free + 1)

-----------------------------------------------------------------------------
(* A caller of nf2c_send that has counted up and may still count down, and  *)
(* the transfers that the counters stand for without such passing claims.   *)
Claims(p) == IF snd[p] \in {"look", "back"} THEN 1 ELSE 0
Flight == txp - (Claims("tx") + Claims("isr") + Claims("wd"))
Receipt == rxp - (IF isr.pc = "queued" THEN 1 ELSE 0)

\* There is a transfer to clean up after: the card no longer does it, its
\* end is not still to be handled, and no context has begun to clean up.
TxOver ==
  /\ Flight = 1 /\ hw.wrOwner = Nothing /\ "tx" \notin hw.flags \cup isr.status
  /\ isr.pc # "free" /\ wd.pc # "free"
RxOver ==
  /\ Receipt = 1 /\ ~hw.rdOwner /\ "rx" \notin hw.flags \cup isr.status
  /\ isr.pc # "clearRx" /\ wd.pc # "clearRx"

(* nf2c_clear_dma_flags, called by context p after it reset the card: the   *)
(* receive counter is looked at and counted down, then the transmit counter *)
(* is looked at and the slot at the head given back, under txbuff_lock.     *)
Pc(p) == IF p = "isr" THEN isr.pc ELSE wd.pc
MoveTo(p, l) ==
  /\ isr' = IF p = "isr" THEN [isr EXCEPT !.pc = l] ELSE isr
  /\ wd' = IF p = "wd" THEN [wd EXCEPT !.pc = l] ELSE wd
AfterClear(p) == IF p = "isr" THEN "run" ELSE "send"

ClearRxLook(p) ==
  /\ Pc(p) = "clear"
  /\ MoveTo(p, IF rxp # 0 THEN "clearRx" ELSE "clearTx")
  /\ misjudged' = (misjudged \/ (rxp # 0 /\ ~RxOver))
  /\ UNCHANGED <<pci, ring, wr, rd, free, credit, txp, rxp, canWr, up, stopped,
                 opens, snd, hw>>

ClearRx(p) ==
  /\ Pc(p) = "clearRx"
  /\ rxp' = rxp - 1
  /\ MoveTo(p, "clearTx")
  /\ UNCHANGED <<pci, ring, wr, rd, free, credit, txp, canWr, up, stopped,
                 opens, snd, hw, misjudged>>

ClearTxLook(p) ==
  /\ Pc(p) = "clearTx"
  /\ MoveTo(p, IF txp # 0 THEN "free" ELSE AfterClear(p))
  /\ snd' = IF txp = 0 THEN SendIfAny(p, free) ELSE snd
  /\ misjudged' = (misjudged \/ (txp # 0 /\ ~TxOver))
  /\ UNCHANGED <<pci, ring, wr, rd, free, credit, txp, rxp, canWr, up, stopped,
                 opens, hw>>

\* The slot is given back; the handler of a finished transfer does the same.
ClearTx(p) ==
  /\ Pc(p) = "free"
  /\ FreeSlot(p)
  /\ MoveTo(p, AfterClear(p))
  /\ UNCHANGED <<pci, wr, rxp, canWr, up, opens, hw, misjudged>>

Clear(p) == ClearRxLook(p) \/ ClearRx(p) \/ ClearTxLook(p) \/ ClearTx(p)

-----------------------------------------------------------------------------
(* nf2c_intr: read and mask, handle the flags in a fixed order, restore.    *)
IsrEnter ==
  /\ isr.pc = "idle" /\ up # {} /\ hw.flags \ hw.mask # {}
  /\ isr' = [pc |-> "run", mask |-> hw.mask,
             status |-> hw.flags \ (hw.mask \ {"avail"})]
  /\ hw' = [hw EXCEPT !.flags = {}, !.mask = Bits]
  /\ UNCHANGED <<pci, ring, wr, rd, free, credit, txp, rxp, canWr, up, stopped,
                 opens, snd, wd, misjudged>>

\* The handler is at flag b: the earlier ones are done with.
At(b) ==
  /\ isr.pc = "run" /\ snd["isr"] = "off"
  /\ b \in isr.status /\ isr.status \cap Earlier[b] = {}

\* dma_rx_in_progress is counted up around the send, which a read excludes.
IsrQueue ==
  /\ At("queue")
  /\ canWr' = hw.room
  /\ rxp' = rxp + 1
  /\ snd' = IF rxp + 1 = 1 THEN SendIfAny("isr", free) ELSE snd
  /\ isr' = [isr EXCEPT !.pc = "queued", !.status = @ \ {"queue"}]
  /\ UNCHANGED <<pci, ring, wr, rd, free, credit, txp, up, stopped, opens, 
                 wd, hw, misjudged>>

IsrQueueEnd ==
  /\ isr.pc = "queued" /\ snd["isr"] = "off"
  /\ rxp' = rxp - 1
  /\ isr' = [isr EXCEPT !.pc = "run"]
  /\ UNCHANGED <<pci, ring, wr, rd, free, credit, txp, canWr, up, stopped,
                 opens, snd, wd, hw, misjudged>>

IsrRx ==
  /\ At("rx")
  /\ rxp' = rxp - 1
  /\ isr' = [isr EXCEPT !.status = @ \ {"rx"}, !.mask = @ \ {"avail"}]
  /\ UNCHANGED <<pci, ring, wr, rd, free, credit, txp, canWr, up, stopped,
                 opens, snd, wd, hw, misjudged>>

\* The port and the packet are read here, before the lock is taken.
IsrTx ==
  /\ At("tx")
  /\ isr' = [isr EXCEPT !.status = @ \ {"tx"},
                        !.pc = IF txp # 0 THEN "free" ELSE @]
  /\ UNCHANGED <<pci, ring, wr, rd, free, credit, txp, rxp, canWr, up, stopped,
                 opens, snd, wd, hw, misjudged>>

IsrAvail ==
  /\ At("avail")
  /\ IF rxp + 1 = 1
       THEN /\ rxp' = rxp + 1
            /\ hw' = [hw EXCEPT !.rdOwner = TRUE]
       ELSE UNCHANGED <<rxp, hw>>
  /\ isr' = [isr EXCEPT !.status = @ \ {"avail"}, !.mask = @ \cup {"avail"}]
  /\ UNCHANGED <<pci, ring, wr, rd, free, credit, txp, canWr, up, stopped,
                 opens, snd, wd, misjudged>>

\* A DMA error of any kind: reset the CPCI, clear the flags, send the next.
IsrErrKeepsRx ==                     \* mutant: the receive flag is not cleared
  /\ At("err")
  /\ hw' = ResetCpci(hw)
  /\ isr' = [isr EXCEPT !.status = @ \ {"err"}, !.pc = "clearTx"]
  /\ UNCHANGED <<pci, ring, wr, rd, free, credit, txp, rxp, canWr, up, stopped,
                 opens, snd, wd, misjudged>>
IsrErr ==
  /\ At("err")
  /\ hw' = ResetCpci(hw)
  /\ isr' = [isr EXCEPT !.status = @ \ {"err"}, !.pc = "clear"]
  /\ UNCHANGED <<pci, ring, wr, rd, free, credit, txp, rxp, canWr, up, stopped,
                 opens, snd, wd, misjudged>>

IsrExit ==
  /\ isr.pc = "run" /\ snd["isr"] = "off" /\ isr.status = {}
  /\ hw' = [hw EXCEPT !.mask = isr.mask]
  /\ isr' = [pc |-> "idle", mask |-> {}, status |-> {}]
  /\ UNCHANGED <<pci, ring, wr, rd, free, credit, txp, rxp, canWr, up, stopped,
                 opens, snd, wd, misjudged>>

Isr == \/ IsrEnter \/ IsrQueue \/ IsrQueueEnd \/ IsrRx \/ IsrTx
       \/ IsrAvail \/ IsrErr \/ IsrExit \/ Clear("isr") \/ Send("isr")

-----------------------------------------------------------------------------
(* nf2c_tx_timeout: the kernel's watchdog calls it for a port whose queue   *)
(* has been stopped for NF2_TIMEOUT, under that port's own xmit lock, which *)
(* nf2c_tx of that port holds too.                                          *)
WdStart(i) ==
  /\ wd.pc = "idle" /\ i \in stopped \cap up /\ TxPort # i
  /\ wd' = [pc |-> "reset", iface |-> i, mask |-> hw.mask]
  /\ UNCHANGED <<pci, ring, wr, rd, free, credit, txp, rxp, canWr, up, stopped,
                 opens, snd, isr, hw, misjudged>>

\* The mask that was read above is written back: all is masked for good if
\* it was read while the handler ran and is written when it no longer does.
WdReset ==
  /\ wd.pc = "reset"
  /\ hw' = [HwReset(hw) EXCEPT !.mask = wd.mask]
  /\ wd' = [wd EXCEPT !.pc = "clear", !.mask = {}]
  /\ misjudged' = (misjudged \/ (isr.pc = "idle" /\ wd.mask = Bits))
  /\ UNCHANGED <<pci, ring, wr, rd, free, credit, txp, rxp, canWr, up, stopped,
                 opens, snd, isr>>

WdEnd ==
  /\ wd.pc = "send" /\ snd["wd"] = "off"
  /\ stopped' = stopped \ {wd.iface}
  /\ wd' = [pc |-> "idle", iface |-> Nothing, mask |-> {}]
  /\ UNCHANGED <<pci, ring, wr, rd, free, credit, txp, rxp, canWr, up,
                 opens, snd, isr, hw, misjudged>>

Wd == WdReset \/ WdEnd \/ Clear("wd") \/ Send("wd")

-----------------------------------------------------------------------------
DrvInit ==
  /\ pci \in [known : BOOLEAN, bound : {FALSE}, held : {{}}]
  /\ ring = [s \in Slots |-> Nothing]
  /\ wr = 0 /\ rd = 0 /\ free = Pool
  /\ credit = [i \in Ifaces |-> Share]
  /\ txp = 0 /\ rxp = 0 /\ canWr = {} /\ up = {} /\ stopped = {} /\ opens = 0
  /\ snd = [p \in Callers |-> "off"]
  /\ isr = [pc |-> "idle", mask |-> {}, status |-> {}]
  /\ wd = [pc |-> "idle", iface |-> Nothing, mask |-> {}]
  /\ hw = HwReset(Nothing) /\ misjudged = FALSE

Control == \/ Probe \/ Remove \/ \E f \in Failures : ProbeFails(f)
           \/ \E i \in Ifaces : Open(i) \/ OpenFails(i) \/ Release(i)

DrvNext ==
  \/ Hardware \/ Control \/ Isr \/ Wd
  \/ Send("tx")
  \/ \E i \in Ifaces : NfTx(i) \/ WdStart(i)

\* The card goes on, a context that runs goes on, and the kernel's timer
\* fires for a queue that stays stopped.
DrvFairness ==
  /\ WF_drvVars(HwRead) /\ SF_drvVars(HwWrite)
  /\ \A i \in Ifaces : WF_drvVars(HwRoom(i))
  /\ WF_drvVars(Isr) /\ WF_drvVars(Send("tx")) /\ WF_drvVars(Wd)
  /\ \A i \in Ifaces : SF_drvVars(WdStart(i))

DrvSpec == DrvInit /\ [][DrvNext]_drvVars /\ DrvFairness

-----------------------------------------------------------------------------
Queued == {(rd + k) % Pool : k \in 0 .. Pool - free - 1}
QueuedOf(i) == Cardinality({s \in Queued : ring[s] = i})

IsrPcs == {"idle", "run", "queued", "clear", "clearRx", "clearTx", "free"}
WdPcs == {"idle", "reset", "clear", "clearRx", "clearTx", "free", "send"}

DrvTypeOK ==
  /\ pci \in [known : BOOLEAN, bound : BOOLEAN, held : SUBSET Everything]
  /\ ring \in [Slots -> Ifaces \cup {Nothing}]
  /\ wr \in Slots /\ rd \in Slots /\ free \in Int
  /\ credit \in [Ifaces -> Int]
  /\ txp \in Int /\ rxp \in Int
  /\ canWr \subseteq Ifaces /\ up \subseteq Ifaces /\ stopped \subseteq Ifaces
  /\ opens \in 0 .. MaxOpens
  /\ snd \in [Callers -> {"off", "claim", "look", "back"}]
  /\ isr \in [pc : IsrPcs, mask : SUBSET Bits, status : SUBSET Bits]
  /\ wd \in [pc : WdPcs, iface : Ifaces \cup {Nothing}, mask : SUBSET Bits]
  /\ hw \in [wrOwner : Slots \cup {Nothing}, rdOwner : BOOLEAN,
             room : SUBSET Ifaces, avail : 0 .. MaxAvail,
             flags : SUBSET Bits, mask : SUBSET Bits]
  /\ misjudged \in BOOLEAN

(* nf2c_clear_dma_flags takes a counter that is not zero for a transfer     *)
(* that is over and its own to clean up after.  Beside other contexts that  *)
(* is a guess: the counter may stand for a passing claim of nf2c_send, for  *)
(* a transfer begun after the reset, for one whose end the handler has      *)
(* already read, or for one that the other context is cleaning up after.    *)
(* The properties below hold in every interleaving up to the first wrong    *)
(* guess, or until the watchdog, ending after the handler, writes back the  *)
(* mask it read while the handler ran.                                      *)

\* The ring's two positions and its free count agree in every interleaving of
\* nf2c_tx, nf2c_intr, nf2c_release and the watchdog, no port is ever given
\* more credit than its share (nf2c_release loses credit, so "less" happens),
\* and neither counter of transfers goes below zero, where nf2c_send and the
\* receive path would never find it at one again.
RingAccounts ==
  ~misjudged =>
    /\ free \in 0 .. Pool /\ wr = (rd + Pool - free) % Pool
    /\ \A i \in Ifaces : credit[i] + QueuedOf(i) <= Share
    /\ txp >= 0 /\ rxp >= 0

\* The engine reads only the packet at the head of the ring, which is not
\* freed before the transfer ends, and the driver knows of the transfer: two
\* callers of the lock-free nf2c_send never both start one.
EngineReadsHead ==
  ~misjudged /\ hw.wrOwner # Nothing =>
    free # Pool /\ hw.wrOwner = rd /\ txp > 0

\* When no context runs, a transfer the driver counts as in progress is one
\* that the card is doing or whose end it will still report, by an interrupt
\* that is not masked: else the driver would never transmit (or receive) again.
NoPhantomDma ==
  ~misjudged /\ ~InTx /\ isr.pc = "idle" /\ wd.pc = "idle" =>
    /\ txp > 0 => \/ hw.wrOwner # Nothing
                  \/ (hw.flags \ hw.mask) \cap {"tx", "err"} # {}
    /\ rxp > 0 => hw.rdOwner \/ (hw.flags \ hw.mask) \cap {"rx", "err"} # {}

\* A probe that fails at any of its steps gives back all it acquired, and so
\* does nf2_remove: a card that is not bound holds nothing, except that one
\* of an unknown revision stays enabled; a bound one holds everything.
AbsentHoldsNothing ==
  IF pci.bound THEN pci.held = Everything
               ELSE pci.held \subseteq (IF pci.known THEN {} ELSE {"enable"})

\* nf2c_send needs no lock because "this function will be called again"
\* (nf2_control.c): a full ring is sent from eventually.
FullRingDrains == (up # {} /\ free = 0) ~> (free > 0)
=============================================================================
