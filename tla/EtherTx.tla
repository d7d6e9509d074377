------------------------------- MODULE EtherTx -------------------------------
(***************************************************************************)
(* The transmit ring of etherkirkwood.c and its callers: etheroq in        *)
(* devether.c queues a packet and calls transmit; the interrupt handler    *)
(* calls it when the hardware has sent something and packets wait.         *)
(* transmit holds ctlr's ilock, so no process and no handler runs while it *)
(* does, but the hardware does.  Packets are numbered as they are queued.  *)
(***************************************************************************)
EXTENDS Integers, Sequences, FiniteSets

CONSTANTS
  Ntx,        \* descriptors in the ring
  MaxPkts,    \* packets the processes write (bound)
  BadPkts,    \* those of a size transmit refuses
  OtherCauses \* whether the handler also runs for other causes

ASSUME NtxAssumption == Ntx \in Nat /\ Ntx >= 2
ASSUME PktsAssumption == MaxPkts \in Nat /\ BadPkts \subseteq 1 .. MaxPkts
ASSUME CausesAssumption == OtherCauses \in BOOLEAN

Pkts == 1 .. MaxPkts
Nil == 0
Ring == 0 .. (Ntx - 1)

NEXT(i) == IF i = Ntx - 1 THEN 0 ELSE i + 1

VARIABLES
  own,        \* TCSdmaown of each descriptor
  buf,        \* the packet each descriptor points at
  txb,        \* Ctlr.txb: the block the driver still has to free, or Nil
  txhead, txtail,
  oq,         \* Ether.oq
  written,    \* packets queued so far
  callers,    \* processes between qbwrite and transmit
  tx,         \* the handler and transmit: "out", "clear", "reclaim" or "queue"
  hwp,        \* the descriptor the hardware sends next
  sent,       \* packets the hardware has sent, in order
  freed,      \* blocks freed
  irqe,       \* IEtxbufferq in the cause register
  seen,       \* the same as the handler read it
  panicked

vars == <<own, buf, txb, txhead, txtail, oq, written, callers, tx, hwp, sent, freed,
          irqe, seen, panicked>>

Init ==
  /\ own = [i \in Ring |-> FALSE]
  /\ buf = [i \in Ring |-> Nil]
  /\ txb = [i \in Ring |-> Nil]
  /\ txhead = 0 /\ txtail = 0 /\ hwp = 0
  /\ oq = <<>> /\ sent = <<>> /\ freed = {}
  /\ written = 0 /\ callers = 0
  /\ tx = "out"
  /\ irqe = FALSE /\ seen = FALSE
  /\ panicked = FALSE

Running == ~panicked /\ tx = "out"

\* etheroq: qbwrite(ether->oq, bp) ...
Write ==
  /\ Running
  /\ written < MaxPkts
  /\ written' = written + 1
  /\ oq' = Append(oq, written + 1)
  /\ callers' = callers + 1
  /\ UNCHANGED <<own, buf, txb, txhead, txtail, tx, hwp, sent, freed, irqe, seen, panicked>>

\* ... and, maybe after being preempted, ether->transmit(ether).
CallTransmit ==
  /\ Running
  /\ callers > 0
  /\ callers' = callers - 1
  /\ tx' = "reclaim"
  /\ UNCHANGED <<own, buf, txb, txhead, txtail, oq, written, hwp, sent, freed, irqe, seen, panicked>>

\* interrupt: the causes are read ...
IntrRead ==
  /\ Running
  /\ irqe \/ OtherCauses
  /\ seen' = irqe
  /\ tx' = "clear"
  /\ UNCHANGED <<own, buf, txb, txhead, txtail, oq, written, callers, hwp, sent, freed,
                 irqe, panicked>>

\* Mutant: the handler does not call transmit.
IntrClear_notransmit ==
  /\ tx = "clear"
  /\ irqe' = FALSE
  /\ tx' = "out"
  /\ UNCHANGED <<own, buf, txb, txhead, txtail, oq, written, callers, hwp, sent, freed,
                 seen, panicked>>

\* ... and all cleared; transmit is called only if packets wait.
IntrClear ==
  /\ tx = "clear"
  /\ irqe' = FALSE
  /\ tx' = IF seen /\ oq # <<>> THEN "reclaim" ELSE "out"
  /\ UNCHANGED <<own, buf, txb, txhead, txtail, oq, written, callers, hwp, sent, freed,
                 seen, panicked>>

\* One turn of the loop that frees blocks: it goes on at a descriptor whose
\* TCSdmaown is set.
Reclaim ==
  /\ ~panicked
  /\ tx = "reclaim"
  /\ txtail # txhead
  /\ own[txtail]
  /\ IF txb[txtail] = Nil
     THEN panicked' = TRUE /\ UNCHANGED <<freed, txb, txtail>>
     ELSE /\ freed' = freed \cup {txb[txtail]}
          /\ txb' = [txb EXCEPT ![txtail] = Nil]
          /\ txtail' = NEXT(txtail)
          /\ UNCHANGED panicked
  /\ UNCHANGED <<own, buf, txhead, oq, written, callers, tx, hwp, sent, irqe, seen>>

\* The loop ends: tail caught up with head, or TCSdmaown is clear.
ReclaimEnd ==
  /\ ~panicked
  /\ tx = "reclaim"
  /\ txtail = txhead \/ ~own[txtail]
  /\ tx' = "queue"
  /\ UNCHANGED <<own, buf, txb, txhead, txtail, oq, written, callers, hwp, sent, freed,
                 irqe, seen, panicked>>

\* A packet of a bad size is freed and skipped, any other goes to the ring.
Refuse ==
  /\ ~panicked
  /\ tx = "queue"
  /\ oq # <<>> /\ Head(oq) \in BadPkts
  /\ ~own[txhead]
  /\ oq' = Tail(oq)
  /\ freed' = freed \cup {Head(oq)}
  /\ UNCHANGED <<own, buf, txb, txhead, txtail, written, callers, tx, hwp, sent, irqe, seen, panicked>>

\* Mutant: the ring is filled without a look at who owns the descriptor.
Queue_noownercheck ==
  /\ ~panicked
  /\ tx = "queue"
  /\ oq # <<>> /\ Head(oq) \notin BadPkts
  /\ oq' = Tail(oq)
  /\ txb' = [txb EXCEPT ![txhead] = Head(oq)]
  /\ buf' = [buf EXCEPT ![txhead] = Head(oq)]
  /\ own' = [own EXCEPT ![txhead] = TRUE]
  /\ txhead' = NEXT(txhead)
  /\ UNCHANGED <<txtail, written, callers, tx, hwp, sent, freed, irqe, seen, panicked>>

\* Mutant: the newest packet is taken from the queue.
Queue_lifo ==
  /\ ~panicked
  /\ tx = "queue"
  /\ oq # <<>> /\ oq[Len(oq)] \notin BadPkts
  /\ ~own[txhead]
  /\ oq' = SubSeq(oq, 1, Len(oq) - 1)
  /\ txb' = [txb EXCEPT ![txhead] = oq[Len(oq)]]
  /\ buf' = [buf EXCEPT ![txhead] = oq[Len(oq)]]
  /\ own' = [own EXCEPT ![txhead] = TRUE]
  /\ txhead' = NEXT(txhead)
  /\ UNCHANGED <<txtail, written, callers, tx, hwp, sent, freed, irqe, seen, panicked>>

Queue ==
  /\ ~panicked
  /\ tx = "queue"
  /\ oq # <<>> /\ Head(oq) \notin BadPkts
  /\ ~own[txhead]
  /\ oq' = Tail(oq)
  /\ txb' = [txb EXCEPT ![txhead] = Head(oq)]
  /\ buf' = [buf EXCEPT ![txhead] = Head(oq)]
  /\ own' = [own EXCEPT ![txhead] = TRUE]
  /\ txhead' = NEXT(txhead)
  /\ UNCHANGED <<txtail, written, callers, tx, hwp, sent, freed, irqe, seen, panicked>>

\* The queue is empty or the ring is full (txringfull).
QueueEnd ==
  /\ ~panicked
  /\ tx = "queue"
  /\ oq = <<>> \/ own[txhead]
  /\ tx' = "out"
  /\ UNCHANGED <<own, buf, txb, txhead, txtail, oq, written, callers, hwp, sent, freed,
                 irqe, seen, panicked>>

\* The hardware sends the next descriptor it owns and raises the cause.
HwSend ==
  /\ ~panicked
  /\ own[hwp]
  /\ own' = [own EXCEPT ![hwp] = FALSE]
  /\ sent' = Append(sent, buf[hwp])
  /\ hwp' = NEXT(hwp)
  /\ irqe' = TRUE
  /\ UNCHANGED <<buf, txb, txhead, txtail, oq, written, callers, tx, freed, seen, panicked>>

Transmit == Reclaim \/ ReclaimEnd \/ Refuse \/ Queue \/ QueueEnd

Next == Write \/ CallTransmit \/ IntrRead \/ IntrClear \/ Transmit \/ HwSend

Spec == Init /\ [][Next]_vars

\* transmit returns, its callers run, the hardware sends, interrupts for it are
\* taken; the other causes need not occur.
FairSpec ==
  /\ Spec
  /\ WF_vars(CallTransmit) /\ SF_vars(IntrRead /\ irqe) /\ WF_vars(IntrClear)
  /\ WF_vars(Transmit) /\ WF_vars(HwSend)

-----------------------------------------------------------------------------
(* Properties                                                              *)

\* Packets leave in the order they were queued, each at most once.
SentInOrder == \A i, j \in DOMAIN sent : i < j => sent[i] < sent[j]

\* A packet that was refused is not sent, and one in the ring is never refused:
\* what has left oq was sent, is the hardware's, or was refused.
Accounted ==
  \A p \in 1 .. written :
    \/ \E i \in DOMAIN oq : oq[i] = p
    \/ p \in BadPkts /\ p \in freed
    \/ p \notin BadPkts /\ \/ \E i \in DOMAIN sent : sent[i] = p
                           \/ \E i \in Ring : own[i] /\ buf[i] = p

\* etherkirkwood.c:421 "free transmitted packets": the block of a packet is
\* not freed while its descriptor is still the hardware's.
FreedAfterSent == \A i \in Ring : own[i] => buf[i] \notin freed

\* Every packet of a good size that was queued is sent in the end, as long as
\* the handler runs for this cause alone: else it may clear a bit it has not
\* read.
PacketsSent ==
  [](tx = "clear" => seen) =>
    \A p \in Pkts \ BadPkts : (written >= p) ~> (\E i \in DOMAIN sent : sent[i] = p)

-----------------------------------------------------------------------------
(* The refinement of PacketFifo.                                           *)

\* The packets that are on their way: the hardware's and those in oq.
InFlight == {buf[i] : i \in {j \in Ring : own[j]}} \cup {oq[j] : j \in DOMAIN oq}

Fifo == INSTANCE PacketFifo
        WITH Bad <- BadPkts, accepted <- written, waiting <- InFlight, out <- sent

\* etheroq and transmit give their callers what PacketFifo promises, with oq, the
\* ring, its two indices and the interrupts hidden: the next packet on the wire is
\* the oldest on its way, and none but a refused one leaves in another way.
FifoSpec == Fifo!Spec

=============================================================================
