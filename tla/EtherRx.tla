------------------------------- MODULE EtherRx -------------------------------
(***************************************************************************)
(* The receive ring of etherkirkwood.c.  The driver lends the hardware     *)
(* blocks from a pool through a ring of descriptors; receive hands a full  *)
(* block to the network stack, which gives it back to the pool when it is  *)
(* done with it (Block.free is rxfreeb).  The hardware goes on while the   *)
(* interrupt handler runs; processes do not.                               *)
(***************************************************************************)
EXTENDS Integers, FiniteSets

CONSTANTS
  Nrx,          \* descriptors in the ring
  Blocks,       \* the Nrxblocks blocks that ctlrinit allocates
  Nil,
  QueueLimit,   \* blocks the stack's input queues hold before qpass fails
  OtherCauses   \* whether the handler also runs for other causes

ASSUME NrxAssumption == Nrx \in Nat /\ Nrx >= 2
ASSUME BlocksAssumption == Nil \notin Blocks
ASSUME LimitAssumption == QueueLimit \in Nat /\ OtherCauses \in BOOLEAN

Ring == 0 .. (Nrx - 1)

\* Mutant: a descriptor is skipped.
NEXT_skip(i) == (i + 2) % Nrx

NEXT(i) == IF i = Nrx - 1 THEN 0 ELSE i + 1

VARIABLES
  own,        \* RCSdmaown of each descriptor
  status,     \* what the hardware wrote in cs: "ok" or "bad" (error, fragment)
  rxb,        \* the block of each descriptor
  rxhead, rxtail,
  hwp,        \* the descriptor the hardware uses next
  free,       \* freeblocks
  upper,      \* blocks the network stack has
  irq,        \* the receive bit of the irq register
  hnd,        \* the handler: "out", "clear", "receive" or "replenish"
  seen,       \* the receive bit as the handler read it
  crashed     \* receive went round the ring: it used a nil block, and its loop
              \* never ends as no descriptor is the hardware's any more

vars == <<own, status, rxb, rxhead, rxtail, hwp, free, upper, irq, hnd, seen, crashed>>

\* ctlrinit empties the ring and calls rxreplenish: the handler's last phase.
Init ==
  /\ own = [i \in Ring |-> FALSE]
  /\ status = [i \in Ring |-> "ok"]
  /\ rxb = [i \in Ring |-> Nil]
  /\ rxhead = 0 /\ rxtail = 0 /\ hwp = 0
  /\ free = Blocks
  /\ upper = {}
  /\ irq = FALSE
  /\ hnd = "replenish"
  /\ seen = FALSE
  /\ crashed = FALSE

\* The hardware receives a frame into the next descriptor it owns; without
\* one the frame is discarded.
HwReceive ==
  /\ ~crashed
  /\ own[hwp]
  /\ \E s \in {"ok", "bad"} : status' = [status EXCEPT ![hwp] = s]
  /\ own' = [own EXCEPT ![hwp] = FALSE]
  /\ hwp' = NEXT(hwp)
  /\ irq' = TRUE
  /\ UNCHANGED <<rxb, rxhead, rxtail, free, upper, hnd, seen, crashed>>

\* The stack frees a block: rxfreeb.
rxfreeb ==
  /\ ~crashed
  /\ hnd = "out"
  /\ \E b \in upper : upper' = upper \ {b} /\ free' = free \cup {b}
  /\ UNCHANGED <<own, status, rxb, rxhead, rxtail, hwp, irq, hnd, seen, crashed>>

\* interrupt reads the causes, then clears them all ...
IntrRead ==
  /\ ~crashed
  /\ hnd = "out"
  /\ irq \/ OtherCauses
  /\ seen' = irq
  /\ hnd' = "clear"
  /\ UNCHANGED <<own, status, rxb, rxhead, rxtail, hwp, free, upper, irq, crashed>>

\* ... and receives if the bit was there when it read them.
IntrClear ==
  /\ ~crashed
  /\ hnd = "clear"
  /\ irq' = FALSE
  /\ hnd' = IF seen THEN "receive" ELSE "out"
  /\ UNCHANGED <<own, status, rxb, rxhead, rxtail, hwp, free, upper, seen, crashed>>

\* Mutant: the descriptor keeps its block pointer.
Receive_keepblock ==
  /\ ~crashed
  /\ hnd = "receive"
  /\ ~own[rxhead]
  /\ upper' = upper \cup ({rxb[rxhead]} \ {Nil})
  /\ rxhead' = NEXT(rxhead)
  /\ UNCHANGED <<own, status, rxb, rxtail, hwp, free, irq, hnd, seen, crashed>>

\* Mutant: a bad frame's block is dropped.
Receive_leak ==
  /\ ~crashed
  /\ hnd = "receive"
  /\ ~own[rxhead]
  /\ LET b == rxb[rxhead]
         keep == status[rxhead] = "ok" /\ Cardinality(upper) < QueueLimit
     IN  /\ crashed' = (b = Nil)
         /\ upper' = IF b # Nil /\ keep THEN upper \cup {b} ELSE upper
  /\ rxb' = [rxb EXCEPT ![rxhead] = Nil]
  /\ rxhead' = NEXT(rxhead)
  /\ UNCHANGED <<own, status, free, rxtail, hwp, irq, hnd, seen>>

\* One turn of receive's loop.  A bad frame's block goes back to the pool, and
\* so does a good one's when the stack's queue is full (etheriq, qpass).
Receive ==
  /\ ~crashed
  /\ hnd = "receive"
  /\ ~own[rxhead]
  /\ LET b == rxb[rxhead]
         keep == status[rxhead] = "ok" /\ Cardinality(upper) < QueueLimit
     IN  /\ crashed' = (b = Nil)
         /\ upper' = IF b # Nil /\ keep THEN upper \cup {b} ELSE upper
         /\ free' = IF b # Nil /\ ~keep THEN free \cup {b} ELSE free
  /\ rxb' = [rxb EXCEPT ![rxhead] = Nil]
  /\ rxhead' = NEXT(rxhead)
  /\ UNCHANGED <<own, status, rxtail, hwp, irq, hnd, seen>>

\* The loop ends at a descriptor the hardware owns.
ReceiveEnd ==
  /\ ~crashed
  /\ hnd = "receive"
  /\ own[rxhead]
  /\ hnd' = "replenish"
  /\ UNCHANGED <<own, status, rxb, rxhead, rxtail, hwp, free, upper, irq, seen, crashed>>

\* Mutant: only one descriptor is replenished per interrupt.
Replenish_once ==
  /\ ~crashed
  /\ hnd = "replenish"
  /\ rxb[rxtail] = Nil
  /\ \E b \in free :
       /\ free' = free \ {b}
       /\ rxb' = [rxb EXCEPT ![rxtail] = b]
  /\ own' = [own EXCEPT ![rxtail] = TRUE]
  /\ rxtail' = NEXT(rxtail)
  /\ hnd' = "out"
  /\ UNCHANGED <<status, rxhead, hwp, upper, irq, seen, crashed>>

\* One turn of rxreplenish's loop: rxallocb, and the descriptor goes to the
\* hardware.
Replenish ==
  /\ ~crashed
  /\ hnd = "replenish"
  /\ rxb[rxtail] = Nil
  /\ \E b \in free :
       /\ free' = free \ {b}
       /\ rxb' = [rxb EXCEPT ![rxtail] = b]
  /\ own' = [own EXCEPT ![rxtail] = TRUE]
  /\ rxtail' = NEXT(rxtail)
  /\ UNCHANGED <<status, rxhead, hwp, upper, irq, hnd, seen, crashed>>

\* Mutant: the causes are cleared at the end of the handler too.
ReplenishEnd_clearlate ==
  /\ ~crashed
  /\ hnd = "replenish"
  /\ rxb[rxtail] # Nil \/ free = {}
  /\ hnd' = "out"
  /\ irq' = FALSE
  /\ UNCHANGED <<own, status, rxb, rxhead, rxtail, hwp, free, upper, seen, crashed>>

ReplenishEnd ==
  /\ ~crashed
  /\ hnd = "replenish"
  /\ rxb[rxtail] # Nil \/ free = {}
  /\ hnd' = "out"
  /\ UNCHANGED <<own, status, rxb, rxhead, rxtail, hwp, free, upper, irq, seen, crashed>>

Handler == IntrRead \/ IntrClear \/ Receive \/ ReceiveEnd \/ Replenish \/ ReplenishEnd

Next == HwReceive \/ rxfreeb \/ Handler

Spec == Init /\ [][Next]_vars

\* A raised receive interrupt is taken and the handler goes on; the other causes
\* need not occur.
FairSpec == Spec /\ WF_vars(Handler /\ (irq \/ hnd # "out"))

-----------------------------------------------------------------------------
(* Properties                                                              *)

\* Every variable has its type: the ring, its indices and the block sets.
TypeOK ==
  /\ own \in [Ring -> BOOLEAN]
  /\ status \in [Ring -> {"ok", "bad"}]
  /\ rxb \in [Ring -> Blocks \cup {Nil}]
  /\ rxhead \in Ring /\ rxtail \in Ring /\ hwp \in Ring
  /\ free \subseteq Blocks
  /\ upper \subseteq Blocks
  /\ irq \in BOOLEAN /\ seen \in BOOLEAN /\ crashed \in BOOLEAN
  /\ hnd \in {"out", "clear", "receive", "replenish"}

\* A block is in one place: the pool, one descriptor or the stack, so neither
\* the hardware nor another owner writes into a packet being read.
BlockOnce ==
  /\ free \cap upper = {}
  /\ \A i \in Ring : rxb[i] \notin free \cup upper
  /\ \A i, j \in Ring : i # j /\ rxb[i] = rxb[j] => rxb[i] = Nil

\* No block is lost by a receive, a bad frame, a full queue or a dry pool.
BlockKept ==
  ~crashed => free \cup upper \cup {rxb[i] : i \in Ring} \cup {Nil} = Blocks \cup {Nil}

\* The hardware only owns descriptors that have a block to write into.
OwnedHasBlock == \A i \in Ring : own[i] => rxb[i] # Nil

\* How far j is ahead of i around the ring.
Ahead(i, j) == (j - i + Nrx) % Nrx

\* Frames are taken in the order the hardware wrote them: the descriptors it
\* is done with run from rxhead to where it writes next, without a gap.
ReceivedInOrder ==
  ~crashed => \A i \in Ring :
    (Ahead(rxhead, i) < Ahead(rxhead, hwp)) => ~own[i] /\ rxb[i] # Nil

\* rxreplenish stops at the first descriptor with a block, yet leaves none
\* without one behind it: when it ends, every descriptor has a block or the
\* pool is empty.
Replenished ==
  [][hnd = "replenish" /\ hnd' = "out" => free = {} \/ \A i \in Ring : rxb[i] # Nil]_vars

\* A frame in the ring is taken out of it by receive, as long as the handler
\* runs for this cause alone: else it may clear a bit it has not read.
FramesTaken ==
  [](hnd = "clear" => seen) =>
    \A i \in Ring : (~own[i] /\ rxb[i] # Nil) ~> (rxb[i] = Nil \/ own[i])

=============================================================================
