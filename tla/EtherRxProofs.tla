---------------------------- MODULE EtherRxProofs ----------------------------
(***************************************************************************)
(* For a receive ring of any size and any set of blocks: no block has two  *)
(* owners, none is lost, and the hardware only gets descriptors with one.  *)
(***************************************************************************)
EXTENDS EtherRx, TLAPS

\* The three facts are inductive together with the types: a block enters the
\* ring from the pool only, and leaves it from a descriptor that the hardware
\* has given up.
IInv == TypeOK /\ BlockOnce /\ OwnedHasBlock /\ BlockKept

\* NEXT wraps: it never leaves the ring.
LEMMA NextInRing == \A i \in Ring : NEXT(i) \in Ring
BY NrxAssumption DEF Ring, NEXT

\* ctlrinit establishes the invariant.
LEMMA InitIInv == Init => IInv
<1> SUFFICES ASSUME Init PROVE IInv
  OBVIOUS
<1>1. 0 \in Ring
  BY NrxAssumption DEF Ring
<1> QED
  BY <1>1, BlocksAssumption DEF Init, IInv, TypeOK, BlockOnce, OwnedHasBlock, BlockKept

\* Every step keeps the types.
LEMMA TypeNext == TypeOK /\ [Next]_vars => TypeOK'
<1> SUFFICES ASSUME TypeOK, [Next]_vars PROVE TypeOK'
  OBVIOUS
<1> USE NextInRing DEF TypeOK
<1>1. CASE HwReceive BY <1>1 DEF HwReceive
<1>2. CASE rxfreeb BY <1>2 DEF rxfreeb
<1>3. CASE IntrRead BY <1>3 DEF IntrRead
<1>4. CASE IntrClear BY <1>4 DEF IntrClear
<1>5. CASE Receive BY <1>5 DEF Receive
<1>6. CASE ReceiveEnd BY <1>6 DEF ReceiveEnd
<1>7. CASE Replenish BY <1>7 DEF Replenish
<1>8. CASE ReplenishEnd BY <1>8 DEF ReplenishEnd
<1>9. CASE UNCHANGED vars BY <1>9 DEF vars
<1> QED
  BY <1>1, <1>2, <1>3, <1>4, <1>5, <1>6, <1>7, <1>8, <1>9 DEF Next, Handler

\* Every step of the hardware, the stack and the handler keeps the invariant.
LEMMA NextIInv == IInv /\ [Next]_vars => IInv'
<1> SUFFICES ASSUME IInv, [Next]_vars PROVE IInv'
  OBVIOUS
<1>ty. TypeOK /\ TypeOK'
  BY TypeNext DEF IInv
<1>0. BlockOnce /\ OwnedHasBlock /\ BlockKept
  BY DEF IInv
<1> USE BlocksAssumption
<1>1. CASE HwReceive
  BY <1>1, <1>0, <1>ty DEF HwReceive, IInv, TypeOK, BlockOnce, OwnedHasBlock, BlockKept
<1>2. CASE rxfreeb
  <2>1. PICK b \in upper : upper' = upper \ {b} /\ free' = free \cup {b}
    BY <1>2 DEF rxfreeb
  <2> QED
    BY <1>2, <2>1, <1>0, <1>ty DEF rxfreeb, IInv, TypeOK, BlockOnce, OwnedHasBlock, BlockKept
<1>3. CASE IntrRead \/ IntrClear \/ ReceiveEnd \/ ReplenishEnd \/ UNCHANGED vars
  BY <1>3, <1>0, <1>ty DEF IntrRead, IntrClear, ReceiveEnd, ReplenishEnd, vars, IInv,
     BlockOnce, OwnedHasBlock, BlockKept
<1>4. CASE Receive
  <2>1. /\ rxb' = [rxb EXCEPT ![rxhead] = Nil]
        /\ ~own[rxhead] /\ own' = own
        /\ ~crashed /\ crashed' = (rxb[rxhead] = Nil)
    BY <1>4 DEF Receive
  <2>2. \/ rxb[rxhead] = Nil /\ upper' = upper /\ free' = free
        \/ rxb[rxhead] # Nil /\ upper' = upper \cup {rxb[rxhead]} /\ free' = free
        \/ rxb[rxhead] # Nil /\ upper' = upper /\ free' = free \cup {rxb[rxhead]}
    BY <1>4 DEF Receive
  <2>3. BlockOnce'
    BY <2>1, <2>2, <1>0, <1>ty DEF TypeOK, BlockOnce
  <2>4. OwnedHasBlock'
    BY <2>1, <1>0, <1>ty DEF TypeOK, OwnedHasBlock
  <2>5. BlockKept'
    BY <2>1, <2>2, <1>0, <1>ty DEF TypeOK, BlockKept
  <2> QED
    BY <2>3, <2>4, <2>5, <1>ty DEF IInv
<1>5. CASE Replenish
  <2>1. PICK b \in free : free' = free \ {b} /\ rxb' = [rxb EXCEPT ![rxtail] = b]
    BY <1>5 DEF Replenish
  <2>2. /\ rxb[rxtail] = Nil
        /\ own' = [own EXCEPT ![rxtail] = TRUE]
        /\ upper' = upper /\ crashed' = crashed
    BY <1>5 DEF Replenish
  <2>3. BlockOnce'
    BY <2>1, <2>2, <1>0, <1>ty DEF TypeOK, BlockOnce
  <2>4. OwnedHasBlock'
    BY <2>1, <2>2, <1>0, <1>ty DEF TypeOK, OwnedHasBlock
  <2>5. BlockKept'
    BY <2>1, <2>2, <1>0, <1>ty DEF TypeOK, BlockKept
  <2> QED
    BY <2>3, <2>4, <2>5, <1>ty DEF IInv
<1> QED
  BY <1>1, <1>2, <1>3, <1>4, <1>5 DEF Next, Handler

\* The invariant holds in every reachable state of the ring.
THEOREM Invariance == Spec => []IInv
BY InitIInv, NextIInv, PTL DEF Spec

\* The type invariant, for a ring of any size.
THEOREM TypeCorrect == Spec => []TypeOK
<1>1. IInv => TypeOK BY DEF IInv
<1> QED BY <1>1, Invariance, PTL

\* A block is never in two places.
THEOREM BlocksOnce == Spec => []BlockOnce
<1>1. IInv => BlockOnce BY DEF IInv
<1> QED BY <1>1, Invariance, PTL

\* The driver never loses a block.
THEOREM BlocksKept == Spec => []BlockKept
<1>1. IInv => BlockKept BY DEF IInv
<1> QED BY <1>1, Invariance, PTL

\* The hardware never owns a descriptor without a block.
THEOREM OwnedBlocks == Spec => []OwnedHasBlock
<1>1. IInv => OwnedHasBlock BY DEF IInv
<1> QED BY <1>1, Invariance, PTL

-----------------------------------------------------------------------------
(* The ring in order                                                       *)

\* The descriptor k places after rxhead, and how many places after it i is.
Slot(k) == IF rxhead + k >= Nrx THEN rxhead + k - Nrx ELSE rxhead + k
Off(i) == IF i >= rxhead THEN i - rxhead ELSE i - rxhead + Nrx

\* From rxhead on: r received frames, o descriptors of the hardware, and then
\* those without a block.
Segments(r, o) ==
  /\ r + o <= Nrx
  /\ hwp = Slot(r) /\ rxtail = Slot(r + o)
  /\ \A i \in Ring : /\ own[i] <=> (r <= Off(i) /\ Off(i) < r + o)
                     /\ rxb[i] # Nil <=> Off(i) < r + o

Ordered == ~crashed => \E r, o \in 0 .. Nrx : Segments(r, o)

LEMMA InitOrdered == Init => Ordered
<1> SUFFICES ASSUME Init PROVE Segments(0, 0)
  BY NrxAssumption DEF Ordered
<1> QED
  BY NrxAssumption DEF Init, Segments, Slot, Off, Ring

\* The arithmetic of the ring: a step of rxhead brings all descriptors one nearer.
LEMMA OffRange ==
  ASSUME rxhead \in Ring
  PROVE  \A i \in Ring : Off(i) \in 0 .. Nrx - 1 /\ Off(rxhead) = 0 /\ (i # rxhead => Off(i) > 0)
BY NrxAssumption DEF Off, Ring

LEMMA SlotOff ==
  ASSUME rxhead \in Ring, NEW k \in 0 .. Nrx
  PROVE  /\ Slot(k) \in Ring
         /\ Off(Slot(k)) = IF k = Nrx THEN 0 ELSE k
         /\ \A i \in Ring : Off(i) = k => i = Slot(k)
         /\ k # Nrx => NEXT(Slot(k)) = Slot(k + 1)
BY NrxAssumption DEF Slot, Off, Ring, NEXT

LEMMA HeadStep ==
  ASSUME rxhead \in Ring, rxhead' = NEXT(rxhead)
  PROVE  /\ \A i \in Ring : Off(i)' = IF i = rxhead THEN Nrx - 1 ELSE Off(i) - 1
         /\ \A k \in 1 .. Nrx : Slot(k - 1)' = Slot(k)
<1>1. CASE rxhead = Nrx - 1
  <2>1. rxhead' = 0
    BY <1>1 DEF NEXT
  <2> QED
    BY <1>1, <2>1, NrxAssumption DEF Slot, Off, Ring
<1>2. CASE rxhead # Nrx - 1
  <2>1. rxhead' = rxhead + 1
    BY <1>2 DEF NEXT
  <2> QED
    BY <1>2, <2>1, NrxAssumption DEF Slot, Off, Ring
<1> QED
  BY <1>1, <1>2

LEMMA NextOrdered == TypeOK /\ Ordered /\ [Next]_vars => Ordered'
<1> SUFFICES ASSUME TypeOK, Ordered, [Next]_vars, ~crashed' PROVE Ordered'
  BY DEF Ordered
<1>c. ~crashed
  <2>1. Next => ~crashed
    BY DEF Next, Handler, HwReceive, rxfreeb, IntrRead, IntrClear, Receive, ReceiveEnd,
       Replenish, ReplenishEnd
  <2>2. UNCHANGED vars => ~crashed
    BY DEF vars
  <2> QED
    BY <2>1, <2>2
<1>0. PICK r \in 0 .. Nrx, o \in 0 .. Nrx : Segments(r, o)
  BY <1>c DEF Ordered
<1>r. r \in Nat /\ o \in Nat /\ r + o <= Nrx
  BY <1>0 DEF Segments
<1>ty. /\ rxhead \in Ring /\ hwp \in Ring /\ rxtail \in Ring
       /\ own \in [Ring -> BOOLEAN] /\ rxb \in [Ring -> Blocks \cup {Nil}]
  BY DEF TypeOK
<1>n. Nrx \in Nat /\ Nrx >= 2 /\ Nil \notin Blocks
  BY NrxAssumption, BlocksAssumption
<1>off. \A i \in Ring : Off(i) \in 0 .. Nrx - 1 /\ Off(rxhead) = 0 /\ (i # rxhead => Off(i) > 0)
  BY <1>ty, OffRange
<1>1. CASE UNCHANGED <<own, rxb, rxhead, rxtail, hwp>>
  <2>1. Segments(r, o)'
    BY <1>0, <1>1 DEF Segments, Slot, Off
  <2> QED
    BY <2>1 DEF Ordered
<1>2. CASE HwReceive
  <2>1. own[hwp] /\ own' = [own EXCEPT ![hwp] = FALSE] /\ hwp' = NEXT(hwp)
        /\ UNCHANGED <<rxb, rxhead, rxtail>>
    BY <1>2 DEF HwReceive
  <2>2. r # Nrx /\ o > 0 /\ Off(hwp) = r
    BY <2>1, <1>0, <1>ty, <1>n, SlotOff DEF Segments
  <2>3. Slot(r + 1) = hwp' /\ Slot((r + 1) + (o - 1)) = rxtail
    BY <2>1, <2>2, <1>0, <1>ty, SlotOff DEF Segments
  <2>4. \A i \in Ring : Off(i) = r => i = hwp
    BY <1>0, <1>ty, SlotOff DEF Segments
  <2>5. \A i \in Ring : /\ own'[i] <=> (r + 1 <= Off(i) /\ Off(i) < r + o)
                        /\ rxb'[i] # Nil <=> Off(i) < r + o
    BY <2>1, <2>2, <2>4, <1>0, <1>ty, <1>off DEF Segments
  <2>6. Segments(r + 1, o - 1)'
    BY <2>1, <2>2, <2>3, <2>5, <1>0 DEF Segments, Slot, Off
  <2>7. r + 1 \in 0 .. Nrx /\ o - 1 \in 0 .. Nrx
    BY <2>2, <1>r, <1>n
  <2> QED
    BY <2>6, <2>7 DEF Ordered
<1>3. CASE Receive
  <2>1. /\ ~own[rxhead] /\ rxb[rxhead] # Nil
        /\ rxb' = [rxb EXCEPT ![rxhead] = Nil] /\ rxhead' = NEXT(rxhead)
        /\ UNCHANGED <<own, rxtail, hwp>>
    BY <1>3 DEF Receive
  <2>2. r > 0
    BY <2>1, <1>0, <1>ty, <1>off DEF Segments
  <2>3. /\ \A i \in Ring : Off(i)' = IF i = rxhead THEN Nrx - 1 ELSE Off(i) - 1
        /\ Slot(r - 1)' = hwp' /\ Slot((r - 1) + o)' = rxtail'
    BY <2>1, <2>2, <1>0, <1>ty, HeadStep DEF Segments
  <2>4. \A i \in Ring : /\ own'[i] <=> (r - 1 <= Off(i)' /\ Off(i)' < r - 1 + o)
                        /\ rxb'[i] # Nil <=> Off(i)' < r - 1 + o
    <3> SUFFICES ASSUME NEW i \in Ring
                 PROVE  /\ own'[i] <=> (r - 1 <= Off(i)' /\ Off(i)' < r - 1 + o)
                        /\ rxb'[i] # Nil <=> Off(i)' < r - 1 + o
      OBVIOUS
    <3>1. CASE i = rxhead
      <4>1. Off(i)' = Nrx - 1 /\ ~own'[i] /\ rxb'[i] = Nil
        BY <3>1, <2>1, <2>3, <1>ty
      <4> QED
        BY <4>1, <2>2, <1>r, <1>n
    <3>2. CASE i # rxhead
      <4>1. Off(i)' = Off(i) - 1 /\ Off(i) \in Nat
        BY <3>2, <2>3, <1>off
      <4>2. rxb'[i] = rxb[i] /\ own'[i] = own[i]
        BY <3>2, <2>1, <1>ty
      <4>3. /\ own[i] <=> (r <= Off(i) /\ Off(i) < r + o)
            /\ rxb[i] # Nil <=> Off(i) < r + o
        BY <1>0 DEF Segments
      <4> QED
        BY <4>1, <4>2, <4>3, <1>r
    <3> QED
      BY <3>1, <3>2
  <2>5. r - 1 + o <= Nrx /\ r - 1 \in 0 .. Nrx
    BY <2>2, <1>r, <1>n
  <2>6. Segments(r - 1, o)'
    BY <2>3, <2>4, <2>5 DEF Segments
  <2> QED
    BY <2>5, <2>6 DEF Ordered
<1>4. CASE Replenish
  <2>1. PICK b \in free : rxb' = [rxb EXCEPT ![rxtail] = b]
    BY <1>4 DEF Replenish
  <2>2. /\ rxb[rxtail] = Nil /\ own' = [own EXCEPT ![rxtail] = TRUE]
        /\ rxtail' = NEXT(rxtail) /\ UNCHANGED <<rxhead, hwp>> /\ b # Nil
    BY <1>4, <2>1, <1>n DEF Replenish, TypeOK
  <2>3. r + o # Nrx /\ Off(rxtail) = r + o
    BY <2>2, <1>0, <1>ty, <1>n, SlotOff DEF Segments
  <2>4. Slot(r + (o + 1)) = rxtail'
    BY <2>2, <2>3, <1>0, <1>ty, SlotOff DEF Segments
  <2>5. \A i \in Ring : Off(i) = r + o => i = rxtail
    BY <1>0, <1>ty, SlotOff DEF Segments
  <2>6. \A i \in Ring : /\ own'[i] <=> (r <= Off(i) /\ Off(i) < r + (o + 1))
                        /\ rxb'[i] # Nil <=> Off(i) < r + (o + 1)
    BY <2>1, <2>2, <2>3, <2>5, <1>0, <1>ty, <1>off DEF Segments
  <2>7. r + (o + 1) <= Nrx /\ o + 1 \in 0 .. Nrx
    BY <2>3, <1>r, <1>n
  <2>8. Slot(r)' = hwp' /\ Slot(r + (o + 1))' = rxtail'
    BY <2>2, <2>4, <1>0 DEF Segments, Slot
  <2>9. \A i \in Ring : Off(i)' = Off(i)
    BY <2>2 DEF Off
  <2>10. Segments(r, o + 1)'
    BY <2>6, <2>7, <2>8, <2>9 DEF Segments
  <2> QED
    BY <2>7, <2>10 DEF Ordered
<1> QED
  BY <1>1, <1>2, <1>3, <1>4 DEF Next, Handler, vars, rxfreeb, IntrRead, IntrClear, ReceiveEnd,
     ReplenishEnd

LEMMA OrderInvariance == Spec => []Ordered
BY TypeCorrect, InitOrdered, NextOrdered, PTL DEF Spec

\* Ahead with the remainder of the source is a subtraction.
LEMMA AheadOff ==
  ASSUME rxhead \in Ring, NEW j \in Ring
  PROVE  Ahead(rxhead, j) = Off(j)
<1> DEFINE x == j - rxhead + Nrx
<1>1. CASE j >= rxhead
  <2>1. x \in Nrx .. 2 * Nrx - 1 /\ Off(j) = x - Nrx
    BY <1>1, NrxAssumption DEF Ring, Off
  <2> HIDE DEF x
  <2>2. x % Nrx = x - Nrx
    BY <2>1, NrxAssumption
  <2> QED
    BY <2>1, <2>2 DEF Ahead, x
<1>2. CASE ~(j >= rxhead)
  <2>1. x \in 0 .. Nrx - 1 /\ Off(j) = x
    BY <1>2, NrxAssumption DEF Ring, Off
  <2> HIDE DEF x
  <2>2. x % Nrx = x
    BY <2>1, NrxAssumption
  <2> QED
    BY <2>1, <2>2 DEF Ahead, x
<1> QED
  BY <1>1, <1>2

\* receive finds the frames in the order the hardware wrote them, without a gap.
THEOREM FramesInOrder == Spec => []ReceivedInOrder
<1>1. TypeOK /\ Ordered => ReceivedInOrder
  <2> SUFFICES ASSUME TypeOK, Ordered, ~crashed, NEW i \in Ring,
                      Ahead(rxhead, i) < Ahead(rxhead, hwp)
               PROVE  ~own[i] /\ rxb[i] # Nil
    BY DEF ReceivedInOrder
  <2>1. PICK r \in 0 .. Nrx, o \in 0 .. Nrx : Segments(r, o)
    BY DEF Ordered
  <2>2. rxhead \in Ring /\ hwp \in Ring
    BY DEF TypeOK
  <2>3. Off(i) < Off(hwp) /\ Off(i) \in Nat
    BY <2>2, AheadOff, OffRange
  <2>4. Off(hwp) <= r
    BY <2>1, <2>2, SlotOff DEF Segments
  <2>5. r \in Nat /\ o \in Nat /\ Off(hwp) \in Nat
    BY <2>2, OffRange
  <2>6. Off(i) < r
    BY <2>3, <2>4, <2>5
  <2> QED
    BY <2>1, <2>3, <2>5, <2>6 DEF Segments
<1> QED
  BY <1>1, TypeCorrect, OrderInvariance, PTL

\* rxreplenish stops at the first descriptor with a block, and there is none
\* without one behind it.
THEOREM ReplenishFills == Spec => Replenished
<1>1. TypeOK /\ Ordered /\ [Next]_vars =>
        [hnd = "replenish" /\ hnd' = "out" => free = {} \/ \A i \in Ring : rxb[i] # Nil]_vars
  <2> SUFFICES ASSUME TypeOK, Ordered, [Next]_vars, hnd = "replenish", hnd' = "out", free # {}
               PROVE  \A i \in Ring : rxb[i] # Nil
    BY DEF vars
  <2>1. ReplenishEnd
    BY DEF Next, Handler, vars, HwReceive, rxfreeb, IntrRead, IntrClear, Receive, ReceiveEnd,
       Replenish, ReplenishEnd
  <2>2. ~crashed /\ rxb[rxtail] # Nil
    BY <2>1 DEF ReplenishEnd
  <2>3. PICK r \in 0 .. Nrx, o \in 0 .. Nrx : Segments(r, o)
    BY <2>2 DEF Ordered
  <2>4. rxhead \in Ring /\ rxtail \in Ring
    BY DEF TypeOK
  <2>5. r + o = Nrx
    BY <2>2, <2>3, <2>4, SlotOff, NrxAssumption DEF Segments
  <2> QED
    BY <2>3, <2>4, <2>5, OffRange DEF Segments
<1> QED
  BY <1>1, TypeCorrect, OrderInvariance, PTL DEF Spec, Replenished

=============================================================================
