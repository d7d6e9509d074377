---------------------------- MODULE EtherTxProofs ----------------------------
(***************************************************************************)
(* For a transmit ring of any size and any number of packets: packets leave *)
(* in the order they were queued, and none is lost between oq, the ring and *)
(* the wire; and the same of the device that uses the ring (EtherDev).      *)
(***************************************************************************)
EXTENDS EtherDev, FiniteSetTheorems, TLAPS

\* How far a descriptor is from the one the hardware sends next.
Ahead(i) == IF i >= hwp THEN i - hwp ELSE i - hwp + Ntx

\* The descriptors of the hardware are those from hwp up to txhead: all or none
\* when the two meet.
OwnedRun ==
  IF txhead = hwp THEN \A i, j \in Ring : own[i] = own[j]
  ELSE \A i \in Ring : own[i] <=> Ahead(i) < Ahead(txhead)

TxType ==
  /\ own \in [Ring -> BOOLEAN]
  /\ buf \in [Ring -> Nat] /\ txb \in [Ring -> Nat]
  /\ txhead \in Ring /\ txtail \in Ring /\ hwp \in Ring
  /\ written \in Nat /\ callers \in Nat
  /\ oq \in Seq(Nat) /\ sent \in Seq(Nat)
  /\ tx \in {"out", "clear", "reclaim", "queue"}
  /\ irqe \in BOOLEAN /\ seen \in BOOLEAN /\ panicked \in BOOLEAN

\* The packets sent, those in the ring from hwp on, and those in oq are numbered
\* in that order.
InRing == \A i, j \in Ring : own[i] /\ own[j] /\ Ahead(i) < Ahead(j) => buf[i] < buf[j]
InQueue == \A i, j \in DOMAIN oq : i < j => oq[i] < oq[j]
SentFirst ==
  \A k \in DOMAIN sent :
    /\ \A i \in Ring : own[i] => sent[k] < buf[i]
    /\ \A j \in DOMAIN oq : sent[k] < oq[j]
RingBeforeQueue == \A i \in Ring, j \in DOMAIN oq : own[i] => buf[i] < oq[j]
Numbered ==
  /\ \A k \in DOMAIN sent : sent[k] <= written
  /\ \A i \in Ring : own[i] => buf[i] <= written
  /\ \A j \in DOMAIN oq : oq[j] <= written

IInv ==
  /\ TxType /\ OwnedRun
  /\ SentInOrder /\ InRing /\ InQueue /\ SentFirst /\ RingBeforeQueue /\ Numbered
  /\ Accounted


USE NtxAssumption, PktsAssumption

LEMMA NextInRing == \A i \in Ring : NEXT(i) \in Ring
BY DEF NEXT, Ring

\* What Tail and Append do to a sequence of packets, element by element.
LEMMA TailFacts ==
  ASSUME NEW s \in Seq(Nat), s # <<>>
  PROVE  /\ Tail(s) \in Seq(Nat) /\ Head(s) = s[1] /\ Head(s) \in Nat /\ 1 \in DOMAIN s
         /\ DOMAIN s \subseteq Nat
         /\ \A i \in DOMAIN Tail(s) :
              i \in Nat /\ i + 1 \in DOMAIN s /\ 1 < i + 1 /\ Tail(s)[i] = s[i + 1]
         /\ \A i \in DOMAIN s : i = 1 \/ (i - 1 \in DOMAIN Tail(s) /\ i = (i - 1) + 1)
<1>1. s[1] \in Nat /\ Len(s) \in Nat /\ Len(s) > 0
  OBVIOUS
<1>2. /\ Tail(s) \in Seq(Nat) /\ DOMAIN Tail(s) = 1 .. (Len(s) - 1) /\ DOMAIN s = 1 .. Len(s)
      /\ \A i \in 1 .. (Len(s) - 1) : Tail(s)[i] = s[i + 1]
  BY <1>1
<1> QED
  BY <1>1, <1>2

LEMMA AppendFacts ==
  ASSUME NEW s \in Seq(Nat), NEW e \in Nat
  PROVE  /\ Append(s, e) \in Seq(Nat)
         /\ DOMAIN s \subseteq Nat /\ Len(s) + 1 \notin DOMAIN s
         /\ DOMAIN Append(s, e) = DOMAIN s \cup {Len(s) + 1}
         /\ \A i \in DOMAIN s : Append(s, e)[i] = s[i] /\ s[i] \in Nat /\ i < Len(s) + 1
         /\ Append(s, e)[Len(s) + 1] = e
         /\ Len(s) + 1 \in Nat
OBVIOUS

LEMMA InitIInv == Init => IInv
<1>1. 0 \in Ring
  BY DEF Ring
<1> QED
  BY <1>1 DEF Init, IInv, TxType, OwnedRun, SentInOrder, InRing, InQueue, SentFirst,
   RingBeforeQueue, Numbered, Accounted, Nil

\* What the actions that neither fill nor empty the ring or oq have in common.
Aside ==
  /\ UNCHANGED <<own, buf, txhead, oq, written, hwp, sent>>
  /\ freed \subseteq freed'

LEMMA AsideIInv == IInv /\ Aside /\ TxType' => IInv'
<1> SUFFICES ASSUME IInv, Aside, TxType' PROVE IInv'
  OBVIOUS
<1>1. OwnedRun' /\ InRing'
  BY DEF IInv, Aside, OwnedRun, InRing, Ahead
<1>2. SentInOrder' /\ InQueue' /\ SentFirst' /\ RingBeforeQueue' /\ Numbered'
  BY DEF IInv, Aside, SentInOrder, InQueue, SentFirst, RingBeforeQueue, Numbered
<1>3. Accounted'
  BY DEF IInv, Aside, Accounted
<1> QED
  BY <1>1, <1>2, <1>3 DEF IInv

\* Every step keeps the types.
LEMMA TypeNext == TxType /\ [Next]_vars => TxType'
<1> SUFFICES ASSUME TxType, [Next]_vars PROVE TxType'
  OBVIOUS
<1> USE NextInRing DEF TxType
<1>1. CASE Write BY <1>1 DEF Write
<1>2. CASE CallTransmit BY <1>2 DEF CallTransmit
<1>3. CASE IntrRead BY <1>3 DEF IntrRead
<1>4. CASE IntrClear BY <1>4 DEF IntrClear
<1>5. CASE Reclaim
  <2>1. /\ UNCHANGED <<own, buf, txhead, oq, written, callers, tx, hwp, sent, irqe, seen>>
        /\ \/ panicked' = TRUE /\ UNCHANGED <<txb, txtail>>
           \/ /\ txb' = [txb EXCEPT ![txtail] = Nil] /\ txtail' = NEXT(txtail)
              /\ UNCHANGED panicked
    BY <1>5 DEF Reclaim
  <2>2. txb' = txb \/ txb' = [txb EXCEPT ![txtail] = 0]
    BY <2>1 DEF Nil
  <2>4. txb' \in [Ring -> Nat]
    <3>1. txb \in [Ring -> Nat] /\ txtail \in Ring
      OBVIOUS
    <3>2. [txb EXCEPT ![txtail] = 0] \in [Ring -> Nat]
      BY <3>1
    <3> QED
      BY <3>1, <3>2, <2>2
  <2>5. txtail' \in Ring
    BY <2>1
  <2>3. panicked' \in BOOLEAN
    BY <2>1
  <2> QED
    BY <2>1, <2>3, <2>4, <2>5
<1>6. CASE ReclaimEnd BY <1>6 DEF ReclaimEnd
<1>7. CASE Refuse BY <1>7, TailFacts DEF Refuse
<1>8. CASE Queue BY <1>8, TailFacts DEF Queue
<1>9. CASE QueueEnd BY <1>9 DEF QueueEnd
<1>10. CASE HwSend BY <1>10 DEF HwSend
<1>11. CASE UNCHANGED vars BY <1>11 DEF vars
<1> QED
  BY <1>1, <1>2, <1>3, <1>4, <1>5, <1>6, <1>7, <1>8, <1>9, <1>10, <1>11 DEF Next, Transmit


\* A packet is written: it is the last one, and the newest.
LEMMA WriteIInv == IInv /\ Write /\ TxType' => IInv'
<1> SUFFICES ASSUME IInv, Write, TxType' PROVE IInv'
  OBVIOUS
<1> DEFINE n == written + 1
           m == Len(oq) + 1
<1>1. /\ oq' = Append(oq, n) /\ written' = n
      /\ UNCHANGED <<own, buf, txhead, hwp, sent, freed>>
  BY DEF Write
<1>ty. written \in Nat /\ oq \in Seq(Nat) /\ sent \in Seq(Nat) /\ buf \in [Ring -> Nat]
  BY DEF IInv, TxType
<1>2. n \in Nat
  BY <1>ty
<1>3. /\ DOMAIN oq' = DOMAIN oq \cup {m} /\ m \notin DOMAIN oq /\ m \in Nat
      /\ \A i \in DOMAIN oq : oq'[i] = oq[i] /\ oq[i] \in Nat /\ i < m /\ i \in Nat
      /\ oq'[m] = n
  BY <1>1, <1>2, <1>ty, AppendFacts
<1> HIDE DEF m
<1>4. \A j \in DOMAIN oq : oq[j] < n
  BY <1>2, <1>ty, <1>3 DEF IInv, Numbered
<1>5. OwnedRun' /\ InRing' /\ SentInOrder'
  BY <1>1 DEF IInv, OwnedRun, InRing, Ahead, SentInOrder
<1>6. InQueue'
  BY <1>3, <1>4 DEF IInv, InQueue
<1>7. \A k \in DOMAIN sent : sent[k] \in Nat
  BY <1>ty
<1>8. SentFirst'
  BY <1>1, <1>2, <1>ty, <1>3, <1>7 DEF IInv, SentFirst, Numbered
<1>9. RingBeforeQueue'
  BY <1>1, <1>2, <1>ty, <1>3 DEF IInv, RingBeforeQueue, Numbered
<1>11. Numbered'
  BY <1>1, <1>2, <1>ty, <1>3, <1>7 DEF IInv, Numbered
<1>10. Accounted'
  <2> SUFFICES ASSUME NEW q \in 1 .. n
               PROVE  \/ \E i \in DOMAIN oq' : oq'[i] = q
                      \/ q \in BadPkts /\ q \in freed
                      \/ q \notin BadPkts /\ \/ \E i \in DOMAIN sent : sent[i] = q
                                             \/ \E i \in Ring : own[i] /\ buf[i] = q
    BY <1>1 DEF Accounted
  <2>1. CASE q = n
    BY <1>3, <2>1
  <2>2. CASE q # n
    <3>1. q \in 1 .. written
      BY <1>ty, <2>2
    <3> QED
      BY <1>3, <3>1 DEF IInv, Accounted
  <2> QED
    BY <2>1, <2>2
<1> QED
  BY <1>5, <1>6, <1>8, <1>9, <1>10, <1>11 DEF IInv


\* A packet of a bad size leaves oq for freed.
LEMMA RefuseIInv == IInv /\ Refuse /\ TxType' => IInv'
<1> SUFFICES ASSUME IInv, Refuse, TxType' PROVE IInv'
  OBVIOUS
<1>1. /\ oq # <<>> /\ Head(oq) \in BadPkts /\ oq' = Tail(oq)
      /\ freed' = freed \cup {Head(oq)}
      /\ UNCHANGED <<own, buf, txhead, hwp, sent, written>>
  BY DEF Refuse
<1>ty. written \in Nat /\ oq \in Seq(Nat) /\ sent \in Seq(Nat) /\ buf \in [Ring -> Nat]
  BY DEF IInv, TxType
<1>2. /\ Head(oq) = oq[1] /\ 1 \in DOMAIN oq /\ DOMAIN oq \subseteq Nat
      /\ \A i \in DOMAIN oq' : i \in Nat /\ i + 1 \in DOMAIN oq /\ oq'[i] = oq[i + 1]
      /\ \A i \in DOMAIN oq : i = 1 \/ (i - 1 \in DOMAIN oq' /\ i = (i - 1) + 1)
  BY <1>1, <1>ty, TailFacts
<1>3. OwnedRun' /\ InRing' /\ SentInOrder'
  BY <1>1 DEF IInv, OwnedRun, InRing, Ahead, SentInOrder
<1>4. InQueue'
  BY <1>2 DEF IInv, InQueue
<1>5. SentFirst'
  BY <1>1, <1>2 DEF IInv, SentFirst
<1>6. RingBeforeQueue'
  BY <1>1, <1>2 DEF IInv, RingBeforeQueue
<1>7. Numbered'
  BY <1>1, <1>2 DEF IInv, Numbered
<1>8. Accounted'
  <2> SUFFICES ASSUME NEW p \in 1 .. written,
                      ~(p \in BadPkts /\ p \in freed'),
                      ~(p \notin BadPkts /\ \/ \E i \in DOMAIN sent : sent[i] = p
                                            \/ \E i \in Ring : own[i] /\ buf[i] = p)
               PROVE  \E i \in DOMAIN oq' : oq'[i] = p
    BY <1>1 DEF Accounted
  <2>1. PICK i \in DOMAIN oq : oq[i] = p
    BY <1>1 DEF IInv, Accounted
  <2>2. i # 1
    BY <1>1, <1>2, <2>1
  <2> QED
    BY <1>2, <2>1, <2>2
<1> QED
  BY <1>3, <1>4, <1>5, <1>6, <1>7, <1>8 DEF IInv

\* A packet leaves oq for the descriptor behind those of the hardware.
LEMMA QueueIInv == IInv /\ Queue /\ TxType' => IInv'
<1> SUFFICES ASSUME IInv, Queue, TxType' PROVE IInv'
  OBVIOUS
<1> DEFINE p == Head(oq)
<1>1. /\ oq # <<>> /\ p \notin BadPkts /\ oq' = Tail(oq) /\ ~own[txhead]
      /\ buf' = [buf EXCEPT ![txhead] = p] /\ own' = [own EXCEPT ![txhead] = TRUE]
      /\ txhead' = NEXT(txhead)
      /\ UNCHANGED <<freed, hwp, sent, written>>
  BY DEF Queue
<1>ty. /\ written \in Nat /\ oq \in Seq(Nat) /\ sent \in Seq(Nat) /\ buf \in [Ring -> Nat]
       /\ own \in [Ring -> BOOLEAN] /\ txhead \in Ring /\ hwp \in Ring
  BY DEF IInv, TxType
<1>2. /\ p = oq[1] /\ p \in Nat /\ 1 \in DOMAIN oq /\ DOMAIN oq \subseteq Nat
      /\ \A i \in DOMAIN oq' : i \in Nat /\ i + 1 \in DOMAIN oq /\ 1 < i + 1 /\ oq'[i] = oq[i + 1]
      /\ \A i \in DOMAIN oq : i = 1 \/ (i - 1 \in DOMAIN oq' /\ i = (i - 1) + 1)
  BY <1>1, <1>ty, TailFacts
<1> HIDE DEF p
<1>3. /\ own'[txhead] /\ buf'[txhead] = p
      /\ \A i \in Ring \ {txhead} : own'[i] = own[i] /\ buf'[i] = buf[i]
  BY <1>1, <1>ty
<1>12. \A i \in Ring : own[i] <=> Ahead(i) < Ahead(txhead)
  BY <1>1, <1>ty DEF IInv, OwnedRun, Ahead, Ring
<1>4. OwnedRun'
  <2>2. \A i \in Ring : own'[i] <=> Ahead(i) <= Ahead(txhead)
    BY <1>12, <1>3, <1>ty DEF Ahead, Ring
  <2>3. CASE txhead' = hwp
    <3>1. \A i \in Ring : Ahead(i) <= Ahead(txhead)
      BY <2>3, <1>1, <1>ty DEF Ahead, Ring, NEXT
    <3> QED
      BY <3>1, <2>2, <2>3, <1>1, TxType' DEF OwnedRun, TxType
  <2>4. CASE txhead' # hwp
    <3>1. Ahead(txhead') = Ahead(txhead) + 1
      BY <2>4, <1>1, <1>ty DEF Ahead, Ring, NEXT
    <3>2. \A i \in Ring : Ahead(i)' = Ahead(i) /\ Ahead(i) \in Nat
      BY <1>1, <1>ty DEF Ahead, Ring
    <3>3. Ahead(txhead)' = Ahead(txhead')
      BY <1>1 DEF Ahead
    <3> QED
      BY <3>1, <3>2, <3>3, <2>2, <2>4, <1>1, <1>ty DEF OwnedRun
  <2> QED
    BY <2>3, <2>4
<1>5. InRing'
  <2>2. \A i \in Ring : own[i] => buf[i] < p
    BY <1>2 DEF IInv, RingBeforeQueue
  <2> SUFFICES ASSUME NEW i \in Ring, NEW j \in Ring, own'[i], own'[j], Ahead(i) < Ahead(j)
               PROVE  buf'[i] < buf'[j]
    BY <1>1 DEF InRing, Ahead
  <2>3. i # txhead
    <3>1. Ahead(i) \in Int /\ Ahead(j) \in Int
      BY <1>ty DEF Ahead, Ring
    <3> QED
      BY <3>1, <1>12, <1>3
  <2>4. CASE j = txhead
    BY <2>2, <2>3, <2>4, <1>3
  <2>5. CASE j # txhead
    BY <2>3, <2>5, <1>3 DEF IInv, InRing
  <2> QED
    BY <2>4, <2>5
<1>6. SentInOrder'
  BY <1>1 DEF IInv, SentInOrder
<1>7. InQueue'
  BY <1>2 DEF IInv, InQueue
<1>8. SentFirst'
  BY <1>1, <1>2, <1>3 DEF IInv, SentFirst
<1>9. RingBeforeQueue'
  <2>1. \A j \in DOMAIN oq' : p < oq'[j]
    BY <1>2 DEF IInv, InQueue
  <2> QED
    BY <1>2, <1>3, <2>1 DEF IInv, RingBeforeQueue
<1>10. Numbered'
  BY <1>1, <1>2, <1>3 DEF IInv, Numbered
<1>11. Accounted'
  <2> SUFFICES ASSUME NEW q \in 1 .. written
               PROVE  \/ \E i \in DOMAIN oq' : oq'[i] = q
                      \/ q \in BadPkts /\ q \in freed
                      \/ q \notin BadPkts /\ \/ \E i \in DOMAIN sent : sent[i] = q
                                             \/ \E i \in Ring : own'[i] /\ buf'[i] = q
    BY <1>1 DEF Accounted
  <2>1. CASE \E i \in DOMAIN oq : oq[i] = q
    <3>1. PICK i \in DOMAIN oq : oq[i] = q
      BY <2>1
    <3>2. CASE i = 1
      BY <1>1, <1>2, <1>3, <1>ty, <3>1, <3>2
    <3>3. CASE i # 1
      BY <1>2, <3>1, <3>3
    <3> QED
      BY <3>2, <3>3
  <2>2. CASE ~ \E i \in DOMAIN oq : oq[i] = q
    BY <1>1, <1>3, <2>2 DEF IInv, Accounted
  <2> QED
    BY <2>1, <2>2
<1> QED
  BY <1>4, <1>5, <1>6, <1>7, <1>8, <1>9, <1>10, <1>11 DEF IInv

\* The hardware sends the first of its descriptors.
LEMMA HwSendIInv == IInv /\ HwSend /\ TxType' => IInv'
<1> SUFFICES ASSUME IInv, HwSend, TxType' PROVE IInv'
  OBVIOUS
<1> DEFINE p == buf[hwp]
           m == Len(sent) + 1
<1>1. /\ own[hwp] /\ own' = [own EXCEPT ![hwp] = FALSE]
      /\ sent' = Append(sent, p) /\ hwp' = NEXT(hwp)
      /\ UNCHANGED <<buf, txhead, oq, written, freed>>
  BY DEF HwSend
<1>ty. /\ written \in Nat /\ oq \in Seq(Nat) /\ sent \in Seq(Nat) /\ buf \in [Ring -> Nat]
       /\ own \in [Ring -> BOOLEAN] /\ txhead \in Ring /\ hwp \in Ring
  BY DEF IInv, TxType
<1>2. /\ p \in Nat /\ m \in Nat /\ m \notin DOMAIN sent
      /\ DOMAIN sent' = DOMAIN sent \cup {m} /\ sent'[m] = p
      /\ \A k \in DOMAIN sent : sent'[k] = sent[k] /\ sent[k] \in Nat /\ k < m /\ k \in Nat
  BY <1>1, <1>ty, AppendFacts
<1>3. ~own'[hwp] /\ \A i \in Ring \ {hwp} : own'[i] = own[i]
  BY <1>1, <1>ty
<1> HIDE DEF p, m
<1>4. Ahead(hwp) = 0 /\ \A i \in Ring : Ahead(i) \in Nat /\ (i # hwp => Ahead(i) > 0)
  BY <1>ty DEF Ahead, Ring
<1>5. \A i \in Ring : Ahead(i)' = IF i = hwp THEN Ntx - 1 ELSE Ahead(i) - 1
  <2> SUFFICES ASSUME NEW i \in Ring
               PROVE  Ahead(i)' = IF i = hwp THEN Ntx - 1 ELSE Ahead(i) - 1
    OBVIOUS
  <2>1. CASE hwp = Ntx - 1
    <3>1. hwp' = 0
      BY <2>1, <1>1 DEF NEXT
    <3> QED
      BY <3>1, <2>1, <1>ty DEF Ahead, Ring
  <2>2. CASE hwp # Ntx - 1
    <3>1. hwp' = hwp + 1
      BY <2>2, <1>1 DEF NEXT
    <3> QED
      BY <3>1, <2>2, <1>ty DEF Ahead, Ring
  <2> QED
    BY <2>1, <2>2
<1>6. OwnedRun'
  <2>1. CASE txhead = hwp
    <3>1. \A i \in Ring : own[i]
      BY <1>1, <1>ty, <2>1 DEF IInv, OwnedRun
    <3>2. txhead' # hwp' /\ txhead' = hwp
      BY <1>1, <1>ty, <2>1 DEF Ring, NEXT
    <3>3. Ahead(txhead)' = Ntx - 1
      <4>1. CASE hwp = Ntx - 1
        <5>1. hwp' = 0
          BY <4>1, <1>1 DEF NEXT
        <5> QED
          BY <5>1, <4>1, <3>2, <1>ty DEF Ahead, Ring
      <4>2. CASE hwp # Ntx - 1
        <5>1. hwp' = hwp + 1
          BY <4>2, <1>1 DEF NEXT
        <5> QED
          BY <5>1, <4>2, <3>2, <1>ty DEF Ahead, Ring
      <4> QED
        BY <4>1, <4>2
    <3>4. \A i \in Ring : own'[i] <=> Ahead(i)' < Ntx - 1
      <4>1. \A i \in Ring : Ahead(i) < Ntx
        BY <1>ty DEF Ahead, Ring
      <4> QED
        BY <4>1, <1>3, <1>4, <1>5, <3>1
    <3> QED
      BY <3>2, <3>3, <3>4 DEF OwnedRun
  <2>2. CASE txhead # hwp
    <3>1. \A i \in Ring : own[i] <=> Ahead(i) < Ahead(txhead)
      BY <2>2 DEF IInv, OwnedRun
    <3>2. Ahead(txhead)' = Ahead(txhead) - 1 /\ Ahead(txhead) \in Nat
      BY <1>1, <1>4, <1>5, <1>ty, <2>2
    <3>3. CASE txhead' = hwp'
      <4>1. Ahead(txhead) = 1
        BY <1>1, <1>ty, <2>2, <3>3 DEF Ahead, Ring, NEXT
      <4>2. \A i \in Ring : ~own'[i]
        BY <4>1, <1>3, <1>4, <3>1
      <4> QED
        BY <3>3, <4>2, TxType' DEF OwnedRun, TxType
    <3>4. CASE txhead' # hwp'
      <4>1. \A i \in Ring : own'[i] <=> Ahead(i)' < Ahead(txhead)'
        <5> SUFFICES ASSUME NEW i \in Ring PROVE own'[i] <=> Ahead(i)' < Ahead(txhead)'
          OBVIOUS
        <5>1. CASE i = hwp
          <6>1. Ahead(txhead) <= Ntx - 1
            BY <1>ty DEF Ahead, Ring
          <6> QED
            BY <6>1, <5>1, <1>3, <1>5, <3>2
        <5>2. CASE i # hwp
          BY <5>2, <1>3, <1>4, <1>5, <3>1, <3>2
        <5> QED
          BY <5>1, <5>2
      <4> QED
        BY <4>1, <3>4 DEF OwnedRun
    <3> QED
      BY <3>3, <3>4
  <2> QED
    BY <2>1, <2>2
<1>7. SentInOrder'
  <2>1. \A k \in DOMAIN sent : sent[k] < p
    BY <1>1, <1>ty DEF p, IInv, SentFirst
  <2> QED
    BY <2>1, <1>2 DEF IInv, SentInOrder
<1>8. InRing'
  BY <1>1, <1>3, <1>4, <1>5 DEF IInv, InRing
<1>9. InQueue'
  BY <1>1 DEF IInv, InQueue
<1>10. \A i \in Ring : own'[i] => p < buf'[i]
  BY <1>1, <1>3, <1>4, <1>ty DEF p, IInv, InRing
<1>11. SentFirst'
  <2>1. \A j \in DOMAIN oq' : p < oq'[j]
    BY <1>1, <1>ty DEF p, IInv, RingBeforeQueue
  <2> QED
    BY <1>1, <1>2, <1>3, <1>10, <2>1 DEF IInv, SentFirst
<1>12. RingBeforeQueue'
  BY <1>1, <1>3 DEF IInv, RingBeforeQueue
<1>13. Numbered'
  <2>1. p <= written
    BY <1>1, <1>ty DEF p, IInv, Numbered
  <2> QED
    BY <2>1, <1>1, <1>2, <1>3 DEF IInv, Numbered
<1>14. Accounted'
  <2> SUFFICES ASSUME NEW q \in 1 .. written
               PROVE  \/ \E i \in DOMAIN oq : oq[i] = q
                      \/ q \in BadPkts /\ q \in freed
                      \/ q \notin BadPkts /\ \/ \E i \in DOMAIN sent' : sent'[i] = q
                                             \/ \E i \in Ring : own'[i] /\ buf[i] = q
    BY <1>1 DEF Accounted
  <2>1. CASE p = q
    <3>1. (\E i \in DOMAIN oq : oq[i] = q) \/ (q \in BadPkts /\ q \in freed) \/ q \notin BadPkts
      BY DEF IInv, Accounted
    <3> QED
      BY <3>1, <2>1, <1>2
  <2>2. CASE p # q
    <3>1. \A i \in Ring : own[i] /\ buf[i] = q => own'[i]
      BY <2>2, <1>3 DEF p
    <3> QED
      BY <3>1, <1>2 DEF IInv, Accounted
  <2> QED
    BY <2>1, <2>2
<1> QED
  BY <1>6, <1>7, <1>8, <1>9, <1>11, <1>12, <1>13, <1>14 DEF IInv

LEMMA NextIInv == IInv /\ [Next]_vars => IInv'
<1> SUFFICES ASSUME IInv, [Next]_vars PROVE IInv'
  OBVIOUS
<1>0. TxType'
  BY TypeNext DEF IInv
<1>1. CASE CallTransmit \/ IntrRead \/ IntrClear \/ Reclaim \/ ReclaimEnd \/ QueueEnd
           \/ UNCHANGED vars
  <2>1. Aside
    BY <1>1 DEF Aside, CallTransmit, IntrRead, IntrClear, Reclaim, ReclaimEnd, QueueEnd, vars
  <2> QED
    BY <2>1, <1>0, AsideIInv
<1>2. CASE Write BY <1>0, <1>2, WriteIInv
<1>3. CASE Refuse BY <1>0, <1>3, RefuseIInv
<1>4. CASE Queue BY <1>0, <1>4, QueueIInv
<1>5. CASE HwSend BY <1>0, <1>5, HwSendIInv
<1> QED
  BY <1>1, <1>2, <1>3, <1>4, <1>5 DEF Next, Transmit

THEOREM Invariance == Spec => []IInv
BY InitIInv, NextIInv, PTL DEF Spec

\* etheroq and transmit: packets leave in the order they were queued, each at
\* most once, in a ring of any size.
THEOREM PacketsInOrder == Spec => []SentInOrder
<1>1. IInv => SentInOrder BY DEF IInv
<1> QED BY <1>1, Invariance, PTL

\* transmit loses no packet: one that was queued waits, is the hardware's, was
\* sent, or was refused for its size.
THEOREM PacketsAccounted == Spec => []Accounted
<1>1. IInv => Accounted BY DEF IInv
<1> QED BY <1>1, Invariance, PTL

-----------------------------------------------------------------------------
(* transmit implements PacketFifo                                          *)

\* A packet of a bad size never gets a descriptor.
RingGood == \A i \in Ring : own[i] => buf[i] \notin BadPkts

LEMMA NextGood == TxType /\ RingGood /\ [Next]_vars => RingGood'
<1> SUFFICES ASSUME TxType, RingGood, [Next]_vars PROVE RingGood'
  OBVIOUS
<1>1. own \in [Ring -> BOOLEAN] /\ buf \in [Ring -> Nat] /\ txhead \in Ring /\ hwp \in Ring
  BY DEF TxType
<1>2. CASE Queue
  <2>1. /\ Head(oq) \notin BadPkts
        /\ buf' = [buf EXCEPT ![txhead] = Head(oq)] /\ own' = [own EXCEPT ![txhead] = TRUE]
    BY <1>2 DEF Queue
  <2> QED
    BY <1>1, <2>1 DEF RingGood
<1>3. CASE HwSend
  BY <1>1, <1>3 DEF HwSend, RingGood
<1>4. CASE ~Queue /\ ~HwSend
  <2>1. own' = own /\ buf' = buf
    BY <1>4 DEF Next, Transmit, Write, CallTransmit, IntrRead, IntrClear, Reclaim, ReclaimEnd,
       Refuse, QueueEnd, vars
  <2> QED
    BY <2>1 DEF RingGood
<1> QED
  BY <1>2, <1>3, <1>4

\* An empty ring and an empty oq map to a fifo that nothing was given to.
LEMMA InitFifo == Init => Fifo!Init /\ RingGood
BY DEF Init, Fifo!Init, InFlight, RingGood

\* What is on its way, packet by packet.
LEMMA OnItsWay ==
  \A p : p \in InFlight <=>
    (\E i \in Ring : own[i] /\ buf[i] = p) \/ (\E j \in DOMAIN oq : oq[j] = p)
BY DEF InFlight

LEMMA OnItsWayNext ==
  \A p : p \in InFlight' <=>
    (\E i \in Ring : own'[i] /\ buf'[i] = p) \/ (\E j \in DOMAIN oq' : oq'[j] = p)
BY DEF InFlight

LEMMA WriteFifo == IInv /\ Write => Fifo!Accept
<1> SUFFICES ASSUME IInv, Write PROVE Fifo!Accept
  OBVIOUS
<1>1. written \in Nat /\ oq \in Seq(Nat)
  BY DEF IInv, TxType
<1>2. /\ oq' = Append(oq, written + 1) /\ written' = written + 1
      /\ own' = own /\ buf' = buf /\ sent' = sent
  BY DEF Write
<1>3. /\ DOMAIN oq' = DOMAIN oq \cup {Len(oq) + 1} /\ oq'[Len(oq) + 1] = written + 1
      /\ \A i \in DOMAIN oq : oq'[i] = oq[i]
  <2>1. PICK n \in Nat : n = written + 1
    BY <1>1
  <2> QED
    BY <1>1, <1>2, <2>1, AppendFacts
<1>4. \A p : (\E j \in DOMAIN oq' : oq'[j] = p)
               <=> (\E j \in DOMAIN oq : oq[j] = p) \/ p = written + 1
  BY <1>3
<1>5. InFlight' = InFlight \cup {written + 1}
  BY <1>2, <1>4, OnItsWay, OnItsWayNext
<1> QED
  BY <1>2, <1>5 DEF Fifo!Accept

\* The head of oq moves to the ring, and is on its way all the time.
LEMMA QueueFifo == IInv /\ Queue => UNCHANGED <<written, InFlight, sent>>
<1> SUFFICES ASSUME IInv, Queue PROVE UNCHANGED <<written, InFlight, sent>>
  OBVIOUS
<1> DEFINE h == Head(oq)
<1>1. /\ oq \in Seq(Nat) /\ own \in [Ring -> BOOLEAN] /\ buf \in [Ring -> Nat] /\ txhead \in Ring
  BY DEF IInv, TxType
<1>2. /\ oq # <<>> /\ oq' = Tail(oq) /\ ~own[txhead]
      /\ buf' = [buf EXCEPT ![txhead] = h] /\ own' = [own EXCEPT ![txhead] = TRUE]
      /\ written' = written /\ sent' = sent
  BY DEF Queue
<1>3. /\ h = oq[1] /\ 1 \in DOMAIN oq
      /\ \A i \in DOMAIN oq' : i \in Nat /\ i + 1 \in DOMAIN oq /\ oq'[i] = oq[i + 1]
      /\ \A i \in DOMAIN oq : i = 1 \/ (i - 1 \in DOMAIN oq' /\ i = (i - 1) + 1)
  BY <1>1, <1>2, TailFacts
<1> HIDE DEF h
<1>4. /\ own'[txhead] /\ buf'[txhead] = h
      /\ \A i \in Ring \ {txhead} : own'[i] = own[i] /\ buf'[i] = buf[i]
  BY <1>1, <1>2
<1>5. \A p : (\E i \in Ring : own'[i] /\ buf'[i] = p)
               <=> (\E i \in Ring : own[i] /\ buf[i] = p) \/ p = h
  BY <1>1, <1>2, <1>4
<1>6. \A p : (\E j \in DOMAIN oq : oq[j] = p) <=> (\E j \in DOMAIN oq' : oq'[j] = p) \/ p = h
  BY <1>3
<1>7. InFlight' = InFlight
  BY <1>5, <1>6, OnItsWay, OnItsWayNext
<1> QED
  BY <1>2, <1>7

\* The head of oq is freed, and it is nowhere else.
LEMMA RefuseFifo == IInv /\ Refuse => \E p \in InFlight : Fifo!Reject(p)
<1> SUFFICES ASSUME IInv, Refuse PROVE \E p \in InFlight : Fifo!Reject(p)
  OBVIOUS
<1> DEFINE h == Head(oq)
<1>1. oq \in Seq(Nat) /\ own \in [Ring -> BOOLEAN] /\ buf \in [Ring -> Nat]
  BY DEF IInv, TxType
<1>2. /\ oq # <<>> /\ h \in BadPkts /\ oq' = Tail(oq)
      /\ own' = own /\ buf' = buf /\ written' = written /\ sent' = sent
  BY DEF Refuse
<1>3. /\ h = oq[1] /\ h \in Nat /\ 1 \in DOMAIN oq
      /\ \A i \in DOMAIN oq' : i \in Nat /\ i + 1 \in DOMAIN oq /\ 1 < i + 1 /\ oq'[i] = oq[i + 1]
      /\ \A i \in DOMAIN oq : i = 1 \/ (i - 1 \in DOMAIN oq' /\ i = (i - 1) + 1)
  BY <1>1, <1>2, TailFacts
<1> HIDE DEF h
<1>4. h \in InFlight
  BY <1>3, OnItsWay
<1>5. \A i \in Ring : own[i] => buf[i] # h
  BY <1>1, <1>3 DEF IInv, RingBeforeQueue
<1>6. \A j \in DOMAIN oq' : oq'[j] # h
  BY <1>1, <1>3 DEF IInv, InQueue
<1>7. \A p : (\E j \in DOMAIN oq' : oq'[j] = p) <=> (\E j \in DOMAIN oq : oq[j] = p) /\ p # h
  BY <1>3, <1>6
<1>8. InFlight' = InFlight \ {h}
  BY <1>2, <1>5, <1>7, OnItsWay, OnItsWayNext
<1> QED
  BY <1>2, <1>4, <1>8 DEF Fifo!Reject

\* The hardware sends the packet at hwp, which is the oldest of all on their way.
LEMMA SendFifo == IInv /\ RingGood /\ HwSend => \E p \in InFlight : Fifo!Deliver(p)
<1> SUFFICES ASSUME IInv, RingGood, HwSend PROVE \E p \in InFlight : Fifo!Deliver(p)
  OBVIOUS
<1> DEFINE p == buf[hwp]
<1>1. /\ own \in [Ring -> BOOLEAN] /\ buf \in [Ring -> Nat] /\ hwp \in Ring
      /\ oq \in Seq(Nat)
  BY DEF IInv, TxType
<1>2. /\ own[hwp] /\ own' = [own EXCEPT ![hwp] = FALSE] /\ sent' = Append(sent, p)
      /\ buf' = buf /\ oq' = oq /\ written' = written
  BY DEF HwSend
<1>3. p \in Nat /\ p \notin BadPkts
  BY <1>1, <1>2 DEF RingGood
<1> HIDE DEF p
<1>4. \A i \in Ring : i # hwp /\ own[i] => p < buf[i] /\ buf[i] \in Nat
  <2>1. \A i \in Ring : i # hwp => Ahead(hwp) < Ahead(i)
    BY <1>1 DEF Ahead, Ring
  <2> QED
    BY <1>1, <1>2, <2>1 DEF IInv, InRing, p
<1>5. \A j \in DOMAIN oq : p < oq[j] /\ oq[j] \in Nat
  BY <1>1, <1>2 DEF IInv, RingBeforeQueue, p
<1>6. p \in InFlight
  BY <1>1, <1>2, OnItsWay DEF p
<1>7. \A q \in InFlight : p <= q
  <2> SUFFICES ASSUME NEW q \in InFlight PROVE p <= q
    OBVIOUS
  <2>1. CASE \E i \in Ring : own[i] /\ buf[i] = q
    BY <1>3, <1>4, <2>1 DEF p
  <2>2. CASE \E j \in DOMAIN oq : oq[j] = q
    BY <1>3, <1>5, <2>2
  <2> QED
    BY <2>1, <2>2, OnItsWay
<1>8. \A q : (\E i \in Ring : own'[i] /\ buf'[i] = q)
               <=> (\E i \in Ring : own[i] /\ buf[i] = q) /\ q # p
  <2>1. ~own'[hwp] /\ \A i \in Ring \ {hwp} : own'[i] = own[i]
    BY <1>1, <1>2
  <2>2. \A i \in Ring : i # hwp /\ own[i] => buf[i] # p
    BY <1>3, <1>4
  <2> QED
    BY <1>2, <2>1, <2>2 DEF p
<1>9. \A j \in DOMAIN oq' : oq'[j] # p
  BY <1>2, <1>3, <1>5
<1>10. InFlight' = InFlight \ {p}
  BY <1>2, <1>8, <1>9, OnItsWay, OnItsWayNext
<1> QED
  BY <1>2, <1>3, <1>6, <1>7, <1>10 DEF Fifo!Deliver

LEMMA NextFifo == IInv /\ RingGood /\ [Next]_vars => [Fifo!Next]_<<written, InFlight, sent>>
<1> SUFFICES ASSUME IInv, RingGood, [Next]_vars PROVE [Fifo!Next]_<<written, InFlight, sent>>
  OBVIOUS
<1>1. CASE Write
  BY <1>1, WriteFifo DEF Fifo!Next
<1>2. CASE Queue
  BY <1>2, QueueFifo
<1>3. CASE Refuse
  BY <1>3, RefuseFifo DEF Fifo!Next
<1>4. CASE HwSend
  BY <1>4, SendFifo DEF Fifo!Next
<1>5. CASE ~Write /\ ~Queue /\ ~Refuse /\ ~HwSend
  <2>1. own' = own /\ buf' = buf /\ oq' = oq /\ written' = written /\ sent' = sent
    BY <1>5 DEF Next, Transmit, CallTransmit, IntrRead, IntrClear, Reclaim, ReclaimEnd,
       QueueEnd, vars
  <2> QED
    BY <2>1 DEF InFlight
<1> QED
  BY <1>1, <1>2, <1>3, <1>4, <1>5

\* The transmit ring with its oq implements PacketFifo: seen through what was queued,
\* what is on its way and what was sent, every behaviour of transmit, its callers, the
\* handler and the hardware is one of the fifo.
THEOREM ImplementsFifo == Spec => FifoSpec
<1>1. Init => RingGood
  BY InitFifo
<1>2. IInv /\ RingGood /\ [Next]_vars => RingGood'
  BY NextGood DEF IInv
<1>3. Spec => []RingGood
  BY <1>1, <1>2, Invariance, PTL DEF Spec
<1>4. Init => Fifo!Init
  BY InitFifo
<1> QED
  BY <1>3, <1>4, NextFifo, Invariance, PTL DEF Spec, FifoSpec, Fifo!Spec

-----------------------------------------------------------------------------
(* The device                                                              *)

\* Every step of the device is one of the ring or leaves it alone.
THEOREM DevImplements == DevSpec => Spec
<1>1. DevInit => Init
  BY DEF DevInit
<1>2. [DevNext]_<<vars, devVars>> => [Next]_vars
  BY DEF DevNext, Next, FromWire, LoopBack, SendAndLoop, SendOnly, vars
<1> QED
  BY <1>1, <1>2, PTL DEF DevSpec, Spec

\* A non-empty finite set of numbers has its Min, by the well-foundedness of
\* the sets of smaller elements.
LEMMA MinIn ==
  ASSUME NEW S, S \subseteq Nat, S # {}, IsFiniteSet(S)
  PROVE  Min(S) \in S
<1> DEFINE D(x) == {y \in S : y < x}
           R == StrictSubsetOrdering(S)
           T == {D(x) : x \in S}
<1>1. \A x \in S : D(x) \in SUBSET S /\ IsFiniteSet(D(x))
  BY FS_Subset
<1>2. T \subseteq FiniteSubsetsOf(S) /\ T # {}
  BY <1>1 DEF FiniteSubsetsOf
<1>3. PICK d \in T : \A e \in T : ~ (<<e, d>> \in R)
  <2> HIDE DEF T, R
  <2>1. IsWellFoundedOn(StrictSubsetOrdering(S), FiniteSubsetsOf(S))
    BY FS_StrictSubsetOrderingWellFounded
  <2> QED
    BY <2>1, <1>2, WFMin DEF R
<1>4. PICK x \in S : d = D(x)
  BY <1>3
<1>5. \A y \in S : x <= y
  <2> SUFFICES ASSUME NEW y \in S, y < x PROVE FALSE
    OBVIOUS
  <2>1. D(y) \subseteq D(x) /\ y \in D(x) /\ y \notin D(y)
    <3> HIDE DEF T, R
    <3>1. x \in Nat /\ y \in Nat
      OBVIOUS
    <3>2. \A z \in S : z < y => z < x
      BY <3>1
    <3>3. ~(y < y)
      BY <3>1
    <3> QED
      BY <3>2, <3>3, Zenon
  <2>2. <<D(y), d>> \in R
    BY <2>1, <1>1, <1>4 DEF StrictSubsetOrdering
  <2> QED
    BY <2>2, <1>3
<1> QED
  BY <1>5 DEF Min

\* What is taken and what is not make up the whole.
LEMMA Split ==
  ASSUME NEW S, NEW T, IsFiniteSet(S)
  PROVE  Cardinality(S \cap T) + Cardinality(S \ T) = Cardinality(S)
<1> DEFINE A == S \cap T
           B == S \ T
<1>1. IsFiniteSet(A) /\ IsFiniteSet(B)
  BY FS_Subset
<1>2. A \cup B = S /\ A \cap B = {}
  OBVIOUS
<1> HIDE DEF A, B
<1>3. Cardinality(A) \in Nat /\ Cardinality(B) \in Nat
  BY <1>1, FS_CardinalityType
<1>4. Cardinality(A \cup B) = Cardinality(A) + Cardinality(B) - Cardinality(A \cap B)
  BY <1>1, FS_Union
<1>5. Cardinality(A \cup B) = Cardinality(S) /\ Cardinality(A \cap B) = 0
  BY <1>2, FS_EmptySet, Zenon
<1>6. Cardinality(A) + Cardinality(B) = Cardinality(S)
  BY <1>3, <1>4, <1>5
<1> QED
  BY <1>6 DEF A, B

LEMMA Counted ==
  ASSUME NEW S, NEW F, NEW T, IsFiniteSet(S), F \subseteq S
  PROVE  Cardinality((S \ F) \cap T) + Cardinality(F \cap T) + Cardinality(S \ T) = Cardinality(S)
<1> DEFINE A == S \cap T
           C == F \cap T
           D == (S \ F) \cap T
           E == S \ T
<1>1. IsFiniteSet(A) /\ A \cap F = C /\ A \ F = D /\ IsFiniteSet(C) /\ IsFiniteSet(D)
  BY FS_Subset
<1>2. Cardinality(A) + Cardinality(E) = Cardinality(S)
  BY Split
<1>3. IsFiniteSet(E)
  BY FS_Subset
<1> HIDE DEF A, C, D, E
<1>4. Cardinality(A \cap F) + Cardinality(A \ F) = Cardinality(A)
  BY <1>1, Split
<1>5. /\ Cardinality(C) \in Nat /\ Cardinality(D) \in Nat /\ Cardinality(E) \in Nat
      /\ Cardinality(A) \in Nat
  BY <1>1, <1>3, FS_CardinalityType
<1>7. Cardinality(A \cap F) = Cardinality(C) /\ Cardinality(A \ F) = Cardinality(D)
  BY <1>1, Zenon
<1>6. Cardinality(D) + Cardinality(C) + Cardinality(E) = Cardinality(S)
  BY <1>2, <1>4, <1>5, <1>7
<1> QED
  BY <1>6 DEF C, D, E

\* etheriq: the packet a step muxes is counted right, whatever the connections
\* ask for and whichever take it.
LEMMA EtheriqRight ==
  ASSUME f \in Setups, UNCHANGED f, UNCHANGED prom,
         NEW pkt \in [d : Dests, s : Sources, type : Types], NEW fromwire \in BOOLEAN,
         NEW takes, etheriq(pkt, fromwire, takes)
  PROVE  MuxRight'
<1> DEFINE want == IF Unwanted(pkt) THEN {} ELSE {i \in DOMAIN f : Wants(f[i], pkt, fromwire)}
           heads == {i \in want : f[i].headersonly}
           full == {i \in want : ~f[i].headersonly}
           fx == First(want, fromwire)
           others == (want \ heads) \ fx
           should == {i \in DOMAIN f : Sees(f[i], pkt, fromwire)'}
           whole == {i \in should : ~f[i].headersonly}
<1>1. /\ iq'.pkt = pkt /\ iq'.fromwire = fromwire
      /\ iq'.copied = others \cap takes /\ iq'.traced = heads \cap takes
      /\ iq'.given = fx \cap takes /\ iq'.over = Cardinality((others \cup fx) \ takes)
      /\ iq'.freed = IF fx # {} THEN Cardinality(fx \ takes) ELSE IF fromwire THEN 1 ELSE 0
  BY DEF etheriq
<1>2. /\ DOMAIN f \subseteq Nat /\ IsFiniteSet(DOMAIN f)
      /\ \A i \in DOMAIN f : f[i] \in Settings
  BY SetupsAssumption
<1>3. \A c \in Settings : ~Unwanted(pkt) /\ Wants(c, pkt, fromwire) <=> Sees(c, pkt, fromwire)'
  BY DEF Unwanted, Wants, Sees, Settings, Dests, Sources, Types
<1>4. want = should
  BY <1>2, <1>3
<1>5. full = whole /\ full = want \ heads /\ full \subseteq DOMAIN f
  BY <1>4
<1>6. IsFiniteSet(full) /\ full \subseteq Nat
  BY <1>2, <1>5, FS_Subset
<1>7. /\ fx \subseteq full
      /\ fx = {} \/ (fromwire /\ \E x : fx = {x})
  <2>1. fx = IF fromwire /\ full # {} THEN {Min(full)} ELSE {}
    BY DEF First
  <2>2. full # {} => Min(full) \in full
    BY <1>6, MinIn
  <2> DEFINE m == Min(full)
  <2>3. fx = {} \/ (fromwire /\ full # {} /\ fx = {m})
    BY <2>1
  <2>4. full # {} => m \in full
    BY <2>2
  <2> HIDE DEF fx, full, m
  <2> QED
    BY <2>3, <2>4
<1>9. others \subseteq full /\ fx \subseteq full /\ heads = want \ full /\ others = full \ fx
  BY <1>5, <1>7
<1> HIDE DEF fx, full, want, should, heads, others
<1>8. others \cup fx = full
  BY <1>9
<1>10. /\ Cardinality(others \cap takes) + Cardinality(fx \cap takes)
            + Cardinality(full \ takes) = Cardinality(full)
  BY <1>6, <1>9, Counted
<1>11. Cardinality(fx \cap takes) + iq'.freed = IF fromwire THEN 1 ELSE 0
  <2>1. CASE fx = {}
    BY <1>1, <2>1, FS_EmptySet
  <2>2. CASE fx # {}
    <3>0. fromwire /\ \E x : fx = {x}
      BY <1>7, <2>2
    <3>1. IsFiniteSet(fx) /\ Cardinality(fx) = 1 /\ fromwire
      BY <3>0, FS_Singleton, Zenon
    <3>2. Cardinality(fx \cap takes) + Cardinality(fx \ takes) = 1
      BY <3>1, Split
    <3> QED
      BY <3>1, <3>2, <2>2, <1>1
  <2> QED
    BY <2>1, <2>2
<1>12. {i \in DOMAIN f : Sees(f[i], iq.pkt, iq.fromwire)}' = should
  BY <1>1 DEF should, Sees
<1>13. {i \in should : ~f'[i].headersonly} = full
  BY <1>5 DEF whole
<1> QED
  BY <1>1, <1>4, <1>8, <1>9, <1>10, <1>11, <1>12, <1>13 DEF MuxRight, should

\* A device step muxes at most one packet; the other steps mux none.
DevIInv == f \in Setups /\ MuxRight

LEMMA DevNextIInv == DevIInv /\ [DevNext]_<<vars, devVars>> => DevIInv'
<1> SUFFICES ASSUME f \in Setups, MuxRight, [DevNext]_<<vars, devVars>>
             PROVE  f' \in Setups /\ MuxRight'
  BY DEF DevIInv
<1> USE DEF Dests, Sources, Types
<1>1. CASE FromWire
  <2>1. PICK d \in Dests, t \in Types, takes \in SUBSET DOMAIN f :
          etheriq([d |-> d, s |-> "other", type |-> t], TRUE, takes)
    BY <1>1 DEF FromWire
  <2> QED
    BY <1>1, <2>1, EtheriqRight DEF FromWire
<1>2. CASE LoopBack
  <2>1. PICK s \in Sources, t \in Types, takes \in SUBSET DOMAIN f :
          etheriq([d |-> "me", s |-> s, type |-> t], FALSE, takes)
    BY <1>2 DEF LoopBack
  <2> QED
    BY <1>2, <2>1, EtheriqRight DEF LoopBack
<1>3. CASE SendAndLoop
  <2>1. PICK d \in Dests \ {"me"}, s \in Sources, t \in Types, takes \in SUBSET DOMAIN f :
          etheriq([d |-> d, s |-> s, type |-> t], FALSE, takes)
    BY <1>3 DEF SendAndLoop
  <2> QED
    BY <1>3, <2>1, EtheriqRight DEF SendAndLoop
<1>4. CASE Quiet
  BY <1>4 DEF Quiet, MuxRight
<1>5. CASE UNCHANGED <<vars, devVars>>
  <2>1. UNCHANGED <<f, prom, iq>>
    BY <1>5 DEF devVars
  <2>2. MuxRight'
    BY <2>1 DEF MuxRight, Sees
  <2> QED
    BY <2>1, <2>2
<1> QED
  BY <1>1, <1>2, <1>3, <1>4, <1>5 DEF DevNext, SendOnly

\* Every connection gets what it should see once, or an overflow is counted, and
\* the block of a packet from the wire is passed on or freed: for any
\* connections, allocation failures and full queues.
THEOREM MuxedRight == DevSpec => []MuxRight
<1>1. DevInit => DevIInv
  BY DEF DevInit, DevIInv, MuxRight
<1>2. DevIInv => MuxRight
  BY DEF DevIInv
<1> QED
  BY <1>1, <1>2, DevNextIInv, PTL DEF DevSpec

\* The device keeps the order and the accounts of its ring, and is a fifo as the ring is.
THEOREM DevPackets == DevSpec => [](SentInOrder /\ Accounted) /\ FifoSpec
BY DevImplements, PacketsInOrder, PacketsAccounted, ImplementsFifo, PTL

=============================================================================
