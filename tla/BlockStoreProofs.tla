--------------------------- MODULE BlockStoreProofs ---------------------------
(***************************************************************************)
(* For any number of processes, partition names and re-initialisations: i/o *)
(* reaches the partition whose name was walked to.                          *)
(***************************************************************************)
EXTENDS BlockStore, FiniteSetTheorems, TLAPS

Ops == Commands \cup {"walk", "open", "io", "close", "wstat", "opendir"}
Places == Ops \cup {"idle", "lockbs", "lockd", "opening", "transfer"}
Chans == [walked : BOOLEAN, open : BOOLEAN, part : Nat, vers : Nat,
          name : Names \cup {"data", NoName}]

TypeOK ==
  /\ bs \in [w : Procs \cup {NoProc}, r : SUBSET Procs]
  /\ d \in [w : Procs \cup {NoProc}, r : SUBSET Procs]
  /\ parts \in Seq(Names \cup {"data"}) /\ vers \in Nat
  /\ chan \in [Procs -> Chans]
  /\ pc \in [Procs -> Places] /\ op \in [Procs -> Ops]

\* A process is in the operation it began ...
PlaceOfOp ==
  \A q \in Procs :
    \/ pc[q] \in {"idle", "lockbs", "lockd", op[q]}
    \/ pc[q] = "opening" /\ op[q] = "open"
    \/ pc[q] = "transfer" /\ op[q] = "io"

\* ... which it may only have begun on a Chan that is there, or open.
ChanOfOp ==
  \A q \in Procs : /\ chan[q].open => chan[q].walked
                   /\ pc[q] # "idle" /\ op[q] = "open" => chan[q].walked
                   /\ pc[q] # "idle" /\ op[q] = "io" => chan[q].open

\* d has readers or one writer, those that are past lockd.
Excludes ==
  /\ d.w # NoProc => d.r = {}
  /\ \A q \in Procs : pc[q] \notin {"idle", "lockbs", "lockd"} =>
       IF DWriter(q) THEN d.w = q ELSE q \in d.r

\* A Chan of the current version leads to the partition whose name was walked to.
Leads ==
  \A q \in Procs :
    /\ chan[q].vers <= vers
    /\ chan[q].walked /\ chan[q].vers = vers /\ chan[q].name # NoName =>
         parts[chan[q].part + 1] = chan[q].name

\* What IoCheck saw stays so.
InTransfer == \A q \in Procs : pc[q] = "transfer" => chan[q].vers = vers /\ HasPart(q)

IInv == TypeOK /\ PlaceOfOp /\ ChanOfOp /\ Excludes /\ Leads /\ InTransfer

-----------------------------------------------------------------------------
\* partinit leaves a sequence of names.
LEMMA TablesSeq == Tables \subseteq Seq(Names \cup {"data"})
<1> SUFFICES ASSUME NEW ns \in SUBSET Names, NEW t \in SetToSeqs(ns)
             PROVE  <<"data">> \o t \in Seq(Names \cup {"data"})
  BY DEF Tables
<1>1. Cardinality(ns) \in Nat
  BY PartsAssumption, FS_Subset, FS_CardinalityType
<1>2. t \in [1 .. Cardinality(ns) -> ns]
  BY DEF SetToSeqs
<1>3. t \in Seq(Names \cup {"data"})
  BY <1>1, <1>2
<1> QED
  BY <1>3

\* The locks keep their types.
LEMMA LockTypes ==
  ASSUME NEW l \in [w : Procs \cup {NoProc}, r : SUBSET Procs], NEW q \in Procs, NEW w
  PROVE  /\ Locked(l, q, w) \in [w : Procs \cup {NoProc}, r : SUBSET Procs]
         /\ Unlocked(l, q) \in [w : Procs \cup {NoProc}, r : SUBSET Procs]
BY DEF Locked, Unlocked

\* An operation ends: the types, whatever it did.
LEMMA DoneTypes ==
  ASSUME TypeOK, NEW q \in Procs, Done(q)
  PROVE  /\ bs' \in [w : Procs \cup {NoProc}, r : SUBSET Procs]
         /\ d' \in [w : Procs \cup {NoProc}, r : SUBSET Procs]
         /\ pc' \in [Procs -> Places] /\ op' \in [Procs -> Ops]
BY LockTypes DEF Done, TypeOK, Goto, Ops, Places, Commands

\* A Chan keeps its type when its fields are set.
LEMMA ChanTypes ==
  ASSUME NEW c \in Chans, NEW n \in Names \cup {"data", NoName}, NEW v \in Nat, NEW i \in Nat
  PROVE  /\ [c EXCEPT !.name = n] \in Chans
         /\ [c EXCEPT !.open = TRUE, !.vers = v, !.name = n] \in Chans
         /\ [walked |-> TRUE, open |-> FALSE, part |-> i, vers |-> v, name |-> n] \in Chans
BY DEF Chans

LEMMA InitIInv == Init => IInv
<1> SUFFICES ASSUME Init PROVE IInv
  OBVIOUS
<1>1. TypeOK
  BY DEF Init, TypeOK, Ops, Places, Commands, Chans, NoChan
<1>2. PlaceOfOp /\ ChanOfOp
  BY DEF Init, PlaceOfOp, ChanOfOp, NoChan
<1>3. Excludes /\ InTransfer
  BY DEF Init, Excludes, InTransfer
<1>4. Leads
  BY DEF Init, Leads, NoChan
<1> QED
  BY <1>1, <1>2, <1>3, <1>4 DEF IInv

LEMMA TypeNext == TypeOK /\ [Next]_vars => TypeOK'
<1> SUFFICES ASSUME TypeOK, [Next]_vars PROVE TypeOK'
  OBVIOUS
<1>ty. /\ bs \in [w : Procs \cup {NoProc}, r : SUBSET Procs]
       /\ d \in [w : Procs \cup {NoProc}, r : SUBSET Procs]
       /\ parts \in Seq(Names \cup {"data"}) /\ vers \in Nat
       /\ chan \in [Procs -> Chans]
       /\ pc \in [Procs -> Places] /\ op \in [Procs -> Ops]
  BY DEF TypeOK
<1>0. NoChan \in Chans
  BY DEF NoChan, Chans
<1>1. ASSUME NEW q \in Procs, Begin(q) PROVE TypeOK'
  <2>1. UNCHANGED <<bs, d, parts, vers>> /\ pc' \in [Procs -> Places]
    BY <1>1, <1>ty DEF Begin, locks, store, Goto, Places
  <2>2. op' \in [Procs -> Ops]
    BY <1>1, <1>ty DEF Begin, Ops, Commands
  <2>3. chan' \in [Procs -> Chans]
    <3>1. \/ chan' = chan
          \/ \E n \in Names \cup {"data"} : chan' = [chan EXCEPT ![q].name = n]
      BY <1>1 DEF Begin
    <3>2. \A n \in Names \cup {"data"} : [chan[q] EXCEPT !.name = n] \in Chans
      BY <1>ty, ChanTypes
    <3> QED
      BY <3>1, <3>2, <1>ty
  <2> QED
    BY <2>1, <2>2, <2>3, <1>ty DEF TypeOK
<1>2. ASSUME NEW q \in Procs, CloseData(q) PROVE TypeOK'
  BY <1>2, <1>ty, <1>0 DEF CloseData, locks, store, TypeOK
<1>3. ASSUME NEW q \in Procs, LockBs(q) PROVE TypeOK'
  <2>1. bs' \in [w : Procs \cup {NoProc}, r : SUBSET Procs]
    BY <1>3, <1>ty, LockTypes DEF LockBs, BsWriter
  <2>2. pc' \in [Procs -> Places]
    BY <1>3, <1>ty DEF LockBs, Goto, Places
  <2> QED
    BY <2>1, <2>2, <1>3, <1>ty DEF LockBs, store, TypeOK
<1>4. ASSUME NEW q \in Procs, LockD(q) PROVE TypeOK'
  <2>1. /\ bs' \in [w : Procs \cup {NoProc}, r : SUBSET Procs]
        /\ d' \in [w : Procs \cup {NoProc}, r : SUBSET Procs]
    BY <1>4, <1>ty, LockTypes DEF LockD, DWriter
  <2>2. pc' \in [Procs -> Places]
    BY <1>4, <1>ty DEF LockD, Goto, Places
  <2> QED
    BY <2>1, <2>2, <1>4, <1>ty DEF LockD, store, TypeOK
<1>5. ASSUME NEW q \in Procs, Walk(q) PROVE TypeOK'
  <2>1. chan' \in [Procs -> Chans]
    <3>1. ASSUME NEW i \in DOMAIN parts PROVE bsgen(i) \in Nat
      BY <1>ty DEF bsgen
    <3>2. \/ chan' = [chan EXCEPT ![q] = NoChan]
          \/ \E i \in DOMAIN parts :
               chan' = [chan EXCEPT ![q] = [walked |-> TRUE, open |-> FALSE, part |-> bsgen(i),
                                            vers |-> vers, name |-> chan[q].name]]
      <4>1. CASE \E i \in DOMAIN parts : parts[i] = chan[q].name
        <5> DEFINE i == CHOOSE i \in DOMAIN parts : parts[i] = chan[q].name
        <5>1. i \in DOMAIN parts
          BY <4>1
        <5>2. chan' = [chan EXCEPT ![q] = [walked |-> TRUE, open |-> FALSE, part |-> bsgen(i),
                                           vers |-> vers, name |-> @.name]]
          BY <1>5, <4>1 DEF Walk
        <5> HIDE DEF i
        <5> QED
          BY <5>1, <5>2
      <4>2. CASE ~ \E i \in DOMAIN parts : parts[i] = chan[q].name
        BY <1>5, <4>2 DEF Walk
      <4> QED
        BY <4>1, <4>2
    <3>3. chan[q].name \in Names \cup {"data", NoName}
      BY <1>ty DEF Chans
    <3>4. \A i \in DOMAIN parts :
            [walked |-> TRUE, open |-> FALSE, part |-> bsgen(i), vers |-> vers,
             name |-> chan[q].name] \in Chans
      BY <3>1, <3>3, <1>ty, ChanTypes
    <3> QED
      BY <3>2, <3>4, <1>0, <1>ty
  <2> QED
    BY <2>1, <1>5, <1>ty, DoneTypes DEF Walk, store, TypeOK
<1>6. ASSUME NEW q \in Procs, Look(q) \/ OpenRefused(q) \/ Transfer(q) PROVE TypeOK'
  BY <1>6, <1>ty, DoneTypes DEF Look, OpenRefused, Transfer, store, TypeOK
<1>7. ASSUME NEW q \in Procs, OpenCheck(q) \/ IoCheck(q) PROVE TypeOK'
  <2>1. UNCHANGED <<parts, vers, chan>>
    BY <1>7 DEF OpenCheck, IoCheck, store
  <2>2. Done(q) \/ ((Goto(q, "opening") \/ Goto(q, "transfer")) /\ UNCHANGED <<locks, op>>)
    BY <1>7 DEF OpenCheck, IoCheck
  <2>3. CASE Done(q)
    BY <2>1, <2>3, <1>ty, DoneTypes DEF TypeOK
  <2>4. CASE (Goto(q, "opening") \/ Goto(q, "transfer")) /\ UNCHANGED <<locks, op>>
    BY <2>1, <2>4, <1>ty DEF Goto, locks, Places, TypeOK
  <2> QED
    BY <2>2, <2>3, <2>4
<1>8. ASSUME NEW q \in Procs, Open(q) PROVE TypeOK'
  <2>1. chan' \in [Procs -> Chans]
    <3> DEFINE n == IF chan[q].vers = vers THEN chan[q].name ELSE NoName
    <3>1. n \in Names \cup {"data", NoName}
      BY <1>ty DEF Chans
    <3>2. chan' = [chan EXCEPT ![q] = [chan[q] EXCEPT !.open = TRUE, !.vers = vers, !.name = n]]
      BY <1>8, <1>ty DEF Open, Chans
    <3> HIDE DEF n
    <3>3. [chan[q] EXCEPT !.open = TRUE, !.vers = vers, !.name = n] \in Chans
      BY <3>1, <1>ty, ChanTypes
    <3> QED
      BY <3>2, <3>3, <1>ty
  <2> QED
    BY <2>1, <1>8, <1>ty, DoneTypes DEF Open, TypeOK
<1>9. ASSUME NEW q \in Procs, Close(q) PROVE TypeOK'
  BY <1>9, <1>0, <1>ty, DoneTypes DEF Close, TypeOK
<1>10. ASSUME NEW q \in Procs, Command(q) PROVE TypeOK'
  <2>1. UNCHANGED chan /\ Done(q)
    BY <1>10 DEF Command
  <2>2. parts' \in Seq(Names \cup {"data"}) /\ vers' \in Nat
    <3>1. \/ parts' = parts /\ vers' = vers
          \/ (parts' = <<>> \/ parts' \in Tables) /\ vers' = vers + 1
      <4>1. diskinit \/ partinit \/ UNCHANGED <<ready, parts, vers, isopen>>
        BY <1>10 DEF Command
      <4>2. CASE diskinit
        BY <4>2 DEF diskinit
      <4>3. CASE partinit
        BY <4>3 DEF partinit
      <4> QED
        BY <4>1, <4>2, <4>3
    <3>2. CASE parts' = <<>>
      BY <3>1, <3>2, <1>ty
    <3>3. CASE parts' \in Tables
      <4>1. vers' \in Nat
        BY <3>1, <1>ty
      <4> QED
        BY <3>3, <4>1, TablesSeq, Zenon
    <3> QED
      BY <3>1, <3>2, <3>3, <1>ty, Zenon
  <2> QED
    BY <2>1, <2>2, <1>ty, DoneTypes DEF TypeOK
<1>11. CASE UNCHANGED vars
  BY <1>11, <1>ty DEF vars, locks, store, TypeOK
<1> QED
  BY <1>1, <1>2, <1>3, <1>4, <1>5, <1>6, <1>7, <1>8, <1>9, <1>10, <1>11 DEF Next, Work

\* What the end of an operation leaves of the locks: the other processes keep
\* theirs.
LEMMA DoneInv ==
  ASSUME TypeOK, PlaceOfOp, Excludes, NEW q \in Procs, Done(q)
  PROVE  PlaceOfOp' /\ Excludes'
<1>1. /\ pc' = [pc EXCEPT ![q] = "idle"] /\ op' = [op EXCEPT ![q] = "open"]
      /\ d' = [w |-> IF d.w = q THEN NoProc ELSE d.w, r |-> d.r \ {q}]
  BY DEF Done, Goto, Unlocked
<1>2. pc \in [Procs -> Places] /\ op \in [Procs -> Ops]
  BY DEF TypeOK
<1>3. PlaceOfOp'
  BY <1>1, <1>2 DEF PlaceOfOp
<1>4. Excludes'
  BY <1>1, <1>2 DEF Excludes, DWriter
<1> QED
  BY <1>3, <1>4

\* A step of q that moves on in its operation without d changing.
LEMMA GotoInv ==
  ASSUME TypeOK, PlaceOfOp, Excludes, NEW q \in Procs, NEW l \in Places, Goto(q, l),
         UNCHANGED <<d, op>>,
         \/ l \in {"idle", "lockbs", "lockd"}
         \/ /\ pc[q] \notin {"idle", "lockbs", "lockd"}
            /\ l = op[q] \/ (l = "opening" /\ op[q] = "open") \/ (l = "transfer" /\ op[q] = "io")
  PROVE  PlaceOfOp' /\ Excludes'
<1>1. pc' = [pc EXCEPT ![q] = l] /\ pc \in [Procs -> Places]
  BY DEF Goto, TypeOK
<1>2. PlaceOfOp'
  BY <1>1 DEF PlaceOfOp
<1>3. Excludes'
  BY <1>1 DEF Excludes, DWriter
<1> QED
  BY <1>2, <1>3

\* Every step keeps the processes in their operations and the lock's rule.
LEMMA LocksNext ==
  TypeOK /\ PlaceOfOp /\ Excludes /\ [Next]_vars => PlaceOfOp' /\ Excludes'
<1> SUFFICES ASSUME TypeOK, PlaceOfOp, Excludes, [Next]_vars PROVE PlaceOfOp' /\ Excludes'
  OBVIOUS
<1>ty. pc \in [Procs -> Places] /\ op \in [Procs -> Ops] /\ NoProc \notin Procs
  BY NoProcAssumption DEF TypeOK
<1>1. ASSUME NEW q \in Procs, Begin(q) PROVE PlaceOfOp' /\ Excludes'
  <2>1. /\ pc' = [pc EXCEPT ![q] = "lockbs"] /\ UNCHANGED d
        /\ \A r \in Procs \ {q} : op'[r] = op[r]
    BY <1>1, <1>ty DEF Begin, locks, Goto
  <2>2. PlaceOfOp'
    BY <2>1, <1>ty DEF PlaceOfOp
  <2>3. Excludes'
    BY <2>1, <1>ty DEF Excludes, DWriter
  <2> QED
    BY <2>2, <2>3
<1>2. ASSUME NEW q \in Procs, CloseData(q) PROVE PlaceOfOp' /\ Excludes'
  BY <1>2 DEF CloseData, locks, PlaceOfOp, Excludes, DWriter
<1>3. ASSUME NEW q \in Procs, LockBs(q) PROVE PlaceOfOp' /\ Excludes'
  BY <1>3, GotoInv DEF LockBs, Places
<1>4. ASSUME NEW q \in Procs, LockD(q) PROVE PlaceOfOp' /\ Excludes'
  <2>1. /\ pc[q] = "lockd" /\ d.w = NoProc /\ (DWriter(q) => d.r = {})
        /\ d' = IF DWriter(q) THEN [d EXCEPT !.w = q] ELSE [d EXCEPT !.r = @ \cup {q}]
        /\ pc' = [pc EXCEPT ![q] = op[q]] /\ UNCHANGED op
    BY <1>4 DEF LockD, At, CanLock, Locked, Goto
  <2>2. PlaceOfOp'
    BY <2>1, <1>ty DEF PlaceOfOp
  <2>3. d \in [w : Procs \cup {NoProc}, r : SUBSET Procs]
    BY DEF TypeOK
  <2>4. CASE DWriter(q)
    <3>1. d'.w = q /\ d'.r = {}
      BY <2>1, <2>3, <2>4
    <3>2. \A r \in Procs \ {q} : pc'[r] \in {"idle", "lockbs", "lockd"}
      BY <2>1, <2>4, <1>ty DEF Excludes
    <3> QED
      BY <2>1, <2>2, <2>4, <3>1, <3>2, <1>ty DEF Excludes, DWriter
  <2>5. CASE ~DWriter(q)
    <3>1. d'.w = NoProc /\ d'.r = d.r \cup {q}
      BY <2>1, <2>3, <2>5
    <3> QED
      BY <2>1, <2>2, <2>5, <3>1, <1>ty DEF Excludes, DWriter
  <2> QED
    BY <2>4, <2>5
<1>5. ASSUME NEW q \in Procs, Done(q) PROVE PlaceOfOp' /\ Excludes'
  BY <1>5, DoneInv
<1>6. ASSUME NEW q \in Procs, OpenCheck(q) \/ IoCheck(q) PROVE PlaceOfOp' /\ Excludes'
  <2>1. \/ Done(q)
        \/ /\ UNCHANGED <<d, op>>
           /\ \/ pc[q] = "open" /\ Goto(q, "opening")
              \/ pc[q] = "io" /\ Goto(q, "transfer")
    BY <1>6 DEF OpenCheck, IoCheck, locks, At
  <2> QED
    BY <2>1, <1>5, <1>ty, GotoInv DEF PlaceOfOp, Places
<1>7. CASE UNCHANGED vars
  BY <1>7 DEF vars, locks, PlaceOfOp, Excludes, DWriter
<1> QED
  BY <1>1, <1>2, <1>3, <1>4, <1>5, <1>6, <1>7 DEF Next, Work, Walk, Look, Open, OpenRefused,
     Transfer, Close, Command

\* A step of q leaves the operations and the Chans of the others alone.
LEMMA OthersNext ==
  ASSUME TypeOK, NEW q \in Procs, NEW r \in Procs \ {q}, Begin(q) \/ CloseData(q) \/ Work(q)
  PROVE  pc'[r] = pc[r] /\ op'[r] = op[r] /\ chan'[r] = chan[r]
<1>ty. /\ pc \in [Procs -> Places] /\ op \in [Procs -> Ops] /\ chan \in [Procs -> Chans]
  BY DEF TypeOK
<1>1. Done(q) => pc'[r] = pc[r] /\ op'[r] = op[r]
  BY <1>ty DEF Done, Goto
<1>2. CASE Begin(q)
  BY <1>2, <1>ty DEF Begin, Goto
<1>3. CASE CloseData(q) \/ LockBs(q) \/ LockD(q)
  BY <1>3, <1>ty DEF CloseData, LockBs, LockD, Goto
<1>4. CASE Walk(q) \/ Open(q) \/ Close(q)
  BY <1>1, <1>4, <1>ty DEF Walk, Open, Close
<1>5. CASE Look(q) \/ OpenCheck(q) \/ OpenRefused(q) \/ IoCheck(q) \/ Transfer(q) \/ Command(q)
  BY <1>1, <1>5, <1>ty DEF Look, OpenCheck, OpenRefused, IoCheck, Transfer, Command, locks, Goto
<1> QED
  BY <1>2, <1>3, <1>4, <1>5 DEF Work

\* The store changes in a command only: nobody is past lockd but its writer, and
\* no Chan is of the new version.
LEMMA StoreNext ==
  ASSUME TypeOK, Excludes, PlaceOfOp, Leads, NEW q \in Procs, Begin(q) \/ CloseData(q) \/ Work(q)
  PROVE  \/ UNCHANGED <<ready, parts, vers>>
         \/ /\ Command(q) /\ vers' = vers + 1
            /\ \A r \in Procs \ {q} : pc[r] \in {"idle", "lockbs", "lockd"}
<1>1. CASE Command(q)
  <2>1. \/ UNCHANGED <<ready, parts, vers>>
        \/ vers' = vers + 1
    BY <1>1 DEF Command, diskinit, partinit
  <2>2. op[q] \in Commands /\ pc[q] = op[q]
    BY <1>1 DEF Command, At
  <2>3. d.w = q /\ q # NoProc
    BY <2>2, NoProcAssumption DEF Excludes, DWriter, Commands
  <2>4. d.r = {}
    BY <2>3 DEF Excludes
  <2> QED
    BY <1>1, <2>1, <2>3, <2>4 DEF Excludes
<1>2. CASE Open(q) \/ Close(q)
  BY <1>2 DEF Open, Close
<1>3. CASE ~Command(q) /\ ~Open(q) /\ ~Close(q)
  BY <1>3 DEF Work, Begin, CloseData, LockBs, LockD, Walk, Look, OpenCheck, OpenRefused, IoCheck,
     Transfer, store
<1> QED
  BY <1>1, <1>2, <1>3

\* What a step of q does to its own Chan.
LEMMA ChanNext ==
  ASSUME TypeOK, ChanOfOp, PlaceOfOp, Leads, NEW q \in Procs,
         Begin(q) \/ CloseData(q) \/ Work(q)
  PROVE  /\ chan'[q].open => chan'[q].walked
         /\ pc'[q] # "idle" /\ op'[q] = "open" => chan'[q].walked
         /\ pc'[q] # "idle" /\ op'[q] = "io" => chan'[q].open
         /\ \/ chan'[q] = chan[q]
            \/ chan'[q].vers <= vers /\ ~chan'[q].walked
            \/ /\ UNCHANGED vers /\ chan'[q].vers = vers
               /\ chan'[q].name # NoName => parts[chan'[q].part + 1] = chan'[q].name
<1>ty. /\ pc \in [Procs -> Places] /\ op \in [Procs -> Ops] /\ chan \in [Procs -> Chans]
       /\ vers \in Nat /\ parts \in Seq(Names \cup {"data"})
  BY DEF TypeOK
<1>0. NoChan.vers <= vers /\ ~NoChan.walked /\ ~NoChan.open
  BY <1>ty DEF NoChan
<1>d. Done(q) => pc'[q] = "idle"
  BY <1>ty DEF Done, Goto
<1>1. CASE Begin(q)
  <2>1. CASE chan' = chan
    <3>1. \/ op'[q] \notin {"open", "io"}
          \/ op'[q] = "open" /\ chan[q].walked
          \/ op'[q] = "io" /\ chan[q].open
      BY <1>1, <2>1, <1>ty DEF Begin, Commands
    <3> QED
      BY <2>1, <3>1 DEF ChanOfOp
  <2>2. CASE chan' # chan
    <3>1. PICK n \in Names \cup {"data"} : /\ ~chan[q].walked /\ op' = [op EXCEPT ![q] = "walk"]
                                           /\ chan' = [chan EXCEPT ![q].name = n]
      BY <1>1, <2>2 DEF Begin
    <3>2. chan'[q] = [chan[q] EXCEPT !.name = n] /\ op'[q] = "walk"
      BY <3>1, <1>ty
    <3>3. chan'[q].walked = chan[q].walked /\ chan'[q].open = chan[q].open
          /\ chan'[q].vers = chan[q].vers
      BY <3>2, <1>ty DEF Chans
    <3> QED
      BY <3>1, <3>2, <3>3 DEF ChanOfOp, Leads
  <2> QED
    BY <2>1, <2>2
<1>2. CASE CloseData(q)
  <2>1. chan'[q] = NoChan /\ pc'[q] = "idle"
    BY <1>2, <1>ty DEF CloseData, At
  <2> QED
    BY <2>1, <1>0
<1>3. CASE LockBs(q) \/ LockD(q)
  <2>1. chan' = chan /\ op' = op /\ pc[q] # "idle"
    BY <1>3 DEF LockBs, LockD, At
  <2> QED
    BY <2>1 DEF ChanOfOp
<1>4. CASE Walk(q)
  <2>1. pc'[q] = "idle" /\ UNCHANGED vers
    BY <1>4, <1>d DEF Walk, store
  <2>2. CASE \E i \in DOMAIN parts : parts[i] = chan[q].name
    <3> DEFINE i == CHOOSE i \in DOMAIN parts : parts[i] = chan[q].name
    <3>1. i \in DOMAIN parts /\ parts[i] = chan[q].name
      BY <2>2
    <3>2. chan'[q] = [walked |-> TRUE, open |-> FALSE, part |-> bsgen(i), vers |-> vers,
                      name |-> chan[q].name]
      BY <1>4, <2>2, <1>ty DEF Walk
    <3> HIDE DEF i
    <3>3. bsgen(i) + 1 = i
      BY <3>1, <1>ty DEF bsgen
    <3> QED
      BY <2>1, <3>1, <3>2, <3>3
  <2>3. CASE ~ \E i \in DOMAIN parts : parts[i] = chan[q].name
    <3>1. chan'[q] = NoChan
      BY <1>4, <2>3, <1>ty DEF Walk
    <3> QED
      BY <2>1, <3>1, <1>0
  <2> QED
    BY <2>2, <2>3
<1>5. CASE Open(q)
  <2> DEFINE n == IF chan[q].vers = vers THEN chan[q].name ELSE NoName
  <2>1. pc[q] = "opening" /\ pc'[q] = "idle" /\ UNCHANGED vers
    BY <1>5, <1>d DEF Open, At
  <2>2. chan[q].walked
    BY <2>1, <1>ty DEF ChanOfOp, PlaceOfOp, Ops, Commands
  <2>3. chan'[q] = [chan[q] EXCEPT !.open = TRUE, !.vers = vers, !.name = n]
    BY <1>5, <1>ty DEF Open, Chans
  <2>4. /\ chan'[q].walked /\ chan'[q].vers = vers /\ chan'[q].part = chan[q].part
        /\ chan'[q].name = n
    BY <2>2, <2>3, <1>ty DEF Chans
  <2>5. n # NoName => parts[chan[q].part + 1] = n
    BY <2>2 DEF Leads
  <2> QED
    BY <2>1, <2>4, <2>5
<1>6. CASE Close(q)
  <2>1. chan'[q] = NoChan /\ pc'[q] = "idle"
    BY <1>6, <1>d, <1>ty DEF Close
  <2> QED
    BY <2>1, <1>0
<1>7. CASE Look(q) \/ OpenCheck(q) \/ OpenRefused(q) \/ IoCheck(q) \/ Transfer(q) \/ Command(q)
  <2>1. chan' = chan /\ (pc'[q] = "idle" \/ (op' = op /\ pc[q] # "idle"))
    <3>1. CASE OpenCheck(q) \/ IoCheck(q)
      BY <3>1, <1>d DEF OpenCheck, IoCheck, At
    <3>2. CASE Look(q) \/ OpenRefused(q) \/ Transfer(q) \/ Command(q)
      BY <3>2, <1>d DEF Look, OpenRefused, Transfer, Command
    <3> QED
      BY <1>7, <3>1, <3>2
  <2> QED
    BY <2>1 DEF ChanOfOp
<1> QED
  BY <1>1, <1>2, <1>3, <1>4, <1>5, <1>6, <1>7 DEF Work

LEMMA NextIInv == IInv /\ [Next]_vars => IInv'
<1> SUFFICES ASSUME IInv, [Next]_vars PROVE IInv'
  OBVIOUS
<1>0. TypeOK /\ PlaceOfOp /\ ChanOfOp /\ Excludes /\ Leads /\ InTransfer
  BY DEF IInv
<1>1. TypeOK' /\ PlaceOfOp' /\ Excludes'
  BY <1>0, TypeNext, LocksNext
<1>ty. /\ pc \in [Procs -> Places] /\ op \in [Procs -> Ops] /\ chan \in [Procs -> Chans]
       /\ vers \in Nat /\ \A r \in Procs : chan[r].vers \in Nat
  BY <1>0 DEF TypeOK, Chans
<1>2. ASSUME NEW q \in Procs, Begin(q) \/ CloseData(q) \/ Work(q)
      PROVE  ChanOfOp' /\ Leads' /\ InTransfer'
  <2>1. \A r \in Procs \ {q} : pc'[r] = pc[r] /\ op'[r] = op[r] /\ chan'[r] = chan[r]
    BY <1>0, <1>2, OthersNext
  <2>2. /\ chan'[q].open => chan'[q].walked
        /\ pc'[q] # "idle" /\ op'[q] = "open" => chan'[q].walked
        /\ pc'[q] # "idle" /\ op'[q] = "io" => chan'[q].open
        /\ \/ chan'[q] = chan[q]
           \/ chan'[q].vers <= vers /\ ~chan'[q].walked
           \/ /\ UNCHANGED vers /\ chan'[q].vers = vers
              /\ chan'[q].name # NoName => parts[chan'[q].part + 1] = chan'[q].name
    BY <1>0, <1>2, ChanNext
  <2>3. \/ UNCHANGED <<ready, parts, vers>>
        \/ /\ Command(q) /\ vers' = vers + 1
           /\ \A r \in Procs \ {q} : pc[r] \in {"idle", "lockbs", "lockd"}
    BY <1>0, <1>2, StoreNext
  <2>4. ChanOfOp'
    BY <2>1, <2>2, <1>0 DEF ChanOfOp
  <2>5. Leads'
    <3> SUFFICES ASSUME NEW r \in Procs
                 PROVE  /\ chan'[r].vers <= vers'
                        /\ chan'[r].walked /\ chan'[r].vers = vers' /\ chan'[r].name # NoName =>
                             parts'[chan'[r].part + 1] = chan'[r].name
      BY DEF Leads
    <3>1. CASE UNCHANGED <<ready, parts, vers>>
      BY <3>1, <2>1, <2>2, <1>0, <1>ty DEF Leads
    <3>2. CASE vers' = vers + 1
      <4>1. chan'[r].vers <= vers /\ chan'[r].vers \in Nat
        <5>1. chan'[r].vers \in Nat
          BY <1>1 DEF TypeOK, Chans
        <5> QED
          BY <5>1, <3>2, <2>1, <2>2, <1>0, <1>ty DEF Leads
      <4> QED
        BY <3>2, <4>1, <1>ty
    <3> QED
      BY <2>3, <3>1, <3>2
  <2>6. InTransfer'
    <3> SUFFICES ASSUME NEW r \in Procs, pc'[r] = "transfer"
                 PROVE  chan'[r].vers = vers' /\ HasPart(r)'
      BY DEF InTransfer
    <3>1. CASE r = q
      <4>1. IoCheck(q) /\ pc'[q] # "idle"
        BY <3>1, <1>2, <1>ty, <1>0 DEF Begin, CloseData, Work, LockBs, LockD, Walk, Look, OpenCheck,
           Open, OpenRefused, Transfer, Close, Command, Done, Goto, Ops, Commands, At
      <4>2. chan[q].vers = vers /\ HasPart(q)
        BY <4>1, <1>ty DEF IoCheck, Done, Goto
      <4> QED
        BY <3>1, <4>1, <4>2 DEF IoCheck, store, HasPart, nparts
    <3>2. CASE r # q
      <4>1. pc[r] = "transfer" /\ chan'[r] = chan[r]
        BY <3>2, <2>1
      <4>2. UNCHANGED <<ready, parts, vers>>
        BY <3>2, <4>1, <2>3
      <4> QED
        BY <4>1, <4>2, <1>0 DEF InTransfer, HasPart, nparts
    <3> QED
      BY <3>1, <3>2
  <2> QED
    BY <2>4, <2>5, <2>6
<1>3. ASSUME UNCHANGED vars PROVE ChanOfOp' /\ Leads' /\ InTransfer'
  BY <1>0, <1>3 DEF vars, store, ChanOfOp, Leads, InTransfer, HasPart, nparts
<1>4. ChanOfOp' /\ Leads' /\ InTransfer'
  BY <1>2, <1>3 DEF Next
<1> QED
  BY <1>1, <1>4 DEF IInv

THEOREM Invariance == Spec => []IInv
BY InitIInv, NextIInv, PTL DEF Spec

\* bsdevread, bsdevwrite: i/o reaches the partition whose name was walked to,
\* whatever is re-initialised by any number of processes.
THEOREM IoOnPartition == Spec => []IoOnWalked
<1>1. IInv => IoOnWalked
  <2> SUFFICES ASSUME IInv, NEW q \in Procs, pc[q] = "transfer"
               PROVE  /\ HasPart(q)
                      /\ chan[q].name # NoName => parts[chan[q].part + 1] = chan[q].name
    BY DEF IoOnWalked
  <2>1. chan[q].vers = vers /\ HasPart(q)
    BY DEF IInv, InTransfer
  <2>2. op[q] \in Ops
    BY DEF IInv, TypeOK
  <2>3. op[q] = "io"
    BY <2>2 DEF IInv, PlaceOfOp, Ops, Commands
  <2>4. chan[q].walked
    BY <2>3 DEF IInv, ChanOfOp
  <2> QED
    BY <2>1, <2>4 DEF IInv, Leads
<1> QED
  BY <1>1, Invariance, PTL

\* The RWlock d: a process that works with it wlocked is alone.
WriterAlone ==
  \A q, r \in Procs :
    /\ q # r /\ DWriter(q)
    /\ pc[q] \notin {"idle", "lockbs", "lockd"}
    => pc[r] \in {"idle", "lockbs", "lockd"}

\* bs.h "wlocks for: init,diskinit,modifying values": no process is in an operation
\* on the disk while another changes it.
THEOREM WritersAlone == Spec => []WriterAlone
<1>1. IInv => WriterAlone
  BY NoProcAssumption DEF IInv, Excludes, WriterAlone
<1> QED
  BY <1>1, Invariance, PTL

=============================================================================
