----------------------------- MODULE SataProofs -----------------------------
(***************************************************************************)
(* Theorems about the tags of devsata.c, for every number of processes,    *)
(* slots and faults, and a device with a queue depth of one.  The depth is *)
(* a hypothesis of the theorems: with two tags tagsinuse++ of one process  *)
(* and tagsinuse-- of another can meet, and the properties fail (the run   *)
(* sata_tags).                                                             *)
(*                                                                         *)
(* The argument: with one tag, whoever uses it is alone.  A process takes  *)
(* it with reqsl held and tagsinuse zero; by the time it lets reqsl go it  *)
(* has counted the tag.  A request that fails never gives its tag back, so *)
(* tagsinuse only falls when the request is in neither of the queues.      *)
(***************************************************************************)
EXTENDS Sata, TLAPS

Places == {"idle", "lock", "tagwait", "inc", "incstore", "arm", "issue", "await", "check",
           "return", "dec", "decstore", "claim", "drain", "ata", "clear", "regs",
           "atawait", "atacheck", "reset"}
Results == {"ok", "timeout", "fail"}

TypeOK ==
  /\ tags \in [Tags -> {0}] /\ tagnext = 0 /\ tagsinuse \in {0, 1} /\ ntags = 1
  /\ reqsl \in All \cup {NoProc}
  /\ reqnext \in Tags
  /\ reqsdone \in [Tags -> Results]
  /\ pc \in [All -> Places]
  /\ loc \in [All -> [tag : {0}, slot : Tags, cnt : {0, 1},
                      op : {"identify", "flush"}]]
  /\ queue \subseteq [tag : {0}, slot : Tags, proc : All]
  /\ resp \in Seq({0})
  /\ edma \in BOOLEAN

\* Where a process holds reqsl.
InLock(q) == pc[q] \in {"tagwait", "inc", "incstore", "arm", "issue", "drain", "ata",
                        "clear", "regs", "atawait", "atacheck"}

\* Where it has the tag, counted in tagsinuse or not yet.
Uncounted(q) == pc[q] \in {"inc", "incstore"}
Counted(q) == pc[q] \in {"arm", "issue", "await", "check", "return", "dec", "decstore"}
Uses(q) == Uncounted(q) \/ Counted(q)

\* Where the request is with the device, and where it has been completed.
Sent(q) == pc[q] \in {"await", "check"}
InAta(q) == pc[q] \in {"ata", "clear", "regs", "atawait", "atacheck"}

Nothing == queue = {} /\ resp = <<>>

LockHeld == \A q \in All : InLock(q) => reqsl = q
OneUser == \A q, r \in All : Uses(q) /\ Uses(r) => q = r
CountRight ==
  \A q \in All :
    /\ Uncounted(q) => tagsinuse = 0
    /\ Counted(q) => tagsinuse = 1
    /\ pc[q] = "incstore" => loc[q].cnt = 0
    /\ pc[q] = "decstore" => loc[q].cnt = 1
OneRequest ==
  /\ tagsinuse = 0 => Nothing
  /\ \A r, s \in queue : r = s
  /\ queue # {} => resp = <<>>
  /\ Len(resp) <= 1
Requests ==
  \A q \in All :
    /\ Uses(q) /\ ~Sent(q) => Nothing
    /\ Sent(q) => \A r \in queue : r.proc = q
    /\ Sent(q) /\ reqsdone[0] = "ok" => Nothing
    /\ pc[q] = "issue" => reqsdone[0] # "ok"
Claimed == \A q \in All : InAta(q) => tagsinuse = 0 /\ ~edma

IInv == TypeOK /\ LockHeld /\ OneUser /\ CountRight /\ OneRequest /\ Requests /\ Claimed

-----------------------------------------------------------------------------
(* The steps, cut as the cases of the proofs                               *)

LEMMA InitIInv == Init => IInv
<1> SUFFICES ASSUME Init PROVE IInv
  OBVIOUS
<1>z. 0 \in Tags
  BY SlotsAssumption DEF Tags
<1>1. TypeOK
  <2>1. pc \in [All -> Places]
    BY DEF Init, Places
  <2>2. loc \in [All -> [tag : {0}, slot : Tags, cnt : {0, 1}, op : {"identify", "flush"}]]
    BY <1>z DEF Init
  <2>3. reqsdone \in [Tags -> Results] /\ tags \in [Tags -> {0}]
    BY DEF Init, Results
  <2>4. resp \in Seq({0}) /\ queue \subseteq [tag : {0}, slot : Tags, proc : All]
    BY DEF Init
  <2> QED
    BY <1>z, <2>1, <2>2, <2>3, <2>4 DEF Init, TypeOK
<1>2. \A q \in All : pc[q] = "idle"
  BY DEF Init
<1>3. LockHeld /\ OneUser /\ CountRight /\ Requests /\ Claimed
  BY <1>2 DEF LockHeld, OneUser, CountRight, Requests, Claimed, InLock, Uses, Uncounted,
              Counted, Sent, InAta
<1>4. OneRequest
  BY DEF Init, OneRequest, Nothing
<1> QED
  BY <1>1, <1>3, <1>4 DEF IInv

\* A step of the handler or of the hardware leaves the processes and the tags
\* alone.
Aside == UNCHANGED <<tags, tagnext, tagsinuse, ntags, reqsl, reqnext, pc, loc>>

LEMMA AsideKeeps ==
  ASSUME IInv, Aside
  PROVE  LockHeld' /\ OneUser' /\ CountRight'
BY DEF IInv, Aside, LockHeld, OneUser, CountRight, InLock, Uses, Uncounted, Counted

\* A step that completes nothing: the queue keeps what it has or is emptied, and
\* a result that was not good stays so.
LEMMA QuietIInv ==
  ASSUME IInv, Aside,
         queue' = queue \/ queue' = {}, resp' = resp,
         reqsdone' \in [Tags -> Results],
         reqsdone'[0] # "ok" \/ reqsdone' = reqsdone,
         edma' \in BOOLEAN, ~edma => ~edma'
  PROVE  IInv'
<1> USE SlotsAssumption DEF Tags
<1>1. TypeOK'
  BY DEF IInv, TypeOK, Aside
<1>2. OneRequest'
  BY DEF IInv, OneRequest, Aside, Nothing
<1>3. Requests'
  BY DEF IInv, Requests, Aside, Uses, Uncounted, Counted, Sent, Nothing
<1>4. Claimed'
  BY DEF IInv, Claimed, Aside, InAta
<1> QED
  BY <1>1, <1>2, <1>3, <1>4, AsideKeeps DEF IInv

\* A response arrives.
LEMMA HwDoneIInv ==
  ASSUME IInv, HwDone
  PROVE  IInv'
<1> USE SlotsAssumption DEF Tags
<1>a. Aside
  BY DEF HwDone, Aside, pool, drv
<1>r. reqsdone' = reqsdone /\ edma' = edma
  BY DEF HwDone, drv
<1>1. PICK r \in queue : queue' = queue \ {r} /\ resp' = Append(resp, r.tag)
  BY DEF HwDone
<1>2. queue' = {} /\ resp' = <<0>> /\ resp = <<>> /\ queue # {}
  <2>1. r.tag = 0 /\ resp = <<>>
    BY DEF IInv, TypeOK, OneRequest
  <2>2. queue' = {}
    BY <1>1 DEF IInv, OneRequest
  <2> QED
    BY <2>1, <2>2, <1>1
<1>3. TypeOK'
  BY <1>a, <1>r, <1>2 DEF IInv, TypeOK, Aside
<1>4. tagsinuse' = tagsinuse /\ tagsinuse # 0
  BY <1>a, <1>2 DEF Aside, IInv, OneRequest, Nothing
<1>5. OneRequest'
  BY <1>4, <1>2 DEF OneRequest, Nothing
<1>6. \A q \in All : /\ Uses(q) => Sent(q)
                     /\ Sent(q) => reqsdone[0] # "ok"
  BY <1>2 DEF IInv, Requests, Nothing
<1>7. Requests'
  BY <1>6, <1>a, <1>r, <1>2 DEF IInv, Requests, Aside, Uses, Uncounted, Counted, Sent, Nothing
<1>8. Claimed'
  BY <1>a, <1>r DEF IInv, Claimed, Aside, InAta
<1> QED
  BY <1>3, <1>5, <1>7, <1>8, <1>a, AsideKeeps DEF IInv

\* The responses are read: the one tag is good when there was one.
LEMMA IntrDrainIInv ==
  ASSUME IInv, IntrDrain
  PROVE  IInv'
<1> USE SlotsAssumption DEF Tags
<1>a. Aside
  BY DEF IntrDrain, Aside, pool
<1>r. queue' = queue /\ edma' = edma /\ resp' = <<>>
  BY DEF IntrDrain
<1>1. reqsdone' \in [Tags -> Results]
  BY DEF IntrDrain, IInv, TypeOK, Results
<1>2. reqsdone'[0] = "ok" => resp # <<>> \/ reqsdone[0] = "ok"
  <2>1. resp = <<>> => Range(resp) = {}
    BY DEF Range
  <2> QED
    BY <2>1 DEF IntrDrain
<1>3. TypeOK'
  BY <1>a, <1>r, <1>1 DEF IInv, TypeOK, Aside
<1>4. OneRequest'
  BY <1>a, <1>r DEF IInv, OneRequest, Aside, Nothing
<1>5. resp # <<>> => queue = {}
  BY DEF IInv, OneRequest
<1>6. \A q \in All : pc[q] = "issue" => resp = <<>> /\ reqsdone[0] # "ok"
  BY DEF IInv, Requests, Uses, Counted, Sent, Nothing
<1>7. Requests'
  BY <1>a, <1>r, <1>2, <1>5, <1>6
     DEF IInv, Requests, Aside, Uses, Uncounted, Counted, Sent, Nothing
<1>8. Claimed'
  BY <1>a, <1>r DEF IInv, Claimed, Aside, InAta
<1> QED
  BY <1>3, <1>4, <1>7, <1>8, <1>a, AsideKeeps DEF IInv

LEMMA OtherIInv ==
  ASSUME IInv, HwError \/ HwAta \/ IntrEnter \/ IntrErr \/ IntrDma \/ IntrDev
  PROVE  IInv'
<1>t. edma \in BOOLEAN /\ reqsdone \in [Tags -> Results]
  BY DEF IInv, TypeOK
<1>0. ~edma => ~edma'
  BY DEF HwError, HwAta, IntrEnter, IntrErr, IntrDma, IntrDev, hw
<1>1. edma' \in BOOLEAN
  BY <1>t DEF HwError, HwAta, IntrEnter, IntrErr, IntrDma, IntrDev, hw
<1>2. Aside
  BY DEF Aside, HwError, HwAta, IntrEnter, IntrErr, IntrDma, IntrDev, pool, drv
<1>3. (queue' = queue \/ queue' = {}) /\ resp' = resp
  BY DEF HwError, HwAta, IntrEnter, IntrErr, IntrDma, IntrDev, hw
<1>4. reqsdone' = [t \in Tags |-> "fail"] \/ reqsdone' = reqsdone
  BY DEF HwError, HwAta, IntrEnter, IntrErr, IntrDma, IntrDev, drv
<1>5. reqsdone' \in [Tags -> Results] /\ (reqsdone'[0] # "ok" \/ reqsdone' = reqsdone)
  BY <1>4, <1>t, SlotsAssumption DEF Results, Tags
<1> QED
  BY <1>0, <1>1, <1>2, <1>3, <1>5, QuietIInv

-----------------------------------------------------------------------------
(* The steps of a process                                                  *)

\* q goes from one place to another; the processes and what they hold stay as
\* they were but for q.
Moved(q, l) ==
  /\ pc' \in [All -> Places]
  /\ \A p \in All \ {q} : pc'[p] = pc[p] /\ loc'[p] = loc[p]
  /\ pc'[q] = l

LEMMA Goes ==
  ASSUME IInv, NEW q \in All, NEW l \in Places, Goto(q, l),
         \/ loc' = loc
         \/ \E x : loc' = [loc EXCEPT ![q] = x]
  PROVE  Moved(q, l)
BY DEF IInv, TypeOK, Goto, Moved


\* reqsl is taken when it is free, or given up, by q alone.
LockStep(q) ==
  /\ InLock(q)' => reqsl' = q
  /\ reqsl' = reqsl \/ reqsl = NoProc \/ InLock(q)

LEMMA LockNext ==
  ASSUME IInv, NEW q \in All, NEW l \in Places, Moved(q, l), LockStep(q)
  PROVE  LockHeld'
BY ProcsAssumption DEF IInv, LockHeld, Moved, LockStep, InLock, All

\* Steps after which q does not use the tag, and that count nothing.
LEMMA AwayIInv ==
  ASSUME IInv, TypeOK', NEW q \in All, NEW l \in Places, Moved(q, l), LockStep(q),
         ~Uses(q)', InAta(q)' => tagsinuse = 0 /\ ~edma',
         tagsinuse' = tagsinuse, queue' = queue \/ queue' = {}, resp' = resp,
         reqsdone' = reqsdone, edma' = edma \/ ~edma'
  PROVE  IInv'
<1>1. OneUser'
  BY DEF IInv, OneUser, Moved, Uses, Uncounted, Counted
<1>2. CountRight'
  BY DEF IInv, CountRight, Moved, Uses, Uncounted, Counted
<1>3. OneRequest'
  BY DEF IInv, OneRequest, Nothing
<1>4. Requests'
  BY DEF IInv, Requests, Moved, Uses, Uncounted, Counted, Sent, Nothing
<1>5. Claimed'
  BY DEF IInv, Claimed, Moved, InAta
<1> QED
  BY <1>1, <1>2, <1>3, <1>4, <1>5, LockNext DEF IInv

\* Whoever uses the tag, or may take it, is alone with it.
Alone(q) == \A p \in All \ {q} : ~Uses(p) /\ ~InAta(p)

LEMMA UserAlone ==
  ASSUME IInv, NEW q \in All, Uses(q) \/ (tagsinuse = 0 /\ InLock(q))
  PROVE  Alone(q)
<1>1. Uncounted(q) => InLock(q) /\ tagsinuse = 0
  BY DEF Uncounted, InLock, IInv, CountRight
<1>2. Counted(q) => tagsinuse = 1
  BY DEF IInv, CountRight
<1>3. \A p \in All : (Uncounted(p) \/ InAta(p)) => InLock(p) /\ tagsinuse = 0
  BY DEF Uncounted, InAta, InLock, IInv, CountRight, Claimed
<1>4. \A p \in All : Counted(p) => tagsinuse = 1
  BY DEF IInv, CountRight
<1>5. \A p \in All : InLock(p) => reqsl = p
  BY DEF IInv, LockHeld
<1>6. CASE Counted(q)
  BY <1>2, <1>3, <1>6 DEF Alone, IInv, OneUser, Uses
<1>7. CASE InLock(q) /\ tagsinuse = 0
  BY <1>3, <1>4, <1>5, <1>7 DEF Alone, Uses
<1> QED
  BY <1>1, <1>6, <1>7 DEF Uses

\* What a user of the tag must itself be sure of.
Part(q) ==
  /\ Uncounted(q) => tagsinuse = 0
  /\ Counted(q) => tagsinuse = 1
  /\ pc[q] = "incstore" => loc[q].cnt = 0
  /\ pc[q] = "decstore" => loc[q].cnt = 1
  /\ ~Sent(q) => Nothing
  /\ Sent(q) => \A r \in queue : r.proc = q
  /\ Sent(q) /\ reqsdone[0] = "ok" => Nothing
  /\ pc[q] = "issue" => reqsdone[0] # "ok"

LEMMA UserIInv ==
  ASSUME IInv, TypeOK', NEW q \in All, NEW l \in Places, Moved(q, l), LockStep(q),
         Alone(q), ~InAta(q)', Uses(q)', Part(q)', OneRequest'
  PROVE  IInv'
<1>a. \A p \in All \ {q} : ~Uses(p)' /\ ~InAta(p)' /\ ~Sent(p)' /\ ~Counted(p)'
                           /\ ~Uncounted(p)' /\ pc'[p] \notin {"incstore", "decstore", "issue"}
  BY DEF Alone, Moved, Uses, InAta, Counted, Uncounted, Sent
<1>1. OneUser'
  BY <1>a DEF OneUser
<1>2. CountRight'
  BY <1>a DEF CountRight, Part
<1>4. Requests'
  BY <1>a DEF Requests, Part
<1>5. Claimed'
  BY <1>a DEF Claimed
<1> QED
  BY <1>1, <1>2, <1>4, <1>5, LockNext DEF IInv

-----------------------------------------------------------------------------
(* The actions                                                             *)

ProcStep(q) == Io(q) \/ Ctl(q) \/ Kill(q) \/ Work(q)

LEMMA ProcTypes ==
  ASSUME IInv, Depths = {1}, NEW q \in All, ProcStep(q)
  PROVE  TypeOK'
<1> DEFINE Locs == [tag : {0}, slot : Tags, cnt : {0, 1}, op : {"identify", "flush"}]
<1>t. /\ tags \in [Tags -> {0}] /\ tagnext = 0 /\ tagsinuse \in {0, 1} /\ ntags = 1
      /\ reqsl \in All \cup {NoProc} /\ reqnext \in Tags
      /\ reqsdone \in [Tags -> Results] /\ pc \in [All -> Places]
      /\ loc \in [All -> Locs]
      /\ queue \subseteq [tag : {0}, slot : Tags, proc : All] /\ resp \in Seq({0})
      /\ edma \in BOOLEAN
  BY DEF IInv, TypeOK
<1>z. 0 \in Tags
  BY SlotsAssumption DEF Tags
<1>1. pc' \in [All -> Places]
  <2>1. CASE Work(q)
    <3>1. CASE Lock(q) \/ TagTake(q) \/ CountLoad(q) \/ CountStore(q) \/ Arm(q)
      BY <3>1, <1>t DEF Lock, TagTake, CountLoad, CountStore, Arm, Goto, Places
    <3>2. CASE Issue(q) \/ Await(q) \/ Check(q) \/ Return(q) \/ Drain(q)
      BY <3>2, <1>t DEF Issue, Await, Check, Return, Drain, Goto, Places
    <3>3. CASE AtaBusy(q) \/ AtaClear(q) \/ AtaRegs(q) \/ AtaCmd(q) \/ AtaWake(q) \/ AtaEnd(q)
      BY <3>3, <1>t DEF AtaBusy, AtaClear, AtaRegs, AtaCmd, AtaWake, AtaEnd, Goto, Places
    <3> QED
      BY <2>1, <3>1, <3>2, <3>3 DEF Work
  <2>2. CASE Io(q) \/ Ctl(q) \/ Kill(q)
    BY <2>2, <1>t DEF Io, Ctl, Kill, Goto, Places
  <2> QED
    BY <2>1, <2>2 DEF ProcStep
<1>2. resp' = resp
  BY DEF ProcStep, Work, Io, Ctl, Kill, Lock, TagTake, CountLoad, CountStore, Arm,
         Issue, Await, Check, Return, Drain, AtaBusy, AtaClear, AtaRegs, AtaCmd,
         AtaWake, AtaEnd, hw
<1>3. edma' \in BOOLEAN
  BY <1>t DEF ProcStep, Work, Io, Ctl, Kill, Lock, TagTake, CountLoad, CountStore, Arm,
         Issue, Await, Check, Return, Drain, AtaBusy, AtaClear, AtaRegs, AtaCmd,
         AtaWake, AtaEnd, hw
<1>4. reqsl' \in All \cup {NoProc}
  BY <1>t DEF ProcStep, Work, Io, Ctl, Kill, Lock, TagTake, CountLoad, CountStore, Arm,
         Issue, Await, Check, Return, Drain, AtaBusy, AtaClear, AtaRegs, AtaCmd,
         AtaWake, AtaEnd, drv
<1>5. ntags' = 1
  BY <1>t, Depths = {1}
     DEF ProcStep, Work, Io, Ctl, Kill, Lock, TagTake, CountLoad, CountStore, Arm,
         Issue, Await, Check, Return, Drain, AtaBusy, AtaClear, AtaRegs, AtaCmd,
         AtaWake, AtaEnd, pool
<1>6. tagnext' = 0
  <2>1. (0 + 1) % 1 = 0
    OBVIOUS
  <2> QED
    BY <1>t, <2>1
       DEF ProcStep, Work, Io, Ctl, Kill, Lock, TagTake, CountLoad, CountStore, Arm,
           Issue, Await, Check, Return, Drain, AtaBusy, AtaClear, AtaRegs, AtaCmd,
           AtaWake, AtaEnd, pool
<1>7. reqsdone' \in [Tags -> Results]
  BY <1>t DEF ProcStep, Work, Io, Ctl, Kill, Lock, TagTake, CountLoad, CountStore, Arm,
         Issue, Await, Check, Return, Drain, AtaBusy, AtaClear, AtaRegs, AtaCmd,
         AtaWake, AtaEnd, drv, Results
<1>8. reqnext' \in Tags
  <2>1. (reqnext + 1) % NSlots \in Tags
    BY <1>t, SlotsAssumption DEF Tags
  <2> QED
    BY <1>t, <2>1
       DEF ProcStep, Work, Io, Ctl, Kill, Lock, TagTake, CountLoad, CountStore, Arm,
         Issue, Await, Check, Return, Drain, AtaBusy, AtaClear, AtaRegs, AtaCmd,
         AtaWake, AtaEnd, drv
<1>9. tags' \in [Tags -> {0}]
  <2>1. CASE tags' = tags
    BY <2>1, <1>t
  <2>2. CASE Return(q)
    BY <2>2, <1>t DEF Return
  <2>3. CASE AtaEnd(q) /\ tags' = [i \in Tags |-> IF i < ntags' THEN i ELSE tags[i]]
    BY <2>3, <1>t, <1>5 DEF Tags
  <2> QED
    BY <2>1, <2>2, <2>3
       DEF ProcStep, Work, Io, Ctl, Kill, Lock, TagTake, CountLoad, CountStore, Arm,
           Issue, Await, Check, Drain, AtaBusy, AtaClear, AtaRegs, AtaCmd,
           AtaWake, AtaEnd, pool
<1>10. queue' \subseteq [tag : {0}, slot : Tags, proc : All]
  <2>1. CASE Issue(q)
    <3>1. loc[q].tag = 0 /\ loc[q].slot \in Tags
      BY <1>t
    <3> QED
      BY <2>1, <3>1, <1>t DEF Issue
  <2>2. CASE queue' = queue \/ queue' = {}
    BY <2>2, <1>t
  <2> QED
    BY <2>1, <2>2
       DEF ProcStep, Work, Io, Ctl, Kill, Lock, TagTake, CountLoad, CountStore, Arm,
           Await, Check, Return, Drain, AtaBusy, AtaClear, AtaRegs, AtaCmd,
           AtaWake, AtaEnd, hw
<1>11. loc' \in [All -> Locs]
  <2>0. loc[q] \in Locs /\ tags[tagnext] = 0
    BY <1>t, <1>z
  <2>1. TagTake(q) => loc' = [loc EXCEPT ![q] = [loc[q] EXCEPT !.tag = 0]]
    BY <2>0 DEF TagTake
  <2>2. CountLoad(q) => loc' = [loc EXCEPT ![q] = [loc[q] EXCEPT !.cnt = tagsinuse]]
    BY DEF CountLoad
  <2>3. Arm(q) => loc' = [loc EXCEPT ![q] = [loc[q] EXCEPT !.slot = reqnext]]
    BY DEF Arm
  <2>4. Ctl(q) => \E o \in {"identify", "flush"} :
                    loc' = [loc EXCEPT ![q] = [loc[q] EXCEPT !.op = o]]
    BY OpsAssumption DEF Ctl
  <2>5. \A o \in {"identify", "flush"} :
          /\ [loc[q] EXCEPT !.tag = 0] \in Locs
          /\ [loc[q] EXCEPT !.cnt = tagsinuse] \in Locs
          /\ [loc[q] EXCEPT !.slot = reqnext] \in Locs
          /\ [loc[q] EXCEPT !.op = o] \in Locs
    BY <2>0, <1>t
  <2>6. CASE TagTake(q) \/ CountLoad(q) \/ Arm(q) \/ Ctl(q)
    <3> HIDE DEF Locs
    <3>1. \E x \in Locs : loc' = [loc EXCEPT ![q] = x]
      BY <2>1, <2>2, <2>3, <2>4, <2>5, <2>6
    <3>2. loc \in [All -> Locs]
      BY <1>t
    <3> QED
      BY <3>1, <3>2
  <2>7. CASE loc' = loc
    BY <2>7, <1>t
  <2> QED
    BY <2>6, <2>7
       DEF ProcStep, Work, Io, Kill, Lock, CountStore,
           Issue, Await, Check, Return, Drain, AtaBusy, AtaClear, AtaRegs, AtaCmd,
           AtaWake, AtaEnd
<1>12. tagsinuse' \in {0, 1}
  <2>1. CASE CountStore(q)
    BY <2>1, <1>t DEF CountStore, At, IInv, CountRight
  <2>2. CASE tagsinuse' = tagsinuse
    BY <2>2, <1>t
  <2> QED
    BY <2>1, <2>2
       DEF ProcStep, Work, Io, Ctl, Kill, Lock, TagTake, CountLoad, Arm,
           Issue, Await, Check, Return, Drain, AtaBusy, AtaClear, AtaRegs, AtaCmd,
           AtaWake, AtaEnd, pool
<1> HIDE DEF Locs
<1>13. loc' \in [All -> Locs] => TypeOK'
  BY <1>1, <1>2, <1>3, <1>4, <1>5, <1>6, <1>7, <1>8, <1>9, <1>10, <1>12, <1>t DEF TypeOK, Locs
<1> QED
  BY <1>11, <1>13
\* The steps after which the process does not use the tag.
LEMMA AwayNext ==
  ASSUME IInv, Depths = {1}, NEW q \in All, ProcStep(q),
         \/ Io(q) \/ Ctl(q) \/ Kill(q) \/ Lock(q) \/ Drain(q) \/ AtaBusy(q) \/ AtaClear(q)
         \/ AtaRegs(q) \/ AtaCmd(q) \/ AtaWake(q) \/ AtaEnd(q)
         \/ (Check(q) /\ reqsdone[loc[q].tag] # "ok")
  PROVE  IInv'
<1> DEFINE Away == {"idle", "lock", "tagwait", "claim", "drain", "ata", "clear", "regs",
                    "atawait", "atacheck"}
<1>t. TypeOK'
  BY ProcTypes
<1>0. PICK l \in Away : Goto(q, l)
  <2>1. CASE Lock(q) \/ Drain(q) \/ AtaBusy(q) \/ AtaClear(q) \/ AtaRegs(q)
    BY <2>1 DEF Lock, Drain, AtaBusy, AtaClear, AtaRegs
  <2>2. CASE AtaCmd(q) \/ AtaWake(q) \/ AtaEnd(q) \/ Io(q) \/ Ctl(q) \/ Kill(q)
    BY <2>2 DEF AtaCmd, AtaWake, AtaEnd, Io, Ctl, Kill
  <2>3. CASE Check(q) /\ reqsdone[loc[q].tag] # "ok"
    BY <2>3 DEF Check
  <2> QED
    BY <2>1, <2>2, <2>3
<1>1. Moved(q, l)
  <2>1. l \in Places
    BY DEF Places
  <2>2. loc' = loc \/ \E x : loc' = [loc EXCEPT ![q] = x]
    BY DEF Io, Ctl, Kill, Lock, Drain, AtaBusy, AtaClear, AtaRegs, AtaCmd, AtaWake,
           AtaEnd, Check
  <2> QED
    BY <2>1, <2>2, <1>0, Goes
<1>2. pc'[q] = l
  BY <1>1 DEF Moved
<1>2a. \A m : Goto(q, m) => l = m
  BY <1>0, <1>2 DEF Goto, IInv, TypeOK
<1>ty. pc[q] \in Places /\ (InLock(q) => reqsl = q)
  BY DEF IInv, TypeOK, LockHeld
<1>3. LockStep(q)
  <2>1. InLock(q)' <=> l \in {"tagwait", "drain", "ata", "clear", "regs", "atawait", "atacheck"}
    BY <1>2 DEF InLock
  <2>3. CASE Lock(q) \/ Drain(q) \/ AtaBusy(q) \/ AtaClear(q) \/ AtaRegs(q)
    BY <2>1, <2>3, <1>2a, <1>ty DEF Lock, Drain, AtaBusy, AtaClear, AtaRegs, At, drv,
            LockStep, InLock
  <2>4. CASE AtaCmd(q) \/ AtaWake(q) \/ AtaEnd(q)
    BY <2>1, <2>4, <1>2a, <1>ty DEF AtaCmd, AtaWake, AtaEnd, At, drv, LockStep, InLock
  <2>5. CASE Io(q) \/ Ctl(q) \/ Kill(q)
    BY <2>1, <2>5, <1>2a, <1>ty DEF Io, Ctl, Kill, At, drv, LockStep, InLock
  <2>6. CASE Check(q) /\ reqsdone[loc[q].tag] # "ok"
    BY <2>1, <2>6, <1>2a, <1>ty DEF Check, At, drv, LockStep, InLock
  <2> QED
    BY <2>3, <2>4, <2>5, <2>6
<1>4. ~Uses(q)'
  BY <1>2 DEF Uses, Uncounted, Counted
<1>5. InAta(q)' => tagsinuse = 0 /\ ~edma'
  <2>1. InAta(q)' <=> l \in {"ata", "clear", "regs", "atawait", "atacheck"}
    BY <1>2 DEF InAta
  <2>2. InAta(q) => tagsinuse = 0 /\ ~edma
    BY DEF IInv, Claimed
  <2>3. CASE Lock(q) \/ Drain(q) \/ AtaBusy(q) \/ AtaClear(q) \/ AtaRegs(q)
    BY <2>1, <2>2, <2>3, <1>2a DEF Lock, Drain, AtaBusy, AtaClear, AtaRegs, At, hw, InAta
  <2>4. CASE AtaCmd(q) \/ AtaWake(q) \/ AtaEnd(q)
    BY <2>1, <2>2, <2>4, <1>2a DEF AtaCmd, AtaWake, AtaEnd, At, hw, InAta
  <2>5. CASE Io(q) \/ Ctl(q) \/ Kill(q) \/ (Check(q) /\ reqsdone[loc[q].tag] # "ok")
    BY <2>1, <2>2, <2>5, <1>2a DEF Io, Ctl, Kill, Check, At, hw, InAta
  <2> QED
    BY <2>3, <2>4, <2>5
<1>6. /\ tagsinuse' = tagsinuse /\ (queue' = queue \/ queue' = {}) /\ resp' = resp
      /\ reqsdone' = reqsdone /\ (edma' = edma \/ ~edma')
  BY DEF Io, Ctl, Kill, Lock, Drain, AtaBusy, AtaClear, AtaRegs, AtaCmd, AtaWake,
         AtaEnd, Check, pool, drv, hw
<1>7. l \in Places
  BY DEF Places
<1> HIDE DEF Away
<1> QED
  BY <1>t, <1>1, <1>3, <1>4, <1>5, <1>6, <1>7, AwayIInv
\* The steps that use the tag and keep it.
LEMMA UserNext ==
  ASSUME IInv, Depths = {1}, NEW q \in All, ProcStep(q),
         \/ TagTake(q) \/ CountLoad(q) \/ (CountStore(q) /\ pc[q] = "incstore")
         \/ Arm(q) \/ Issue(q) \/ Await(q) \/ Return(q)
         \/ (Check(q) /\ reqsdone[loc[q].tag] = "ok")
  PROVE  IInv'
<1> DEFINE Using == {"inc", "incstore", "decstore", "arm", "issue", "await", "check",
                     "return", "dec"}
<1>t. TypeOK'
  BY ProcTypes
<1>ty. /\ pc \in [All -> Places] /\ tagsinuse \in {0, 1} /\ ntags = 1
       /\ loc[q].tag = 0 /\ loc[q] \in [tag : {0}, slot : Tags, cnt : {0, 1},
                                        op : {"identify", "flush"}]
       /\ reqsdone \in [Tags -> Results] /\ 0 \in Tags
  BY SlotsAssumption DEF IInv, TypeOK, Tags
<1>0. PICK l \in Using : Goto(q, l)
  BY DEF TagTake, CountLoad, CountStore, Arm, Issue, Await, Return, Check, At
<1>1. Moved(q, l)
  <2>1. l \in Places
    BY DEF Places
  <2>2. loc' = loc \/ \E x : loc' = [loc EXCEPT ![q] = x]
    BY DEF TagTake, CountLoad, CountStore, Arm, Issue, Await, Return, Check
  <2> QED
    BY <2>1, <2>2, <1>0, Goes
<1>2. pc'[q] = l
  BY <1>1 DEF Moved
<1>2a. \A m : Goto(q, m) => l = m
  BY <1>0, <1>2, <1>ty DEF Goto
<1>k. InLock(q) => reqsl = q
  BY DEF IInv, LockHeld
<1>3. LockStep(q)
  <2>1. InLock(q)' <=> l \in {"inc", "incstore", "arm", "issue"}
    BY <1>2 DEF InLock
  <2>2. CASE TagTake(q) \/ CountLoad(q) \/ (CountStore(q) /\ pc[q] = "incstore") \/ Arm(q)
    BY <2>1, <2>2, <1>2a, <1>k
       DEF TagTake, CountLoad, CountStore, Arm, At, drv, LockStep, InLock
  <2>3. CASE \/ Issue(q) \/ Await(q) \/ Return(q)
             \/ (Check(q) /\ reqsdone[loc[q].tag] = "ok")
    BY <2>1, <2>3, <1>2a, <1>k DEF Issue, Await, Return, Check, At, drv, LockStep, InLock
  <2> QED
    BY <2>2, <2>3
<1>4. Alone(q)
  <2>1. TagTake(q) => InLock(q) /\ tagsinuse = 0
    BY <1>ty DEF TagTake, At, InLock
  <2>2. ~TagTake(q) => Uses(q)
    BY DEF CountLoad, CountStore, Arm, Issue, Await, Return, Check, At, Uses, Uncounted,
           Counted
  <2> QED
    BY <2>1, <2>2, UserAlone
<1>5. ~InAta(q)' /\ Uses(q)'
  BY <1>2 DEF InAta, Uses, Uncounted, Counted
<1>p. /\ Uncounted(q) => tagsinuse = 0
      /\ Counted(q) => tagsinuse = 1
      /\ pc[q] = "incstore" => loc[q].cnt = 0
      /\ pc[q] = "decstore" => loc[q].cnt = 1
      /\ tagsinuse = 0 => Nothing
      /\ Uses(q) /\ ~Sent(q) => Nothing
      /\ Sent(q) => \A r \in queue : r.proc = q
      /\ Sent(q) /\ reqsdone[0] = "ok" => Nothing
      /\ pc[q] = "issue" => reqsdone[0] # "ok"
  BY DEF IInv, CountRight, OneRequest, Requests
<1>6. Part(q)' /\ OneRequest'
  <2>p. /\ Uncounted(q)' <=> l \in {"inc", "incstore"}
        /\ Counted(q)' <=> l \in {"arm", "issue", "await", "check", "return", "dec", "decstore"}
        /\ Sent(q)' <=> l \in {"await", "check"}
    BY <1>2 DEF Uncounted, Counted, Sent
  <2>o. /\ \A r, s \in queue : r = s
        /\ queue # {} => resp = <<>>
        /\ Len(resp) <= 1
    BY DEF IInv, OneRequest
  <2>1. CASE TagTake(q)
    <3>1. l = "inc" /\ tagsinuse = 0 /\ UNCHANGED <<tagsinuse, queue, resp>>
      BY <2>1, <1>2a, <1>ty DEF TagTake, hw
    <3> QED
      BY <3>1, <1>2, <2>p, <2>o, <1>p DEF Part, OneRequest, Nothing
  <2>2. CASE CountLoad(q)
    <3>1. UNCHANGED <<tagsinuse, queue, resp, reqsdone>> /\ loc'[q].cnt = tagsinuse
      BY <2>2, <1>ty DEF CountLoad, hw, pool, drv, IInv, TypeOK
    <3>2. \/ pc[q] = "inc" /\ l = "incstore"
          \/ pc[q] = "dec" /\ l = "decstore"
      BY <2>2, <1>2a DEF CountLoad, At
    <3> QED
      BY <3>1, <3>2, <1>2, <2>p, <2>o, <1>p
         DEF Part, OneRequest, Nothing, Uses, Uncounted, Counted, Sent
  <2>3. CASE CountStore(q) /\ pc[q] = "incstore"
    <3>1. l = "arm" /\ tagsinuse' = 1 /\ UNCHANGED <<queue, resp, reqsdone>>
      BY <2>3, <1>2a, <1>p DEF CountStore, At, hw, drv
    <3>2. Nothing
      BY <2>3, <1>p DEF Uses, Uncounted, Sent
    <3> QED
      BY <3>1, <3>2, <1>2, <2>p, <2>o DEF Part, OneRequest, Nothing
  <2>4. CASE Arm(q)
    <3>1. l = "issue" /\ pc[q] = "arm" /\ UNCHANGED <<tagsinuse, queue, resp>>
      BY <2>4, <1>2a DEF Arm, At, pool, hw
    <3>2. reqsdone'[0] = "timeout"
      BY <2>4, <1>ty DEF Arm
    <3>3. Nothing /\ tagsinuse = 1
      BY <3>1, <1>p DEF Uses, Counted, Sent
    <3> QED
      BY <3>1, <3>2, <3>3, <1>2, <2>p, <2>o DEF Part, OneRequest, Nothing
  <2>5. CASE Issue(q)
    <3>1. /\ l = "await" /\ pc[q] = "issue" /\ UNCHANGED <<tagsinuse, reqsdone, resp>>
          /\ queue' = queue \cup {[tag |-> loc[q].tag, slot |-> loc[q].slot, proc |-> q]}
      BY <2>5, <1>2a DEF Issue, At, pool
    <3>2. Nothing /\ tagsinuse = 1 /\ reqsdone[0] # "ok"
      BY <3>1, <1>p DEF Uses, Counted, Sent
    <3> QED
      BY <3>1, <3>2, <1>2, <2>p, <2>o DEF Part, OneRequest, Nothing
  <2>6. CASE Await(q)
    <3>1. /\ l = "check" /\ pc[q] = "await"
          /\ UNCHANGED <<tagsinuse, queue, reqsdone, resp>>
      BY <2>6, <1>2a DEF Await, At, pool, drv
    <3> QED
      BY <3>1, <1>2, <2>p, <2>o, <1>p DEF Part, OneRequest, Nothing, Counted, Sent
  <2>7. CASE Return(q)
    <3>1. /\ l = "dec" /\ pc[q] = "return"
          /\ UNCHANGED <<tagsinuse, queue, reqsdone, resp>>
      BY <2>7, <1>2a DEF Return, At, hw, drv
    <3> QED
      BY <3>1, <1>2, <2>p, <2>o, <1>p DEF Part, OneRequest, Nothing, Uses, Counted, Sent
  <2>8. CASE Check(q) /\ reqsdone[loc[q].tag] = "ok"
    <3>1. /\ l = "return" /\ pc[q] = "check" /\ reqsdone[0] = "ok"
          /\ UNCHANGED <<tagsinuse, queue, reqsdone, resp>>
      BY <2>8, <1>2a, <1>ty DEF Check, At, pool, hw, drv
    <3> QED
      BY <3>1, <1>2, <2>p, <2>o, <1>p DEF Part, OneRequest, Nothing, Counted, Sent
  <2> QED
    BY <2>1, <2>2, <2>3, <2>4, <2>5, <2>6, <2>7, <2>8
<1>7. l \in Places
  BY DEF Places
<1> HIDE DEF Using
<1> QED
  BY <1>t, <1>1, <1>3, <1>4, <1>5, <1>6, <1>7, UserIInv

\* tagsinuse-- ends the use of the tag.
LEMMA GiveBack ==
  ASSUME IInv, Depths = {1}, NEW q \in All, ProcStep(q), CountStore(q), pc[q] = "decstore"
  PROVE  IInv'
<1>t. TypeOK'
  BY ProcTypes
<1>0. /\ Goto(q, "idle") /\ tagsinuse' = loc[q].cnt - 1
      /\ UNCHANGED <<reqsl, reqsdone, loc, queue, resp, edma>>
  BY DEF CountStore, At, drv, hw
<1>1. Moved(q, "idle") /\ "idle" \in Places
  BY <1>0, Goes DEF Places
<1>2. Alone(q) /\ Nothing /\ tagsinuse' = 0
  BY <1>0, UserAlone DEF Uses, Counted, Sent, IInv, CountRight, Requests
<1>3. \A p \in All : ~Uses(p)' /\ ~Counted(p)' /\ ~InAta(p)' /\ ~Sent(p)'
                     /\ pc'[p] \notin {"incstore", "decstore", "issue"}
  BY <1>1, <1>2 DEF Moved, Alone, Uses, Counted, Uncounted, InAta, Sent
<1>4. LockStep(q)
  BY <1>0, <1>1 DEF LockStep, Moved, InLock
<1>5. LockHeld'
  BY <1>1, <1>4, LockNext
<1>6. OneUser' /\ CountRight' /\ Requests' /\ Claimed'
  BY <1>2, <1>3 DEF OneUser, CountRight, Requests, Claimed, Uses
<1>7. OneRequest'
  BY <1>0, <1>2 DEF OneRequest, Nothing
<1> QED
  BY <1>t, <1>5, <1>6, <1>7 DEF IInv

\* satastart's own steps.
LEMMA StartIInv ==
  ASSUME IInv, Start
  PROVE  IInv'
<1> DEFINE l == pc'[Kproc]
<1>k. Kproc \in All
  BY DEF All
<1>0. /\ Goto(Kproc, "reset") \/ Goto(Kproc, "claim") \/ Goto(Kproc, "idle")
      /\ pc[Kproc] \in {"idle", "reset"}
      /\ UNCHANGED <<tags, tagnext, tagsinuse, ntags, reqsl, reqnext, reqsdone, loc, resp, edma>>
      /\ queue' = queue \/ queue' = {}
  BY DEF Start, StartTake, StartReset, At, hw, pool, drv
<1>1. l \in {"reset", "claim", "idle"} /\ Goto(Kproc, l)
  BY <1>0, <1>k DEF Goto, IInv, TypeOK
<1>2. l \in Places
  BY <1>1 DEF Places
<1>3. Moved(Kproc, l)
  BY <1>0, <1>1, <1>2, <1>k, Goes
<1>4. TypeOK'
  BY <1>0, <1>3 DEF IInv, TypeOK, Moved
<1>5. LockStep(Kproc) /\ ~Uses(Kproc)' /\ ~InAta(Kproc)'
  BY <1>0, <1>1 DEF LockStep, InLock, Uses, Counted, Uncounted, InAta
<1> HIDE DEF l
<1> QED
  BY <1>0, <1>k, <1>2, <1>3, <1>4, <1>5, AwayIInv

LEMMA NextIInv == IInv /\ Depths = {1} /\ [Next]_vars => IInv'
<1> SUFFICES ASSUME IInv, Depths = {1}, [Next]_vars PROVE IInv'
  OBVIOUS
<1>1. ASSUME NEW q \in All, ProcStep(q) PROVE IInv'
  <2>1. CASE CountStore(q) /\ pc[q] = "decstore"
    BY <1>1, <2>1, GiveBack
  <2>2. CASE \/ TagTake(q) \/ CountLoad(q) \/ (CountStore(q) /\ pc[q] = "incstore")
             \/ Arm(q) \/ Issue(q) \/ Await(q) \/ Return(q)
             \/ (Check(q) /\ reqsdone[loc[q].tag] = "ok")
    BY <1>1, <2>2, UserNext
  <2>3. CASE \/ Io(q) \/ Ctl(q) \/ Kill(q) \/ Lock(q) \/ Drain(q) \/ AtaBusy(q)
             \/ AtaClear(q) \/ AtaRegs(q) \/ AtaCmd(q) \/ AtaWake(q) \/ AtaEnd(q)
             \/ (Check(q) /\ reqsdone[loc[q].tag] # "ok")
    BY <1>1, <2>3, AwayNext
  <2>4. CountStore(q) => pc[q] \in {"incstore", "decstore"}
    BY DEF CountStore, At
  <2> QED
    BY <1>1, <2>1, <2>2, <2>3, <2>4 DEF ProcStep, Work
<1>2. CASE Start
  BY <1>2, StartIInv
<1>3. CASE HwDone
  BY <1>3, HwDoneIInv
<1>4. CASE IntrDrain
  BY <1>4, IntrDrainIInv
<1>5. CASE HwError \/ HwAta \/ IntrEnter \/ IntrErr \/ IntrDma \/ IntrDev
  BY <1>5, OtherIInv
<1>6. CASE UNCHANGED vars
  <2>1. Aside /\ UNCHANGED <<queue, resp, reqsdone, edma>>
    BY <1>6 DEF vars, pool, drv, hw, Aside
  <2>2. reqsdone \in [Tags -> Results] /\ edma \in BOOLEAN
    BY DEF IInv, TypeOK
  <2> QED
    BY <2>1, <2>2, QuietIInv
<1>7. \A q \in Procs : q \in All
  BY DEF All
<1> QED
  BY <1>1, <1>2, <1>3, <1>4, <1>5, <1>6, <1>7
     DEF Next, Moves, Hardware, Handler, ProcStep

-----------------------------------------------------------------------------
(* The theorems                                                            *)

\* The tag is used by one process, tagsinuse counts it, and a request of a
\* process that is done with it is in neither queue.
THEOREM Invariance ==
  ASSUME Depths = {1}
  PROVE  Spec => []IInv
<1>1. Init => IInv
  BY InitIInv
<1>2. IInv /\ [Next]_vars => IInv'
  BY NextIInv
<1> QED
  BY <1>1, <1>2, PTL DEF Spec

\* devsata.c:107: with a depth of one, one process at a time holds a tag.
THEOREM OneHolder ==
  ASSUME Depths = {1}
  PROVE  Spec => []TagExclusive
<1>1. IInv => TagExclusive
  BY DEF IInv, OneUser, TagExclusive, HasTag, Uses, Uncounted, Counted, All
<1> QED
  BY <1>1, Invariance, PTL

\* devsata.c:547: an ATA command runs with the queues empty, no tag in use and
\* edma off, also when requests before it failed, timed out or were killed.
THEOREM ClaimsQuiet ==
  ASSUME Depths = {1}
  PROVE  Spec => []ClaimQuiet
<1>1. IInv => ClaimQuiet
  <2> SUFFICES ASSUME IInv, NEW q \in All, InAta(q)
               PROVE  queue = {} /\ ~edma /\ \A p \in Procs : ~HasTag(p)
    BY DEF ClaimQuiet, InAta
  <2>1. tagsinuse = 0 /\ ~edma /\ reqsl = q
    BY DEF IInv, Claimed, LockHeld, InLock, InAta
  <2>2. queue = {}
    BY <2>1 DEF IInv, OneRequest, Nothing
  <2>3. \A p \in Procs : p \in All /\ (HasTag(p) => Counted(p) \/ Uncounted(p))
    BY DEF All, HasTag, Counted, Uncounted
  <2>4. \A p \in All : ~Counted(p)
    BY <2>1 DEF IInv, CountRight
  <2>5. \A p \in All : Uncounted(p) => p = q
    BY <2>1 DEF IInv, LockHeld, InLock, Uncounted
  <2> QED
    BY <2>1, <2>2, <2>3, <2>4, <2>5 DEF InAta, Uncounted
<1> QED
  BY <1>1, Invariance, PTL

\* devsata.c:1096: the tag of a request that failed, timed out or was killed is
\* never given to another while the device still has the request.
THEOREM NoLateCompletion ==
  ASSUME Depths = {1}
  PROVE  Spec => []NoTagReuse
<1>1. IInv => NoTagReuse
  <2> SUFFICES ASSUME IInv, NEW q \in Procs, HasTag(q), NEW r \in queue
               PROVE  r.proc = q /\ pc[q] \in {"await", "check"}
    BY DEF NoTagReuse
  <2>1. Uses(q) /\ q \in All
    BY DEF HasTag, Uses, Counted, Uncounted, All
  <2>2. Sent(q)
    BY <2>1 DEF IInv, Requests, Nothing
  <2> QED
    BY <2>1, <2>2 DEF IInv, Requests, Sent
<1> QED
  BY <1>1, Invariance, PTL

-----------------------------------------------------------------------------
(* Completions                                                             *)

\* The reset that opens the interface is still to be made.
Opening == start = "reset" \/ pc[Kproc] = "reset"

\* In io, from qlock to the return of the tag.
InIo(q) == pc[q] \in {"lock", "tagwait"} \/ Uses(q)

NoFatal == faults \cap Fatal = {}

HandlerAt == hnd = [pc |-> hnd.pc, e |-> hnd.e, done |-> hnd.done]

\* Before a fatal fault no cause ends what the device does, the first reset comes
\* before the first identify, and a request that has left the device has its
\* result set or its response waiting.
MildCauses == ecause \cap Fatal = {} /\ hnd.e \cap Fatal = {}
OpensFirst ==
  Opening => ~valid /\ pc[Kproc] \in {"idle", "reset"} /\ \A q \in All : ~InIo(q)
FlushOnly ==
  \A q \in Procs : InAta(q) \/ pc[q] \in {"claim", "drain"} => loc[q].op = "flush"
ResultDue ==
  \A q \in All :
    pc[q] = "await" /\ reqsdone[0] = "timeout" /\ queue = {}
      => 0 \in Range(resp) /\ (dmadone \/ hnd.pc = "drain")

DueInv ==
  HandlerAt /\ FlushOnly /\ (NoFatal => MildCauses /\ OpensFirst /\ ResultDue)


LEMMA InitDue == Init => DueInv
<1> SUFFICES ASSUME Init PROVE DueInv
  OBVIOUS
<1>1. \A q \in All : pc[q] = "idle"
  BY DEF Init
<1>2. HandlerAt /\ MildCauses
  BY DEF Init, HandlerAt, MildCauses
<1>3. FlushOnly
  BY <1>1 DEF FlushOnly, InAta, All
<1>4. OpensFirst
  BY <1>1 DEF Init, OpensFirst, InIo, Uses, Counted, Uncounted, All
<1>5. ResultDue
  BY <1>1 DEF ResultDue
<1> QED
  BY <1>2, <1>3, <1>4, <1>5 DEF DueInv

\* A step of a process.
LEMMA ProcDue ==
  ASSUME IInv, DueInv, "identify" \notin CtlOps, NEW q \in All, ProcStep(q)
  PROVE  DueInv'
<1>t. /\ pc \in [All -> Places] /\ DOMAIN loc = All
      /\ \A p \in All : loc[p] \in [tag : {0}, slot : Tags, cnt : {0, 1},
                                    op : {"identify", "flush"}]
  BY DEF IInv, TypeOK
<1>1. /\ hnd' = hnd /\ resp' = resp /\ dmadone' = dmadone /\ start' = start
      /\ ecause' = ecause \/ ecause' = {}
  BY DEF ProcStep, Work, Io, Ctl, Kill, Lock, TagTake, CountLoad,
       CountStore, Arm, Issue, Await, Check, Return, Drain, AtaBusy, AtaClear, AtaRegs,
       AtaCmd, AtaWake, AtaEnd, Fault, pool, drv, hw
<1>2. faults \subseteq faults'
  BY DEF ProcStep, Work, Io, Ctl, Kill, Lock, TagTake, CountLoad,
       CountStore, Arm, Issue, Await, Check, Return, Drain, AtaBusy, AtaClear, AtaRegs,
       AtaCmd, AtaWake, AtaEnd, Fault, pool, drv, hw
<1>3. NoFatal' => NoFatal
  BY <1>2 DEF NoFatal
<1>4. /\ \A p \in All \ {q} : pc'[p] = pc[p] /\ loc'[p] = loc[p]
      /\ pc'[q] # "reset"
  BY <1>t DEF ProcStep, Work, Io, Ctl, Kill, Lock, TagTake, CountLoad,
       CountStore, Arm, Issue, Await, Check, Return, Drain, AtaBusy, AtaClear, AtaRegs,
       AtaCmd, AtaWake, AtaEnd, Goto, pool, drv, hw
<1>5. pc[q] = "idle" => valid \/ q \in Procs
  BY DEF ProcStep, Work, Io, Ctl, Kill, Lock, TagTake, CountLoad,
       CountStore, Arm, Issue, Await, Check, Return, Drain, AtaBusy, AtaClear, AtaRegs,
       AtaCmd, AtaWake, AtaEnd, At
<1>6. pc[q] # "reset"
  BY DEF ProcStep, Work, Io, Ctl, Kill, Lock, TagTake, CountLoad,
       CountStore, Arm, Issue, Await, Check, Return, Drain, AtaBusy, AtaClear, AtaRegs,
       AtaCmd, AtaWake, AtaEnd, At
<1>7. HandlerAt' /\ (NoFatal' => MildCauses')
  BY <1>1, <1>3 DEF DueInv, HandlerAt, MildCauses
<1>8. FlushOnly'
  <2>1. ASSUME q \in Procs, InAta(q)' \/ pc'[q] \in {"claim", "drain"}
        PROVE  loc'[q].op = "flush"
    <3>1. CASE Ctl(q)
      <4>1. PICK op \in CtlOps : loc' = [loc EXCEPT ![q].op = op]
        BY <3>1 DEF Ctl
      <4>2. op = "flush"
        BY OpsAssumption
      <4> QED
        BY <1>t, <4>1, <4>2
    <3>2. CASE ~Ctl(q)
      <4>1. InAta(q) \/ pc[q] \in {"claim", "drain"}
        BY <1>t, <2>1, <3>2 DEF ProcStep, Work, Io, Ctl, Kill, Lock, TagTake, CountLoad,
       CountStore, Arm, Issue, Await, Check, Return, Drain, AtaBusy, AtaClear, AtaRegs,
       AtaCmd, AtaWake, AtaEnd, At, Goto, InAta
      <4>2. loc'[q].op = loc[q].op
        BY <1>t, <3>2 DEF ProcStep, Work, Io, Ctl, Kill, Lock, TagTake, CountLoad,
       CountStore, Arm, Issue, Await, Check, Return, Drain, AtaBusy, AtaClear, AtaRegs,
       AtaCmd, AtaWake, AtaEnd, pool, drv, hw
      <4> QED
        BY <2>1, <4>1, <4>2 DEF DueInv, FlushOnly
    <3> QED
      BY <3>1, <3>2
  <2>2. ASSUME NEW p \in Procs, p # q, InAta(p)' \/ pc'[p] \in {"claim", "drain"}
        PROVE  loc'[p].op = "flush"
    <3>1. p \in All
      BY DEF All
    <3> QED
      BY <1>4, <2>2, <3>1 DEF DueInv, FlushOnly, InAta
  <2> QED
    BY <2>1, <2>2 DEF FlushOnly
<1>9. ASSUME NoFatal', Opening' PROVE OpensFirst'
  <2>k. Kproc \in All
    BY DEF All
  <2>1. Opening
    BY <1>1, <1>4, <1>9, <2>k DEF Opening
  <2>2. ~valid /\ pc[Kproc] \in {"idle", "reset"} /\ \A p \in All : ~InIo(p)
    BY <1>3, <1>9, <2>1 DEF DueInv, OpensFirst
  <2>3. q # Kproc /\ q \in Procs
    BY <1>5, <1>6, <2>2, ProcsAssumption DEF All
  <2>4. ~InIo(q)'
    <3>1. InIo(q)' => InIo(q) \/ valid
      BY <1>t DEF ProcStep, Work, Io, Ctl, Kill, Lock, TagTake, CountLoad,
       CountStore, Arm, Issue, Await, Check, Return, Drain, AtaBusy, AtaClear, AtaRegs,
       AtaCmd, AtaWake, AtaEnd, At, Goto, InIo, Uses, Counted, Uncounted
    <3> QED
      BY <2>2, <3>1
  <2>5. valid' = valid
    <3>1. CASE AtaEnd(q)
      <4>1. loc[q].op = "flush"
        BY <2>3, <3>1 DEF AtaEnd, At, DueInv, FlushOnly, InAta
      <4> QED
        BY <3>1, <4>1 DEF AtaEnd
    <3>2. CASE ~AtaEnd(q)
      BY <3>2 DEF ProcStep, Work, Io, Ctl, Kill, Lock, TagTake, CountLoad,
       CountStore, Arm, Issue, Await, Check, Return, Drain, AtaBusy, AtaClear, AtaRegs,
       AtaCmd, AtaWake, AtaEnd, pool, drv, hw
    <3> QED
      BY <3>1, <3>2
  <2>6. \A p \in All : ~InIo(p)'
    BY <1>4, <2>2, <2>4 DEF InIo, Uses, Counted, Uncounted
  <2> QED
    BY <1>4, <2>k, <2>2, <2>3, <2>5, <2>6 DEF OpensFirst
<1>10. ASSUME NoFatal', NEW p \in All, pc'[p] = "await", reqsdone'[0] = "timeout", queue' = {}
       PROVE  0 \in Range(resp) /\ (dmadone \/ hnd.pc = "drain")
  <2>1. ~Issue(q)
    BY <1>10 DEF Issue
  <2>2. pc[p] = "await"
    <3>1. p = q => pc[q] = "await"
      BY <1>t, <1>10, <2>1 DEF ProcStep, Work, Io, Ctl, Kill, Lock, TagTake, CountLoad,
       CountStore, Arm, Issue, Await, Check, Return, Drain, AtaBusy, AtaClear, AtaRegs,
       AtaCmd, AtaWake, AtaEnd, At, Goto
    <3> QED
      BY <1>4, <1>10, <3>1
  <2>3. Counted(p) /\ tagsinuse = 1
    BY <2>2 DEF Counted, IInv, CountRight
  <2>4. ~Arm(q) /\ ~Drain(q)
    <3>1. Arm(q) => Uses(q) /\ pc[q] # "await"
      BY DEF Arm, At, Uses, Counted
    <3>2. Uses(q) => q = p
      BY <2>3 DEF IInv, OneUser, Uses
    <3>3. Drain(q) => tagsinuse = 0
      BY DEF Drain
    <3> QED
      BY <2>2, <2>3, <3>1, <3>2, <3>3
  <2>5. reqsdone' = reqsdone /\ queue' = queue
    BY <2>1, <2>4 DEF ProcStep, Work, Io, Ctl, Kill, Lock, TagTake, CountLoad,
       CountStore, Arm, Issue, Await, Check, Return, Drain, AtaBusy, AtaClear, AtaRegs,
       AtaCmd, AtaWake, AtaEnd, pool, drv, hw
  <2> QED
    BY <1>3, <1>10, <2>2, <2>5 DEF DueInv, ResultDue
<1>11. NoFatal' => ResultDue'
  BY <1>1, <1>10 DEF ResultDue
<1> QED
  BY <1>7, <1>8, <1>9, <1>11 DEF DueInv, OpensFirst

\* satastart makes its reset before anything is asked for.
LEMMA StartDue ==
  ASSUME IInv, DueInv, Start
  PROVE  DueInv'
<1>t. pc \in [All -> Places] /\ Kproc \in All /\ Kproc \notin Procs
  BY ProcsAssumption DEF IInv, TypeOK, All
<1>1. /\ hnd' = hnd /\ resp' = resp /\ dmadone' = dmadone /\ valid' = valid /\ faults' = faults
      /\ loc' = loc /\ reqsdone' = reqsdone
  BY DEF Start, StartTake, StartReset, pool, drv, hw
<1>2. \A p \in All \ {Kproc} : pc'[p] = pc[p]
  BY <1>t DEF Start, StartTake, StartReset, Goto
<1>3. Opening' => Opening /\ pc'[Kproc] \in {"idle", "reset"}
  BY <1>t DEF Start, StartTake, StartReset, Goto, At, Opening
<1>4. pc'[Kproc] \in {"idle", "reset", "claim"}
  BY <1>t DEF Start, StartTake, StartReset, Goto
<1>5. FlushOnly'
  BY <1>1, <1>2, <1>t DEF DueInv, FlushOnly, InAta, All
<1>6. NoFatal' => MildCauses'
  <2>1. ecause' \subseteq ecause \cup {"devcon"}
    BY DEF Start, StartTake, StartReset, hw
  <2> QED
    BY <1>1, <2>1 DEF DueInv, NoFatal, MildCauses, Fatal
<1>7. NoFatal' => OpensFirst'
  BY <1>1, <1>2, <1>3, <1>4 DEF DueInv, NoFatal, OpensFirst, InIo, Uses, Counted, Uncounted
<1>8. ASSUME NoFatal', NEW p \in All, pc'[p] = "await", reqsdone'[0] = "timeout", queue' = {}
      PROVE  0 \in Range(resp) /\ (dmadone \/ hnd.pc = "drain")
  <2>1. pc[p] = "await" /\ NoFatal
    BY <1>1, <1>2, <1>4, <1>8 DEF NoFatal
  <2>2. ~StartReset
    BY <2>1 DEF StartReset, At, DueInv, OpensFirst, Opening, InIo, Uses, Counted
  <2>3. queue' = queue
    BY <2>2 DEF Start, StartTake, hw
  <2> QED
    BY <1>1, <1>8, <2>1, <2>3 DEF DueInv, ResultDue
<1>9. NoFatal' => ResultDue'
  BY <1>1, <1>8 DEF ResultDue
<1> QED
  BY <1>1, <1>5, <1>6, <1>7, <1>9 DEF DueInv, HandlerAt

\* The device and the handler.
LEMMA AsideDue ==
  ASSUME IInv, DueInv,
         HwDone \/ HwAta \/ HwError \/ IntrEnter \/ IntrErr \/ IntrDma \/ IntrDrain \/ IntrDev
  PROVE  DueInv'
<1>t. reqsdone \in [Tags -> Results] /\ resp \in Seq({0}) /\ 0 \in Tags
      /\ queue \subseteq [tag : {0}, slot : Tags, proc : All]
  BY SlotsAssumption DEF IInv, TypeOK, Tags
<1>1. pc' = pc /\ loc' = loc /\ valid' = valid /\ faults \subseteq faults'
  BY DEF HwDone, HwAta, HwError, IntrEnter, IntrErr, IntrDma, IntrDrain, IntrDev, Fault,
         pool, drv, hw
<1>2. NoFatal' => NoFatal
  BY <1>1 DEF NoFatal
<1>3. FlushOnly'
  BY <1>1 DEF DueInv, FlushOnly, InAta
<1>4. HandlerAt'
  BY DEF HwDone, HwAta, HwError, IntrEnter, IntrErr, IntrDma, IntrDrain, IntrDev,
         DueInv, HandlerAt
<1>5. NoFatal' => MildCauses'
  <2>1. CASE HwError
    BY <1>2, <2>1 DEF HwError, Fault, DueInv, NoFatal, MildCauses
  <2>2. CASE IntrEnter
    <3>1. "transint" \notin Fatal
      BY DEF Fatal
    <3> QED
      BY <1>2, <2>2, <3>1 DEF IntrEnter, Causes, DueInv, MildCauses, hw
  <2>3. CASE HwDone \/ HwAta \/ IntrErr \/ IntrDma \/ IntrDrain \/ IntrDev
    <3>1. (ecause' = ecause \/ ecause' = {}) /\ hnd'.e = hnd.e
      BY <2>3 DEF HwDone, HwAta, IntrErr, IntrDma, IntrDrain, IntrDev, DueInv, HandlerAt
    <3> QED
      BY <1>2, <3>1 DEF DueInv, MildCauses
  <2> QED
    BY <2>1, <2>2, <2>3
<1>6. NoFatal' => OpensFirst'
  <2>1. ASSUME NoFatal PROVE start' = "reset" => start = "reset"
    <3>1. CASE IntrErr
      <4>1. "selfdis" \notin hnd.e /\ "devdis" \notin hnd.e
        BY <2>1 DEF DueInv, MildCauses, Fatal
      <4> QED
        BY <3>1, <4>1 DEF IntrErr, Kicked
    <3>2. CASE ~IntrErr
      BY <3>2 DEF HwDone, HwAta, HwError, IntrEnter, IntrDma, IntrDrain, IntrDev, drv
    <3> QED
      BY <3>1, <3>2
  <2> QED
    BY <1>1, <1>2, <2>1 DEF DueInv, OpensFirst, Opening, InIo, Uses, Counted, Uncounted
<1>7. ASSUME NoFatal', NEW p \in All, pc'[p] = "await", reqsdone'[0] = "timeout", queue' = {}
      PROVE  0 \in Range(resp') /\ (dmadone' \/ hnd'.pc = "drain")
  <2>1. pc[p] = "await" /\ NoFatal /\ MildCauses
    BY <1>1, <1>2, <1>7 DEF DueInv
  <2>2. CASE HwDone
    <3>1. PICK r \in queue : resp' = Append(resp, r.tag)
      BY <2>2 DEF HwDone
    <3>2. r.tag = 0
      BY <1>t
    <3>3. Len(resp) + 1 \in DOMAIN Append(resp, 0) /\ Append(resp, 0)[Len(resp) + 1] = 0
      BY <1>t
    <3>4. 0 \in Range(resp')
      BY <3>1, <3>2, <3>3 DEF Range
    <3> QED
      BY <2>2, <3>4 DEF HwDone
  <2>3. CASE IntrDrain
    <3>1. 0 \notin Range(resp) /\ reqsdone[0] = "timeout"
      BY <1>t, <1>7, <2>3 DEF IntrDrain
    <3> QED
      BY <1>7, <2>1, <2>3, <3>1 DEF IntrDrain, DueInv, ResultDue
  <2>4. CASE HwAta \/ HwError \/ IntrEnter \/ IntrErr \/ IntrDma \/ IntrDev
    <3>1. queue' = queue /\ resp' = resp
      BY <2>1, <2>4, <1>7 DEF HwAta, HwError, IntrEnter, IntrErr, IntrDma, IntrDev, hw,
         Fault, NoFatal
    <3>2. reqsdone' = reqsdone
      BY <2>1, <2>4 DEF HwAta, HwError, IntrEnter, IntrErr, IntrDma, IntrDev, drv, MildCauses
    <3>3. 0 \in Range(resp) /\ (dmadone \/ hnd.pc = "drain")
      BY <1>7, <2>1, <3>1, <3>2 DEF DueInv, ResultDue
    <3>4. dmadone' \/ hnd'.pc = "drain"
      BY <2>4, <3>3 DEF HwAta, HwError, IntrEnter, IntrErr, IntrDma, IntrDev, hw, DueInv, HandlerAt
    <3> QED
      BY <3>1, <3>3, <3>4
  <2> QED
    BY <2>2, <2>3, <2>4
<1>8. NoFatal' => ResultDue'
  BY <1>7 DEF ResultDue
<1> QED
  BY <1>3, <1>4, <1>5, <1>6, <1>8 DEF DueInv

LEMMA DueHolds ==
  ASSUME Depths = {1}, "identify" \notin CtlOps
  PROVE  Spec => []DueInv
<1>1. IInv /\ DueInv /\ [Next]_vars => DueInv'
  <2> SUFFICES ASSUME IInv, DueInv, [Next]_vars PROVE DueInv'
    OBVIOUS
  <2>1. ASSUME NEW q \in All, ProcStep(q) PROVE DueInv'
    BY <2>1, ProcDue
  <2>2. CASE Start
    BY <2>2, StartDue
  <2>3. CASE HwDone \/ HwAta \/ HwError \/ IntrEnter \/ IntrErr \/ IntrDma \/ IntrDrain \/ IntrDev
    BY <2>3, AsideDue
  <2>4. CASE UNCHANGED vars
    BY <2>4 DEF vars, pool, drv, hw, DueInv, HandlerAt, MildCauses, NoFatal, OpensFirst, Opening,
       FlushOnly, ResultDue, InIo, InAta, Uses, Counted, Uncounted
  <2>5. \A q \in Procs : q \in All
    BY DEF All
  <2> QED
    BY <2>1, <2>2, <2>3, <2>4, <2>5 DEF Next, Moves, Hardware, Handler, ProcStep
<1>2. Spec => []IInv
  BY Invariance
<1> QED
  BY <1>1, <1>2, InitDue, PTL DEF Spec

\* devsata.c:411: what the device has completed is still to be read by the handler
\* while its process sleeps, until a fault; no identify is asked for by the ctl
\* file, so that the reset of satastart comes before the first request.
THEOREM CompletionsDue ==
  ASSUME Depths = {1}, "identify" \notin CtlOps
  PROVE  Spec => []CompletionDue
<1>1. IInv /\ DueInv => CompletionDue
  <2> SUFFICES ASSUME IInv, DueInv, NEW q \in Procs, NoFatal, pc[q] = "await",
                      reqsdone[loc[q].tag] = "timeout", \A r \in queue : r.proc # q
               PROVE  loc[q].tag \in Range(resp) /\ (dmadone \/ hnd.pc = "drain")
    BY DEF CompletionDue, NoFatal
  <2>1. q \in All /\ loc[q].tag = 0
    BY DEF All, IInv, TypeOK
  <2>2. queue = {}
    <3>1. \A r \in queue : r.proc = q
      BY <2>1 DEF IInv, Requests, Sent
    <3> QED
      BY <3>1
  <2> QED
    BY <2>1, <2>2 DEF DueInv, ResultDue
<1>2. Spec => []IInv
  BY Invariance
<1>3. Spec => []DueInv
  BY DueHolds
<1> QED
  BY <1>1, <1>2, <1>3, PTL

-----------------------------------------------------------------------------
(* No deadlock                                                             *)

NoFault == faults \subseteq {"devcon"}

\* A queued request is with a device that has edma on.  Without a fault who has
\* reqsl goes on to give it up, and a tag in use has a user: no request fails, so
\* that none keeps its tag.
WaitInv ==
  /\ queue # {} => edma
  /\ NoFault =>
       /\ reqsdone[0] # "fail"
       /\ \A q \in All : pc[q] = "check" => reqsdone[0] = "ok"
       /\ reqsl # NoProc => InLock(reqsl)
       /\ tagsinuse = 1 => \E q \in All : Counted(q)

LEMMA InitWait == Init => WaitInv
<1> SUFFICES ASSUME Init PROVE WaitInv
  OBVIOUS
<1>1. reqsdone[0] = "ok"
  BY SlotsAssumption DEF Init, Tags
<1>2. \A q \in All : pc[q] = "idle"
  BY DEF Init
<1> QED
  BY <1>1, <1>2 DEF Init, WaitInv

\* A step of a process but the kills: it takes the lock or gives it up, and counts
\* the tag as it takes it.
LEMMA WorkWait ==
  ASSUME IInv, WaitInv, NoFault, NEW q \in All, ProcStep(q), NoFault'
  PROVE  /\ reqsdone'[0] # "fail"
         /\ \A p \in All : pc'[p] = "check" => reqsdone'[0] = "ok"
         /\ reqsl' # NoProc => InLock(reqsl)'
         /\ tagsinuse' = 1 => \E p \in All : Counted(p)'
<1>t. /\ pc \in [All -> Places] /\ reqsdone \in [Tags -> Results] /\ 0 \in Tags
      /\ loc[q].tag = 0 /\ tagsinuse \in {0, 1} /\ loc[q].cnt \in {0, 1}
  BY SlotsAssumption DEF IInv, TypeOK, Tags
<1>f. "timeout" \notin faults' /\ "kill" \notin faults'
  BY DEF NoFault
<1>k. ~Kill(q)
  BY <1>f DEF Kill, Fault
<1>1. \A p \in All \ {q} : pc'[p] = pc[p]
  BY <1>t, <1>k DEF ProcStep, Work, Io, Ctl, Lock, TagTake, CountLoad,
       CountStore, Arm, Issue, Await, Check, Return, Drain, AtaBusy, AtaClear, AtaRegs,
       AtaCmd, AtaWake, AtaEnd, Goto
<1>2. reqsdone'[0] # "fail"
  <2>1. CASE Arm(q)
    BY <2>1, <1>t DEF Arm
  <2>2. CASE ~Arm(q)
    BY <2>2, <1>k DEF WaitInv, ProcStep, Work, Io, Ctl, Lock, TagTake, CountLoad,
       CountStore, Issue, Await, Check, Return, Drain, AtaBusy, AtaClear, AtaRegs,
       AtaCmd, AtaWake, AtaEnd, drv
  <2> QED
    BY <2>1, <2>2
<1>3. ASSUME NEW p \in All, pc'[p] = "check" PROVE reqsdone'[0] = "ok"
  <2>1. CASE Await(q) /\ p = q
    <3>1. reqsdone[0] # "timeout" /\ reqsdone' = reqsdone
      BY <2>1, <1>t, <1>f DEF Await, Fault, drv
    <3> QED
      BY <3>1, <1>t DEF WaitInv, Results
  <2>2. CASE ~(Await(q) /\ p = q)
    <3>1. pc[p] = "check" /\ p # q
      BY <1>1, <1>3, <2>2, <1>t, <1>k DEF ProcStep, Work, Io, Ctl, Lock, TagTake, CountLoad,
       CountStore, Arm, Issue, Await, Check, Return, Drain, AtaBusy, AtaClear, AtaRegs,
       AtaCmd, AtaWake, AtaEnd, Goto, At
    <3>2. ~Arm(q)
      BY <3>1 DEF IInv, OneUser, Uses, Counted, Arm, At
    <3>3. reqsdone' = reqsdone
      BY <3>2, <1>k DEF ProcStep, Work, Io, Ctl, Lock, TagTake, CountLoad,
       CountStore, Issue, Await, Check, Return, Drain, AtaBusy, AtaClear, AtaRegs,
       AtaCmd, AtaWake, AtaEnd, drv
    <3> QED
      BY <3>1, <3>3 DEF WaitInv
  <2> QED
    BY <2>1, <2>2
<1>4. ASSUME reqsl' # NoProc PROVE InLock(reqsl)'
  <2>1. CASE reqsl' = q
    <3>1. CASE Lock(q)
      BY <3>1, <2>1, <1>t DEF Lock, Goto, InLock
    <3>2. CASE ~Lock(q)
      <4>1. reqsl' = reqsl \/ reqsl' = NoProc
        BY <3>2, <1>k DEF ProcStep, Work, Io, Ctl, TagTake, CountLoad,
           CountStore, Arm, Issue, Await, Check, Return, Drain, AtaBusy, AtaClear, AtaRegs,
           AtaCmd, AtaWake, AtaEnd, drv
      <4>2. InLock(q) /\ reqsl = q
        BY <1>4, <2>1, <4>1 DEF WaitInv
      <4>3. InLock(q)'
        BY <1>4, <3>2, <4>2, <1>t, <1>k DEF ProcStep, Work, Io, Ctl, TagTake, CountLoad,
           CountStore, Arm, Issue, Await, Check, Return, Drain, AtaBusy, AtaClear, AtaRegs,
           AtaCmd, AtaWake, AtaEnd, Goto, At, InLock
      <4> QED
        BY <2>1, <4>3
    <3> QED
      BY <3>1, <3>2
  <2>2. CASE reqsl' # q
    <3>1. reqsl' = reqsl
      BY <1>4, <2>2, <1>k DEF ProcStep, Work, Io, Ctl, Lock, TagTake, CountLoad,
           CountStore, Arm, Issue, Await, Check, Return, Drain, AtaBusy, AtaClear, AtaRegs,
           AtaCmd, AtaWake, AtaEnd, drv
    <3>2. InLock(reqsl) /\ reqsl \in All
      BY <1>4, <3>1 DEF WaitInv, IInv, TypeOK
    <3> QED
      BY <1>1, <2>2, <3>1, <3>2 DEF InLock
  <2> QED
    BY <2>1, <2>2
<1>5. ASSUME tagsinuse' = 1 PROVE \E p \in All : Counted(p)'
  <2>1. CASE tagsinuse = 1
    <3>1. PICK p \in All : Counted(p)
      BY <2>1 DEF WaitInv
    <3>2. CASE p # q
      BY <3>1, <3>2, <1>1 DEF Counted
    <3>3. CASE p = q
      <4>1. pc[q] = "check" => reqsdone[0] = "ok"
        BY DEF WaitInv
      <4>2. pc[q] = "decstore" => loc[q].cnt = 1
        BY DEF IInv, CountRight
      <4>3. Counted(q)'
        <5>1. CASE CountStore(q)
          BY <1>5, <3>1, <3>3, <4>2, <5>1, <1>t DEF CountStore, At, Goto, Counted
        <5>2. CASE Check(q)
          BY <4>1, <5>2, <1>t DEF Check, At, Goto, Counted
        <5>3. CASE ~CountStore(q) /\ ~Check(q)
          BY <3>1, <3>3, <5>3, <1>t, <1>k DEF ProcStep, Work, Io, Ctl, Lock, TagTake, CountLoad,
             Arm, Issue, Await, Return, Drain, AtaBusy, AtaClear, AtaRegs,
             AtaCmd, AtaWake, AtaEnd, Goto, At, Counted
        <5> QED
          BY <5>1, <5>2, <5>3
      <4> QED
        BY <4>3
    <3> QED
      BY <3>2, <3>3
  <2>2. CASE tagsinuse = 0
    <3>1. CountStore(q) /\ At(q, "incstore") /\ Goto(q, "arm")
      <4>1. CountStore(q)
        BY <1>5, <2>2, <1>k DEF ProcStep, Work, Io, Ctl, Lock, TagTake, CountLoad,
           Arm, Issue, Await, Check, Return, Drain, AtaBusy, AtaClear, AtaRegs,
           AtaCmd, AtaWake, AtaEnd, pool
      <4>2. ~At(q, "decstore")
        BY <2>2 DEF At, IInv, CountRight, Counted
      <4> QED
        BY <4>1, <4>2 DEF CountStore
    <3> QED
      BY <3>1, <1>t DEF Goto, Counted
  <2> QED
    BY <1>t, <2>1, <2>2
<1> QED
  BY <1>2, <1>3, <1>4, <1>5

LEMMA ProcWait ==
  ASSUME IInv, WaitInv, NEW q \in All, ProcStep(q)
  PROVE  WaitInv'
<1>1. queue' # {} => edma'
  BY DEF WaitInv, ProcStep, Work, Io, Ctl, Kill, Lock, TagTake, CountLoad,
       CountStore, Arm, Issue, Await, Check, Return, Drain, AtaBusy, AtaClear, AtaRegs,
       AtaCmd, AtaWake, AtaEnd, hw
<1>2. faults \subseteq faults'
  BY DEF ProcStep, Work, Io, Ctl, Kill, Lock, TagTake, CountLoad,
       CountStore, Arm, Issue, Await, Check, Return, Drain, AtaBusy, AtaClear, AtaRegs,
       AtaCmd, AtaWake, AtaEnd, Fault, pool, drv, hw
<1>3. NoFault' => NoFault
  BY <1>2 DEF NoFault
<1> QED
  BY <1>1, <1>3, WorkWait DEF WaitInv

LEMMA StartWait ==
  ASSUME IInv, WaitInv, Start
  PROVE  WaitInv'
<1>t. pc \in [All -> Places] /\ Kproc \in All /\ reqsl \in All \cup {NoProc}
  BY DEF IInv, TypeOK, All
<1>1. /\ reqsl' = reqsl /\ reqsdone' = reqsdone /\ tagsinuse' = tagsinuse /\ faults' = faults
      /\ (queue' = queue \/ queue' = {}) /\ edma' = edma
  BY DEF Start, StartTake, StartReset, pool, drv, hw
<1>2. /\ \A p \in All \ {Kproc} : pc'[p] = pc[p]
      /\ pc[Kproc] \in {"idle", "reset"} /\ pc'[Kproc] \in {"idle", "reset", "claim"}
  BY <1>t DEF Start, StartTake, StartReset, Goto, At
<1> QED
  BY <1>t, <1>1, <1>2 DEF WaitInv, NoFault, InLock, Counted

LEMMA AsideWait ==
  ASSUME IInv, DueInv, WaitInv,
         HwDone \/ HwAta \/ HwError \/ IntrEnter \/ IntrErr \/ IntrDma \/ IntrDrain \/ IntrDev
  PROVE  WaitInv'
<1>t. 0 \in Tags
  BY SlotsAssumption DEF Tags
<1>1. pc' = pc /\ reqsl' = reqsl /\ tagsinuse' = tagsinuse /\ faults \subseteq faults'
  BY DEF HwDone, HwAta, HwError, IntrEnter, IntrErr, IntrDma, IntrDrain, IntrDev, Fault,
         pool, drv, hw
<1>2. NoFault' => NoFault
  BY <1>1 DEF NoFault
<1>3. queue' # {} => edma'
  <2>1. CASE HwError
    BY <2>1 DEF HwError, WaitInv, Fatal
  <2>2. CASE ~HwError
    BY <2>2 DEF WaitInv, HwDone, HwAta, IntrEnter, IntrErr, IntrDma, IntrDrain, IntrDev, hw
  <2> QED
    BY <2>1, <2>2
<1>4. NoFault => reqsdone'[0] = reqsdone[0] \/ reqsdone'[0] = "ok"
  <2>1. NoFault => hnd.e \cap Fatal = {}
    BY DEF NoFault, DueInv, NoFatal, MildCauses, Fatal
  <2> QED
    BY <1>t, <2>1 DEF HwDone, HwAta, HwError, IntrEnter, IntrErr, IntrDma, IntrDrain, IntrDev, drv
<1> QED
  BY <1>1, <1>2, <1>3, <1>4 DEF WaitInv, InLock, Counted

\* devsata.c: while no process can go on, and the device and the handler have nothing
\* to do, nobody waits: who has reqsl waits for a tag, whose user waits for a completion,
\* which is due.
LEMMA Waiting ==
  ASSUME IInv, DueInv, WaitInv
  PROVE  NoDeadlock
<1> SUFFICES ASSUME ~Movable, NoFault, \A q \in All : pc[q] \notin {"regs", "atawait"},
                    NEW q \in All, pc[q] # "idle"
             PROVE  FALSE
  BY DEF NoDeadlock, NoFault
<1>t. /\ \A p \in All : pc[p] \in Places /\ loc[p].tag = 0
      /\ tagsinuse \in {0, 1} /\ ntags = 1 /\ reqsl \in All \cup {NoProc}
  BY DEF IInv, TypeOK
<1>1. \A p \in All : \/ pc[p] = "idle"
                     \/ pc[p] \in {"lock", "claim"} /\ reqsl # NoProc
                     \/ pc[p] \in {"tagwait", "drain"} /\ tagsinuse = 1
                     \/ pc[p] = "await" /\ reqsdone[0] = "timeout"
  <2> SUFFICES ASSUME NEW p \in All
               PROVE  \/ pc[p] = "idle"
                      \/ pc[p] \in {"lock", "claim"} /\ reqsl # NoProc
                      \/ pc[p] \in {"tagwait", "drain"} /\ tagsinuse = 1
                      \/ pc[p] = "await" /\ reqsdone[0] = "timeout"
    OBVIOUS
  <2>1. ~Wakes(p)
    BY DEF Movable
  <2> QED
    BY <1>t, <2>1 DEF Wakes
<1>2. \A p \in All : pc[p] # "await"
  <2> SUFFICES ASSUME NEW p \in All, pc[p] = "await" PROVE FALSE
    OBVIOUS
  <2>1. reqsdone[0] = "timeout"
    BY <1>1
  <2>2. queue = {}
    BY DEF Movable, WaitInv
  <2>3. dmadone \/ hnd.pc = "drain"
    BY <2>1, <2>2 DEF DueInv, NoFault, NoFatal, Fatal, ResultDue
  <2> QED
    BY <2>3 DEF Movable
<1>3. tagsinuse # 1
  <2>1. \A p \in All : ~Counted(p)
    BY <1>1, <1>2 DEF Counted
  <2> QED
    BY <2>1 DEF WaitInv
<1>4. reqsl # NoProc
  BY <1>1, <1>2, <1>3
<1>5. InLock(reqsl) /\ reqsl \in All
  BY <1>t, <1>4 DEF WaitInv
<1> QED
  BY <1>1, <1>2, <1>3, <1>5 DEF InLock

\* devsata.c: reqsl, the tags and the sleeps never leave everyone waiting, without
\* a fault but reconnects of the device, and without an ATA command waiting for its
\* registers or its interrupt.
THEOREM NoDeadlocks ==
  ASSUME Depths = {1}, "identify" \notin CtlOps
  PROVE  Spec => []NoDeadlock
<1>1. IInv /\ DueInv /\ WaitInv /\ [Next]_vars => WaitInv'
  <2> SUFFICES ASSUME IInv, DueInv, WaitInv, [Next]_vars PROVE WaitInv'
    OBVIOUS
  <2>1. ASSUME NEW q \in All, ProcStep(q) PROVE WaitInv'
    BY <2>1, ProcWait
  <2>2. CASE Start
    BY <2>2, StartWait
  <2>3. CASE HwDone \/ HwAta \/ HwError \/ IntrEnter \/ IntrErr \/ IntrDma \/ IntrDrain \/ IntrDev
    BY <2>3, AsideWait
  <2>4. CASE UNCHANGED vars
    BY <2>4 DEF vars, pool, drv, hw, WaitInv, NoFault, InLock, Counted
  <2>5. \A q \in Procs : q \in All
    BY DEF All
  <2> QED
    BY <2>1, <2>2, <2>3, <2>4, <2>5 DEF Next, Moves, Hardware, Handler, ProcStep
<1>2. Spec => []IInv
  BY Invariance
<1>3. Spec => []DueInv
  BY DueHolds
<1> QED
  BY <1>1, <1>2, <1>3, InitWait, Waiting, PTL DEF Spec

=============================================================================
