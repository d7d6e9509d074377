--------------------------- MODULE XorPortsProofs ---------------------------
(***************************************************************************)
(* For any number of engines and processes: a port has one holder, an      *)
(* engine runs one memory init, whose value registers are its own, no      *)
(* caller wakes before its transfer has ended; and the driver implements   *)
(* PortPool.                                                               *)
(***************************************************************************)
EXTENDS XorPorts, TLAPS

\* The lock is held from the scan to Take and inside portput.
LockInv == \A q \in Procs : pc[q] \in {"scan", "take", "release"} <=> qlock = q

\* The sleeper on xor is asleep there.
WaiterInv == \A q \in Procs : waiter = q => pc[q] = "asleep"

\* The scan's choice stays good until Take: inuse changes under the lock only.
ChosenInv == \A q \in Procs : pc[q] = "take" => port[q] \in Candidates(kind[q])

\* A process has a port from the scan to portput, marked with its kind.
HeldInv ==
  \A q \in Procs :
    /\ pc[q] \in {"idle", "get", "scan", "dosleep", "asleep"} => port[q] = NoPort
    /\ pc[q] \in Holding \ {"killed"} => port[q] \in Ports
    /\ pc[q] \in Holding /\ port[q] # NoPort => inuse[port[q]] = kind[q]

\* A memory init that has been programmed owns its engine's registers.
InitvalInv ==
  \A q \in Procs :
    pc[q] \in Holding \ {"program"} /\ port[q] # NoPort /\ kind[q] = "meminit"
      => initval[engine(port[q])] = q

\* A port the hardware has nothing to do with.
Quiet(p) == ~active[p] /\ p \notin irq[engine(p)]

\* The hardware side: a port is quiet while free, while being programmed and
\* once done; a completion bit excludes a running transfer; the handler has
\* read bits that are still in the register.
QuietInv ==
  /\ \A p \in Ports : inuse[p] = "unused" => Quiet(p)
  /\ \A q \in Procs :
       /\ pc[q] \in {"program", "start"} => Quiet(port[q]) /\ ~done[port[q]]
       /\ pc[q] = "await" /\ done[port[q]] => Quiet(port[q])
       /\ pc[q] \in {"put", "release"} => Quiet(port[q])
  /\ \A p \in Ports : p \in irq[engine(p)] => ~active[p]
  /\ \A e \in Engines : \A p \in irq[e] : engine(p) = e
  /\ IF NotInHandler THEN intr.bits = {} ELSE intr.bits \subseteq irq[intr.engine]

IInv ==
  /\ TypeOK
  /\ LockInv
  /\ WaiterInv
  /\ ChosenInv
  /\ HeldInv
  /\ PortExclusive
  /\ MeminitExclusive
  /\ InitvalInv
  /\ QuietInv

-----------------------------------------------------------------------------
\* The two ports of an engine are each other's partner.
LEMMA PartnerLemma ==
  ASSUME NEW p \in Ports
  PROVE  /\ engine(p) \in Engines
         /\ partner(p) \in Ports
         /\ partner(p) # p
         /\ partner(partner(p)) = p
         /\ engine(partner(p)) = engine(p)
         /\ \A r \in Ports : engine(r) = engine(p) => r = p \/ r = partner(p)
BY NEngineAssumption DEF Ports, Engines, engine, partner

\* A port the scan may choose is free and, for a memory init, beside none.
LEMMA CandidatesLemma ==
  ASSUME NEW k \in {"other", "meminit"}, NEW p \in Candidates(k)
  PROVE  /\ p \in Ports
         /\ inuse[p] = "unused"
         /\ k = "meminit" => inuse[partner(p)] # "meminit"
BY DEF Candidates, meminitports

\* The value that stands for no port, or no engine, is none of them.
LEMMA NoneLemma == NoPort \notin Ports /\ NoEngine \notin Engines
BY NEngineAssumption DEF NoPort, Ports, NoEngine, Engines

\* xorlink leaves the driver in a state where the invariant holds.
LEMMA InitIInv == Init => IInv
<1> SUFFICES ASSUME Init PROVE IInv
  OBVIOUS
<1> USE NoProcAssumption DEF Init
<1>1. TypeOK
  BY DEF TypeOK, Holding, NoEngine, NoPort, Ports
<1>2. LockInv /\ WaiterInv /\ ChosenInv /\ HeldInv /\ PortExclusive /\ InitvalInv
  BY DEF LockInv, WaiterInv, ChosenInv, HeldInv, PortExclusive, InitvalInv, Holding, Holds
<1>3. MeminitExclusive
  BY PartnerLemma DEF MeminitExclusive
<1>4. QuietInv
  BY PartnerLemma DEF QuietInv, Quiet, NotInHandler, NoEngine
<1> QED
  BY <1>1, <1>2, <1>3, <1>4 DEF IInv

\* Every step of a process, of the hardware and of xorintr keeps the invariant.
LEMMA NextIInv == IInv /\ [Next]_vars => IInv'
<1> SUFFICES ASSUME IInv, [Next]_vars PROVE IInv'
  OBVIOUS
<1> USE NoProcAssumption, KindsAssumption
<1> USE DEF NoPort, At, Goto
<1>ty. TypeOK
  BY DEF IInv
<1>1. ASSUME NEW q \in Procs, Call(q) PROVE IInv'
  <2>1. TypeOK'
    BY <1>1, <1>ty DEF TypeOK, Holding, Call
  <2>2. (LockInv /\ WaiterInv /\ ChosenInv)'
    BY <1>1, <1>ty DEF IInv, Call, LockInv, WaiterInv, ChosenInv, HeldInv, Candidates, meminitports, TypeOK, Holding
  <2>3. (HeldInv /\ PortExclusive)'
    BY <1>1, <1>ty, CandidatesLemma DEF IInv, Call, LockInv, WaiterInv, ChosenInv, HeldInv, PortExclusive, Holds, Holding, TypeOK
  <2>4. MeminitExclusive'
    BY <1>1, <1>ty DEF IInv, Call, MeminitExclusive
  <2>5. InitvalInv'
    BY <1>1, <1>ty DEF IInv, Call, InitvalInv, HeldInv, Holding, TypeOK
  <2>6. QuietInv'
    BY <1>1, <1>ty DEF IInv, Call, QuietInv, Quiet, NotInHandler, HeldInv, Holding, TypeOK
  <2> QED BY <2>1, <2>2, <2>3, <2>4, <2>5, <2>6 DEF IInv
<1>2. ASSUME NEW q \in Procs, GetLock(q) PROVE IInv'
  <2>1. TypeOK'
    BY <1>2, <1>ty DEF TypeOK, Holding, GetLock, Acquire
  <2>2. (LockInv /\ WaiterInv /\ ChosenInv)'
    BY <1>2, <1>ty DEF IInv, GetLock, Acquire, LockInv, WaiterInv, ChosenInv, HeldInv, Candidates, meminitports, TypeOK, Holding
  <2>3. (HeldInv /\ PortExclusive)'
    BY <1>2, <1>ty, CandidatesLemma DEF IInv, GetLock, Acquire, LockInv, WaiterInv, ChosenInv, HeldInv, PortExclusive, Holds, Holding, TypeOK
  <2>4. MeminitExclusive'
    BY <1>2, <1>ty DEF IInv, GetLock, Acquire, MeminitExclusive
  <2>5. InitvalInv'
    BY <1>2, <1>ty DEF IInv, GetLock, Acquire, InitvalInv, HeldInv, Holding, TypeOK
  <2>6. QuietInv'
    BY <1>2, <1>ty DEF IInv, GetLock, Acquire, QuietInv, Quiet, NotInHandler, HeldInv, Holding, TypeOK
  <2> QED BY <2>1, <2>2, <2>3, <2>4, <2>5, <2>6 DEF IInv
<1>3. ASSUME NEW q \in Procs, ScanFound(q) PROVE IInv'
  <2>1. TypeOK'
    BY <1>3, <1>ty, CandidatesLemma DEF TypeOK, ScanFound
  <2>2. (LockInv /\ WaiterInv /\ ChosenInv)'
    BY <1>3, <1>ty DEF IInv, ScanFound, LockInv, WaiterInv, ChosenInv, HeldInv, Candidates, meminitports, TypeOK, Holding
  <2>3. (HeldInv /\ PortExclusive)'
    BY <1>3, <1>ty, CandidatesLemma DEF IInv, ScanFound, LockInv, WaiterInv, ChosenInv, HeldInv, PortExclusive, Holds, Holding, TypeOK
  <2>4. MeminitExclusive'
    BY <1>3, <1>ty DEF IInv, ScanFound, MeminitExclusive
  <2>5. InitvalInv'
    BY <1>3, <1>ty DEF IInv, ScanFound, InitvalInv, HeldInv, Holding, TypeOK
  <2>6. QuietInv'
    BY <1>3, <1>ty DEF IInv, ScanFound, QuietInv, Quiet, NotInHandler, HeldInv, Holding, TypeOK
  <2> QED BY <2>1, <2>2, <2>3, <2>4, <2>5, <2>6 DEF IInv
<1>4. ASSUME NEW q \in Procs, ScanNone(q) PROVE IInv'
  <2>1. TypeOK'
    BY <1>4, <1>ty DEF TypeOK, Holding, ScanNone
  <2>2. (LockInv /\ WaiterInv /\ ChosenInv)'
    BY <1>4, <1>ty DEF IInv, ScanNone, LockInv, WaiterInv, ChosenInv, HeldInv, Candidates, meminitports, TypeOK, Holding
  <2>3. (HeldInv /\ PortExclusive)'
    BY <1>4, <1>ty, CandidatesLemma DEF IInv, ScanNone, LockInv, WaiterInv, ChosenInv, HeldInv, PortExclusive, Holds, Holding, TypeOK
  <2>4. MeminitExclusive'
    BY <1>4, <1>ty DEF IInv, ScanNone, MeminitExclusive
  <2>5. InitvalInv'
    BY <1>4, <1>ty DEF IInv, ScanNone, InitvalInv, HeldInv, Holding, TypeOK
  <2>6. QuietInv'
    BY <1>4, <1>ty DEF IInv, ScanNone, QuietInv, Quiet, NotInHandler, HeldInv, Holding, TypeOK
  <2> QED BY <2>1, <2>2, <2>3, <2>4, <2>5, <2>6 DEF IInv
<1>5. ASSUME NEW q \in Procs, SleepXor(q) PROVE IInv'
  <2>1. TypeOK'
    BY <1>5, <1>ty DEF TypeOK, Holding, SleepXor
  <2>2. (LockInv /\ WaiterInv /\ ChosenInv)'
    BY <1>5, <1>ty DEF IInv, SleepXor, LockInv, WaiterInv, ChosenInv, HeldInv, Candidates, meminitports, TypeOK, Holding
  <2>3. (HeldInv /\ PortExclusive)'
    BY <1>5, <1>ty, CandidatesLemma DEF IInv, SleepXor, LockInv, WaiterInv, ChosenInv, HeldInv, PortExclusive, Holds, Holding, TypeOK
  <2>4. MeminitExclusive'
    BY <1>5, <1>ty DEF IInv, SleepXor, MeminitExclusive
  <2>5. InitvalInv'
    BY <1>5, <1>ty DEF IInv, SleepXor, InitvalInv, HeldInv, Holding, TypeOK
  <2>6. QuietInv'
    BY <1>5, <1>ty DEF IInv, SleepXor, QuietInv, Quiet, NotInHandler, HeldInv, Holding, TypeOK
  <2> QED BY <2>1, <2>2, <2>3, <2>4, <2>5, <2>6 DEF IInv
<1>6. ASSUME NEW q \in Procs, Take(q) PROVE IInv'
  <2>1. TypeOK'
    BY <1>6, <1>ty DEF TypeOK, Holding, Take
  <2>2. (LockInv /\ WaiterInv /\ ChosenInv)'
    BY <1>6, <1>ty DEF IInv, Take, LockInv, WaiterInv, ChosenInv, HeldInv, Candidates, meminitports, TypeOK, Holding
  <2>p. /\ port[q] \in Ports
        /\ inuse[port[q]] = "unused"
        /\ kind[q] = "meminit" => inuse[partner(port[q])] # "meminit"
    BY <1>6, <1>ty, CandidatesLemma DEF IInv, Take, ChosenInv, TypeOK
  <2>q. \A r \in Procs : pc[r] \in Holding /\ port[r] # NoPort => port[r] # port[q]
    BY <1>ty, <2>p DEF IInv, HeldInv, TypeOK
  <2>3. (HeldInv /\ PortExclusive)'
    BY <1>6, <1>ty, <2>p, <2>q, NoneLemma DEF IInv, Take, HeldInv, PortExclusive, Holds, Holding, TypeOK
  <2>4. MeminitExclusive'
    BY <1>6, <1>ty, <2>p, PartnerLemma DEF IInv, Take, MeminitExclusive, TypeOK
  <2>5. InitvalInv'
    BY <1>6, <1>ty DEF IInv, Take, InitvalInv, HeldInv, Holding, TypeOK
  <2>6. QuietInv'
    BY <1>6, <1>ty, <2>p, <2>q, NoneLemma DEF IInv, Take, QuietInv, Quiet, NotInHandler, HeldInv, Holding, TypeOK
  <2> QED BY <2>1, <2>2, <2>3, <2>4, <2>5, <2>6 DEF IInv
<1>7. ASSUME NEW q \in Procs, Program(q) PROVE IInv'
  <2>1. TypeOK'
    BY <1>7, <1>ty DEF TypeOK, Holding, Program
  <2>2. (LockInv /\ WaiterInv /\ ChosenInv)'
    BY <1>7, <1>ty DEF IInv, Program, LockInv, WaiterInv, ChosenInv, HeldInv, Candidates, meminitports, TypeOK, Holding
  <2>3. (HeldInv /\ PortExclusive)'
    BY <1>7, <1>ty, CandidatesLemma DEF IInv, Program, LockInv, WaiterInv, ChosenInv, HeldInv, PortExclusive, Holds, Holding, TypeOK
  <2>4. MeminitExclusive'
    BY <1>7, <1>ty DEF IInv, Program, MeminitExclusive
  <2>x. /\ port[q] \in Ports
        /\ \A r \in Procs \ {q} : pc[r] \in Holding => port[r] # port[q]
    BY <1>7, <1>ty DEF IInv, Program, HeldInv, PortExclusive, Holds, Holding, TypeOK
  <2>y. ASSUME NEW r \in Procs \ {q}, pc[r] \in Holding, port[r] \in Ports,
               kind[r] = "meminit", kind[q] = "meminit"
        PROVE  engine(port[r]) # engine(port[q])
    <3>1. inuse[port[q]] = "meminit" /\ inuse[port[r]] = "meminit"
      BY <1>7, <2>x, <2>y, NoneLemma DEF IInv, Program, HeldInv, Holding
    <3>2. port[r] # partner(port[q])
      BY <2>x, <3>1 DEF IInv, MeminitExclusive
    <3> QED
      BY <2>x, <2>y, <3>2, PartnerLemma
  <2>5. InitvalInv'
    BY <1>7, <1>ty, <2>x, <2>y, PartnerLemma, NoneLemma DEF IInv, Program, InitvalInv, Holding, TypeOK
  <2>6. QuietInv'
    BY <1>7, <1>ty DEF IInv, Program, QuietInv, Quiet, NotInHandler, HeldInv, Holding, TypeOK
  <2> QED BY <2>1, <2>2, <2>3, <2>4, <2>5, <2>6 DEF IInv
<1>8. ASSUME NEW q \in Procs, Start(q) PROVE IInv'
  <2>1. TypeOK'
    BY <1>8, <1>ty DEF TypeOK, Holding, Start
  <2>2. (LockInv /\ WaiterInv /\ ChosenInv)'
    BY <1>8, <1>ty DEF IInv, Start, LockInv, WaiterInv, ChosenInv, HeldInv, Candidates, meminitports, TypeOK, Holding
  <2>3. (HeldInv /\ PortExclusive)'
    BY <1>8, <1>ty, CandidatesLemma DEF IInv, Start, LockInv, WaiterInv, ChosenInv, HeldInv, PortExclusive, Holds, Holding, TypeOK
  <2>4. MeminitExclusive'
    BY <1>8, <1>ty DEF IInv, Start, MeminitExclusive
  <2>5. InitvalInv'
    BY <1>8, <1>ty DEF IInv, Start, InitvalInv, HeldInv, Holding, TypeOK
  <2>x. /\ port[q] \in Ports
        /\ \A r \in Procs \ {q} : pc[r] \in Holding => port[r] # port[q]
    BY <1>8, <1>ty DEF IInv, Start, HeldInv, PortExclusive, Holds, Holding, TypeOK
  <2>y. /\ inuse[port[q]] # "unused"
        /\ Quiet(port[q]) /\ ~done[port[q]]
    BY <1>8, <1>ty, <2>x, NoneLemma DEF IInv, Start, QuietInv, HeldInv, Holding, TypeOK
  <2>z. /\ active' = [active EXCEPT ![port[q]] = TRUE]
        /\ \A p \in Ports : p # port[q] => Quiet(p)' = Quiet(p)
    BY <1>8, <1>ty DEF Start, Quiet, TypeOK
  <2>6. QuietInv'
    <3>1. \A p \in Ports : (inuse[p] = "unused")' => Quiet(p)'
      BY <1>8, <2>x, <2>y, <2>z DEF IInv, Start, QuietInv
    <3>2. ASSUME NEW r \in Procs
          PROVE  /\ pc'[r] \in {"program", "start"} => Quiet(port[r])' /\ ~done[port[r]]
                 /\ pc'[r] = "await" /\ done[port[r]] => Quiet(port[r])'
                 /\ pc'[r] \in {"put", "release"} => Quiet(port[r])'
      <4>1. CASE r = q
        BY <1>8, <1>ty, <2>y, <4>1 DEF Start, TypeOK
      <4>2. CASE r # q
        BY <1>8, <1>ty, <2>x, <2>z, <4>2 DEF IInv, Start, QuietInv, HeldInv, Holding, TypeOK
      <4> QED BY <4>1, <4>2
    <3>3. \A p \in Ports : p \in irq[engine(p)] => ~active'[p]
      BY <1>ty, <2>y, <2>z DEF IInv, QuietInv, Quiet, TypeOK
    <3> QED
      BY <1>8, <3>1, <3>2, <3>3 DEF IInv, Start, QuietInv, NotInHandler
  <2> QED BY <2>1, <2>2, <2>3, <2>4, <2>5, <2>6 DEF IInv
<1>9. ASSUME NEW q \in Procs, Awake(q) PROVE IInv'
  <2>1. TypeOK'
    BY <1>9, <1>ty DEF TypeOK, Holding, Awake
  <2>2. (LockInv /\ WaiterInv /\ ChosenInv)'
    BY <1>9, <1>ty DEF IInv, Awake, LockInv, WaiterInv, ChosenInv, HeldInv, Candidates, meminitports, TypeOK, Holding
  <2>3. (HeldInv /\ PortExclusive)'
    BY <1>9, <1>ty, CandidatesLemma DEF IInv, Awake, LockInv, WaiterInv, ChosenInv, HeldInv, PortExclusive, Holds, Holding, TypeOK
  <2>4. MeminitExclusive'
    BY <1>9, <1>ty DEF IInv, Awake, MeminitExclusive
  <2>5. InitvalInv'
    BY <1>9, <1>ty DEF IInv, Awake, InitvalInv, HeldInv, Holding, TypeOK
  <2>6. QuietInv'
    BY <1>9, <1>ty DEF IInv, Awake, QuietInv, Quiet, NotInHandler, HeldInv, Holding, TypeOK
  <2> QED BY <2>1, <2>2, <2>3, <2>4, <2>5, <2>6 DEF IInv
<1>10. ASSUME NEW q \in Procs, PutLock(q) PROVE IInv'
  <2>1. TypeOK'
    BY <1>10, <1>ty DEF TypeOK, Holding, PutLock, Acquire
  <2>2. (LockInv /\ WaiterInv /\ ChosenInv)'
    BY <1>10, <1>ty DEF IInv, PutLock, Acquire, LockInv, WaiterInv, ChosenInv, HeldInv, Candidates, meminitports, TypeOK, Holding
  <2>3. (HeldInv /\ PortExclusive)'
    BY <1>10, <1>ty, CandidatesLemma DEF IInv, PutLock, Acquire, LockInv, WaiterInv, ChosenInv, HeldInv, PortExclusive, Holds, Holding, TypeOK
  <2>4. MeminitExclusive'
    BY <1>10, <1>ty DEF IInv, PutLock, Acquire, MeminitExclusive
  <2>5. InitvalInv'
    BY <1>10, <1>ty DEF IInv, PutLock, Acquire, InitvalInv, HeldInv, Holding, TypeOK
  <2>6. QuietInv'
    BY <1>10, <1>ty DEF IInv, PutLock, Acquire, QuietInv, Quiet, NotInHandler, HeldInv, Holding, TypeOK
  <2> QED BY <2>1, <2>2, <2>3, <2>4, <2>5, <2>6 DEF IInv
<1>11. ASSUME NEW q \in Procs, Release(q) PROVE IInv'
  <2>1. TypeOK'
    BY <1>11, <1>ty DEF TypeOK, Holding, Release
  <2>2. (LockInv /\ WaiterInv /\ ChosenInv)'
    BY <1>11, <1>ty DEF IInv, Release, LockInv, WaiterInv, ChosenInv, HeldInv, Candidates, meminitports, TypeOK, Holding
  <2>x. /\ port[q] \in Ports
        /\ \A r \in Procs \ {q} : pc[r] \in Holding => port[r] # port[q]
    BY <1>11, <1>ty DEF IInv, Release, HeldInv, PortExclusive, Holds, Holding, TypeOK
  <2>w. waiter \in Procs => pc[waiter] = "asleep"
    BY <1>11 DEF IInv, WaiterInv
  <2>3. (HeldInv /\ PortExclusive)'
    BY <1>11, <1>ty, <2>x, <2>w, NoneLemma DEF IInv, Release, HeldInv, PortExclusive, Holds, Holding, TypeOK
  <2>4. MeminitExclusive'
    BY <1>11, <1>ty DEF IInv, Release, MeminitExclusive
  <2>5. InitvalInv'
    BY <1>11, <1>ty DEF IInv, Release, InitvalInv, HeldInv, Holding, TypeOK
  <2>6. QuietInv'
    BY <1>11, <1>ty DEF IInv, Release, QuietInv, Quiet, NotInHandler, HeldInv, Holding, TypeOK
  <2> QED BY <2>1, <2>2, <2>3, <2>4, <2>5, <2>6 DEF IInv
<1>12. ASSUME NEW q \in Procs, Kill(q) PROVE IInv'
  <2>1. TypeOK'
    BY <1>12, <1>ty DEF TypeOK, Holding, Kill
  <2>2. (LockInv /\ WaiterInv /\ ChosenInv)'
    BY <1>12, <1>ty DEF IInv, Kill, LockInv, WaiterInv, ChosenInv, HeldInv, Candidates, meminitports, TypeOK, Holding
  <2>3. (HeldInv /\ PortExclusive)'
    BY <1>12, <1>ty, NoneLemma DEF IInv, Kill, HeldInv, PortExclusive, Holds, Holding, TypeOK
  <2>4. MeminitExclusive'
    BY <1>12, <1>ty DEF IInv, Kill, MeminitExclusive
  <2>5. InitvalInv'
    BY <1>12, <1>ty DEF IInv, Kill, InitvalInv, HeldInv, Holding, TypeOK
  <2>6. QuietInv'
    BY <1>12, <1>ty DEF IInv, Kill, QuietInv, Quiet, NotInHandler, HeldInv, Holding, TypeOK
  <2> QED BY <2>1, <2>2, <2>3, <2>4, <2>5, <2>6 DEF IInv
<1>13. ASSUME NEW p \in Ports, HwComplete(p) PROVE IInv'
  <2>1. TypeOK'
    BY <1>13, <1>ty, PartnerLemma DEF TypeOK, HwComplete
  <2>2. (LockInv /\ WaiterInv /\ ChosenInv /\ HeldInv /\ PortExclusive /\ MeminitExclusive /\ InitvalInv)'
    BY <1>13 DEF IInv, HwComplete, LockInv, WaiterInv, ChosenInv, HeldInv, PortExclusive, MeminitExclusive,
         InitvalInv, Holds, Holding, Candidates, meminitports
  <2>3. QuietInv'
    BY <1>13, <1>ty, PartnerLemma DEF IInv, HwComplete, QuietInv, Quiet, NotInHandler, NoEngine, HeldInv, PortExclusive, Holds, Holding, TypeOK
  <2> QED BY <2>1, <2>2, <2>3 DEF IInv
<1>14. ASSUME NEW e \in Engines, IntrRead(e) PROVE IInv'
  <2>1. TypeOK'
    BY <1>14, <1>ty, PartnerLemma DEF TypeOK, IntrRead
  <2>2. (LockInv /\ WaiterInv /\ ChosenInv /\ HeldInv /\ PortExclusive /\ MeminitExclusive /\ InitvalInv)'
    BY <1>14 DEF IInv, IntrRead, LockInv, WaiterInv, ChosenInv, HeldInv, PortExclusive, MeminitExclusive,
         InitvalInv, Holds, Holding, Candidates, meminitports
  <2>3. QuietInv'
    BY <1>14, NoneLemma DEF IInv, IntrRead, QuietInv, Quiet, NotInHandler
  <2> QED BY <2>1, <2>2, <2>3 DEF IInv
<1>15. ASSUME IntrClear PROVE IInv'
  <2>1. TypeOK'
    BY <1>15, <1>ty, PartnerLemma DEF TypeOK, IntrClear
  <2>2. (LockInv /\ WaiterInv /\ ChosenInv /\ HeldInv /\ PortExclusive /\ MeminitExclusive /\ InitvalInv)'
    BY <1>15 DEF IInv, IntrClear, LockInv, WaiterInv, ChosenInv, HeldInv, PortExclusive, MeminitExclusive,
         InitvalInv, Holds, Holding, Candidates, meminitports
  <2>3. QuietInv'
    BY <1>15, <1>ty, PartnerLemma DEF IInv, IntrClear, QuietInv, Quiet, NotInHandler, NoEngine, HeldInv, PortExclusive, Holds, Holding, TypeOK
  <2> QED BY <2>1, <2>2, <2>3 DEF IInv
<1>16. ASSUME UNCHANGED vars PROVE IInv'
  <2>1. TypeOK'
    BY <1>16, <1>ty, PartnerLemma DEF TypeOK, vars
  <2>2. (LockInv /\ WaiterInv /\ ChosenInv /\ HeldInv /\ PortExclusive /\ MeminitExclusive /\ InitvalInv)'
    BY <1>16 DEF IInv, vars, LockInv, WaiterInv, ChosenInv, HeldInv, PortExclusive, MeminitExclusive,
         InitvalInv, Holds, Holding, Candidates, meminitports
  <2>3. QuietInv'
    BY <1>16, <1>ty, PartnerLemma DEF IInv, vars, QuietInv, Quiet, NotInHandler, NoEngine, HeldInv, PortExclusive, Holds, Holding, TypeOK
  <2> QED BY <2>1, <2>2, <2>3 DEF IInv
<1> QED
  BY <1>1, <1>2, <1>3, <1>4, <1>5, <1>6, <1>7, <1>8, <1>9, <1>10, <1>11, <1>12, <1>13, <1>14, <1>15, <1>16 DEF Next, ProcNext

-----------------------------------------------------------------------------
\* Every reachable state of xor.c's port allocator satisfies the invariant.
THEOREM Invariance == Spec => []IInv
BY InitIInv, NextIInv, PTL DEF Spec

\* The type invariant, whatever the number of engines and processes.
THEOREM TypeCorrect == Spec => []TypeOK
<1>1. IInv => TypeOK
  BY DEF IInv
<1> QED BY <1>1, Invariance, PTL

\* portget never gives a port to two callers, even after callers were killed.
THEOREM PortsExclusive == Spec => []PortExclusive
<1>1. IInv => PortExclusive
  BY DEF IInv
<1> QED BY <1>1, Invariance, PTL

\* An engine never runs two memory inits.
THEOREM OneMeminit == Spec => []MeminitExclusive
<1>1. IInv => MeminitExclusive
  BY DEF IInv
<1> QED BY <1>1, Invariance, PTL

\* A running memory init fills with the value its own caller wrote.
THEOREM InitvalSafe == Spec => []InitvalKept
<1>1. IInv => InitvalKept
  <2> SUFFICES ASSUME IInv, NEW q \in Procs, NEW p \in Ports,
                      Holds(q, p), kind[q] = "meminit", active[p]
               PROVE  initval[engine(p)] = q
    BY DEF InitvalKept
  <2>1. pc[q] # "program"
    BY DEF IInv, QuietInv, Quiet, Holds
  <2> QED
    BY <2>1, NoneLemma DEF IInv, InitvalInv, Holds
<1> QED BY <1>1, Invariance, PTL

\* No caller leaves its sleep on a done flag of an earlier transfer.
THEOREM DoneSafe == Spec => []DoneIsFresh
<1>1. IInv => DoneIsFresh
  BY DEF IInv, QuietInv, Quiet, DoneIsFresh
<1> QED BY <1>1, Invariance, PTL

-----------------------------------------------------------------------------
(* xor.c implements PortPool                                               *)

\* The state xorlink leaves maps to a pool no one uses.
LEMMA InitPool == Init => Pool!Init
BY DEF Init, Pool!Init, Uses, What, Phase, Has, Holding

\* Every step of the driver is a step of the pool or leaves it alone.
LEMMA NextPool ==
  ASSUME IInv, [Next]_vars
  PROVE  [Pool!Next]_<<Uses, What, Phase>>
<1> USE NoProcAssumption, KindsAssumption
<1> USE DEF At, Goto
<1>ty. TypeOK
  BY DEF IInv
<1>1. ASSUME NEW q \in Procs, Call(q) PROVE UNCHANGED <<Uses, What, Phase>>
  BY <1>1, <1>ty DEF Call, Uses, What, Phase, Has, Holding, TypeOK
<1>2. ASSUME NEW q \in Procs, GetLock(q) PROVE UNCHANGED <<Uses, What, Phase>>
  BY <1>2, <1>ty DEF GetLock, Acquire, Uses, What, Phase, Has, Holding, TypeOK
<1>3. ASSUME NEW q \in Procs, ScanFound(q) PROVE UNCHANGED <<Uses, What, Phase>>
  BY <1>3, <1>ty DEF ScanFound, Uses, What, Phase, Has, Holding, TypeOK
<1>4. ASSUME NEW q \in Procs, ScanNone(q) PROVE UNCHANGED <<Uses, What, Phase>>
  BY <1>4, <1>ty DEF ScanNone, Uses, What, Phase, Has, Holding, TypeOK
<1>5. ASSUME NEW q \in Procs, SleepXor(q) PROVE UNCHANGED <<Uses, What, Phase>>
  BY <1>5, <1>ty DEF SleepXor, Uses, What, Phase, Has, Holding, TypeOK
<1>6. ASSUME NEW q \in Procs, Take(q) PROVE Pool!Get(q, port[q], kind[q])
  <2>p. /\ port[q] \in Ports
        /\ inuse[port[q]] = "unused"
        /\ kind[q] = "meminit" => inuse[partner(port[q])] # "meminit"
    BY <1>6, <1>ty, CandidatesLemma DEF IInv, Take, ChosenInv, TypeOK
  <2>n. port[q] # NoPort /\ kind[q] \in {"other", "meminit"} /\ kind[q] # "unused"
    BY <2>p, <1>ty, NoneLemma DEF TypeOK
  <2>1. Uses[q] = NoPort
    BY <1>6 DEF Take, Uses, Has, Holding
  <2>2. \A r \in Procs : Uses[r] # port[q]
    BY <1>ty, <2>p, <2>n DEF IInv, HeldInv, Uses, Has, TypeOK
  <2>3. kind[q] = "meminit" => \A r \in Procs : Uses[r] = partner(port[q]) => What[r] # "meminit"
    <3> SUFFICES ASSUME kind[q] = "meminit", NEW r \in Procs, Uses[r] = partner(port[q]),
                        What[r] = "meminit"
                 PROVE  FALSE
      OBVIOUS
    <3>1. Has(r) /\ port[r] = partner(port[q]) /\ kind[r] = "meminit"
      BY DEF Uses, What
    <3>2. inuse[port[r]] = "meminit"
      BY <3>1 DEF IInv, HeldInv, Has
    <3> QED BY <2>p, <3>1, <3>2
  <2>4. UNCHANGED <<port, kind, active>> /\ pc'[q] = "program" /\ Has(q)'
    BY <1>6, <1>ty, <2>n DEF Take, Has, Holding, TypeOK
  <2>o. \A r \in Procs \ {q} : pc'[r] = pc[r] /\ Has(r)' = Has(r)
    BY <1>6, <1>ty DEF Take, Has, TypeOK
  <2>5. Uses' = [Uses EXCEPT ![q] = port[q]]
    BY <2>4, <2>o DEF Uses
  <2>6. What' = [What EXCEPT ![q] = kind[q]]
    BY <2>4, <2>o DEF What
  <2>7. Phase' = [Phase EXCEPT ![q] = "got"]
    BY <2>4, <2>o DEF Phase
  <2> QED BY <2>1, <2>2, <2>3, <2>5, <2>6, <2>7 DEF Pool!Get
<1>7. ASSUME NEW q \in Procs, Program(q) PROVE UNCHANGED <<Uses, What, Phase>>
  BY <1>7, <1>ty DEF Program, Uses, What, Phase, Has, Holding, TypeOK
<1>8. ASSUME NEW q \in Procs, Start(q) PROVE Pool!Run(q)
  <2>1. pc' = [pc EXCEPT ![q] = "await"] /\ UNCHANGED <<port, kind>>
        /\ active' = [active EXCEPT ![port[q]] = TRUE] /\ pc[q] = "start"
    BY <1>8 DEF Start
  <2>2. /\ port[q] \in Ports /\ port[q] # NoPort
        /\ \A r \in Procs \ {q} : pc[r] \in Holding => port[r] # port[q]
    BY <1>8, <1>ty, NoneLemma DEF IInv, Start, HeldInv, PortExclusive, Holds, Holding, TypeOK
  <2>3. Uses' = Uses /\ What' = What
    BY <1>ty, <2>1 DEF Uses, What, Has, Holding, TypeOK
  <2>4. Phase' = [Phase EXCEPT ![q] = "running"]
    BY <1>ty, <2>1, <2>2 DEF Phase, Has, Holding, TypeOK
  <2>5. Phase[q] = "got"
    BY <2>1, <2>2 DEF Phase, Has, Holding
  <2> QED BY <2>3, <2>4, <2>5 DEF Pool!Run
<1>9. ASSUME NEW q \in Procs, Awake(q) PROVE UNCHANGED <<Uses, What, Phase>>
  BY <1>9, <1>ty DEF Awake, Uses, What, Phase, Has, Holding, TypeOK
<1>10. ASSUME NEW q \in Procs, PutLock(q) PROVE UNCHANGED <<Uses, What, Phase>>
  BY <1>10, <1>ty DEF PutLock, Acquire, Uses, What, Phase, Has, Holding, TypeOK
<1>11. ASSUME NEW q \in Procs, Release(q) PROVE Pool!Put(q)
  <2>1. port[q] \in Ports /\ port[q] # NoPort /\ ~active[port[q]] /\ pc[q] = "release"
    BY <1>11, <1>ty, NoneLemma DEF IInv, Release, HeldInv, QuietInv, Quiet, Holding, TypeOK
  <2>2. Phase[q] = "ended"
    BY <2>1 DEF Phase, Has, Holding
  <2>w. waiter \in Procs => pc[waiter] = "asleep"
    BY DEF IInv, WaiterInv
  <2>3. \A r \in Procs \ {q} : Has(r)' = Has(r) /\ port'[r] = port[r]
                               /\ (Has(r) => pc'[r] = pc[r])
    BY <1>11, <1>ty, <2>w DEF Release, Has, Holding, TypeOK
  <2>4. ~Has(q)' /\ UNCHANGED <<kind, active>>
    BY <1>11, <1>ty DEF Release, Has, Holding, TypeOK
  <2>5. /\ Uses' = [Uses EXCEPT ![q] = NoPort]
        /\ What' = [What EXCEPT ![q] = "none"]
        /\ Phase' = [Phase EXCEPT ![q] = "none"]
    BY <2>3, <2>4 DEF Uses, What, Phase
  <2> QED BY <2>2, <2>5 DEF Pool!Put
<1>12. ASSUME NEW q \in Procs, Kill(q) PROVE UNCHANGED <<Uses, What, Phase>>
  <2>1. pc[q] = "asleep" => port[q] = NoPort
    BY DEF IInv, HeldInv
  <2> QED BY <1>12, <1>ty, <2>1 DEF Kill, Uses, What, Phase, Has, Holding, TypeOK
<1>13. ASSUME NEW p \in Ports, HwComplete(p)
       PROVE  \/ \E q \in Procs : Pool!End(q)
              \/ UNCHANGED <<Uses, What, Phase>>
  <2>1. active[p] /\ active' = [active EXCEPT ![p] = FALSE] /\ UNCHANGED <<pc, port, kind>>
    BY <1>13 DEF HwComplete
  <2>2. Uses' = Uses /\ What' = What
    BY <2>1 DEF Uses, What, Has
  <2>3. CASE \E q \in Procs : Holds(q, p)
    <3> PICK q \in Procs : Holds(q, p)
      BY <2>3
    <3>1. Has(q) /\ port[q] = p /\ pc[q] \notin {"program", "start"}
      BY <2>1, NoneLemma DEF Holds, Has, IInv, QuietInv, Quiet
    <3>2. \A r \in Procs \ {q} : Has(r) => port[r] # p
      BY DEF IInv, PortExclusive, Holds, Has
    <3>3. Phase[q] = "running"
      BY <2>1, <3>1 DEF Phase
    <3>4. Phase' = [Phase EXCEPT ![q] = "ended"]
      BY <1>ty, <2>1, <3>1, <3>2 DEF Phase, Has, TypeOK
    <3> QED BY <2>2, <3>3, <3>4 DEF Pool!End
  <2>4. CASE ~\E q \in Procs : Holds(q, p)
    <3>1. \A r \in Procs : Has(r) => port[r] # p
      BY <2>4 DEF Holds, Has
    <3>2. Phase' = Phase
      BY <1>ty, <2>1, <3>1 DEF Phase, Has, TypeOK
    <3> QED BY <2>2, <3>2
  <2> QED BY <2>3, <2>4
<1>14. ASSUME NEW e \in Engines, IntrRead(e) PROVE UNCHANGED <<Uses, What, Phase>>
  BY <1>14 DEF IntrRead, Uses, What, Phase, Has
<1>15. ASSUME IntrClear PROVE UNCHANGED <<Uses, What, Phase>>
  BY <1>15 DEF IntrClear, Uses, What, Phase, Has
<1>16. ASSUME UNCHANGED vars PROVE UNCHANGED <<Uses, What, Phase>>
  BY <1>16 DEF vars, Uses, What, Phase, Has
<1>17. ASSUME NEW q \in Procs, Take(q) PROVE Pool!Next
  <2>1. port[q] \in Ports /\ kind[q] \in {"other", "meminit"}
    BY <1>17, <1>ty, CandidatesLemma DEF IInv, Take, ChosenInv, TypeOK
  <2> QED BY <1>6, <1>17, <2>1 DEF Pool!Next
<1>18. ASSUME NEW q \in Procs, Start(q) \/ Release(q) PROVE Pool!Next
  BY <1>8, <1>11, <1>18 DEF Pool!Next
<1>19. ASSUME NEW p \in Ports, HwComplete(p)
       PROVE  Pool!Next \/ UNCHANGED <<Uses, What, Phase>>
  BY <1>13, <1>19 DEF Pool!Next
<1> QED
  BY <1>1, <1>2, <1>3, <1>4, <1>5, <1>7, <1>9, <1>10, <1>12, <1>14, <1>15, <1>16, <1>17,
     <1>18, <1>19 DEF Next, ProcNext

\* The driver implements the pool: every behaviour of xor.c, seen through who
\* has which port for what and how far the transfer is, is one of PortPool.
THEOREM ImplementsPool == Spec => PoolSpec
<1>1. IInv /\ [Next]_vars => [Pool!Next]_<<Uses, What, Phase>>
  BY NextPool
<1> QED BY <1>1, InitPool, Invariance, PTL DEF Spec, PoolSpec, Pool!Spec

=============================================================================
