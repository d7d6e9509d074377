------------------------------ MODULE XorPorts ------------------------------
(***************************************************************************)
(* The XOR/DMA engines of xor.c.  An engine has two ports; a process takes *)
(* a port with portget, programs it, sleeps until the end-of-chain         *)
(* interrupt and gives the port back with portput.  The memory-init value  *)
(* registers exist once per engine, so two memory-init transfers must not  *)
(* share one.                                                              *)
(*                                                                         *)
(* Processes are preempted between any two steps.  An interrupt handler    *)
(* runs to completion before a process runs again (one processor), but the *)
(* hardware goes on while it runs.                                         *)
(***************************************************************************)
EXTENDS Integers

CONSTANTS
  NEngine,    \* number of engines (2 on the chip)
  Procs,      \* the processes that use the ports
  Kinds,      \* what they ask for: a subset of {"other", "meminit"}
  Kills       \* whether a sleeping process may be killed

ASSUME NEngineAssumption == NEngine \in Nat \ {0}
ASSUME KindsAssumption == Kinds \subseteq {"other", "meminit"}
ASSUME KillsAssumption == Kills \in BOOLEAN

Ports == 0 .. (2 * NEngine - 1)
Engines == 0 .. (NEngine - 1)

\* A port's engine and the other port of that engine.
engine(p) == p \div 2
partner(p) == IF p % 2 = 0 THEN p + 1 ELSE p - 1

NoPort == -1
NoEngine == -1
CONSTANT NoProc   \* a model value
ASSUME NoProcAssumption == NoProc \notin Procs

VARIABLES
  inuse,      \* Port.inuse: "unused", "other" or "meminit"
  done,       \* Port.done
  qlock,      \* the process that holds the QLock of xor
  waiter,     \* the process asleep on the Rendez of xor
  pc,         \* where each process is
  port,       \* its local p
  kind,       \* what it asked for
  active,     \* the hardware is executing on this port
  irq,        \* the end-of-chain bits of each engine's irq register
  initval,    \* the process that last wrote an engine's initval registers
  intr,       \* the interrupt handler: the engine it serves and the bits it read
  panicked    \* the kernel has stopped

vars == <<inuse, done, qlock, waiter, pc, port, kind, active, irq, initval,
          intr, panicked>>

NotInHandler == intr.engine = NoEngine

Init ==
  /\ inuse = [p \in Ports |-> "unused"]
  /\ done = [p \in Ports |-> FALSE]
  /\ qlock = NoProc
  /\ waiter = NoProc
  /\ pc = [q \in Procs |-> "idle"]
  /\ port = [q \in Procs |-> NoPort]
  /\ kind = [q \in Procs |-> "other"]
  /\ active = [p \in Ports |-> FALSE]
  /\ irq = [e \in Engines |-> {}]
  /\ initval = [e \in Engines |-> NoProc]
  /\ intr = [engine |-> NoEngine, bits |-> {}]
  /\ panicked = FALSE

-----------------------------------------------------------------------------
(* Processes.                                                              *)

At(q, l) == ~panicked /\ NotInHandler /\ pc[q] = l
Goto(q, l) == pc' = [pc EXCEPT ![q] = l]

\* meminitdma, crc32cdma, memdma or xordma is called: portget(kind).
Call(q) ==
  /\ At(q, "idle")
  /\ \E k \in Kinds : kind' = [kind EXCEPT ![q] = k]
  /\ Goto(q, "get")
  /\ UNCHANGED <<inuse, done, qlock, waiter, port, active, irq, initval, intr, panicked>>

\* Mutant: the lock is not waited for.
Acquire_nolock(q, from, to) ==
  /\ At(q, from)
  /\ Goto(q, to)
  /\ UNCHANGED <<inuse, done, qlock, waiter, port, kind, active, irq, initval, intr, panicked>>

\* qlock(&xor), at the top of portget's loop and in portput.
Acquire(q, from, to) ==
  /\ At(q, from)
  /\ qlock = NoProc
  /\ qlock' = q
  /\ Goto(q, to)
  /\ UNCHANGED <<inuse, done, waiter, port, kind, active, irq, initval, intr, panicked>>

GetLock(q) == Acquire(q, "get", "scan")
PutLock(q) == Acquire(q, "put", "release")

\* Mutant: the partner channel is not looked at.
meminitports_ignorepartner == {p \in Ports : inuse[p] = "unused"}

\* meminitport, for both engines: a free port beside no other memory init.
meminitports == {p \in Ports : inuse[p] = "unused" /\ inuse[partner(p)] # "meminit"}

Candidates(k) ==
  IF k = "meminit" THEN meminitports ELSE {p \in Ports : inuse[p] = "unused"}

\* The scan finds the first port that will do.
ScanFound(q) ==
  /\ At(q, "scan")
  /\ \E p \in Candidates(kind[q]) :
       /\ \A r \in Candidates(kind[q]) : p <= r
       /\ port' = [port EXCEPT ![q] = p]
  /\ Goto(q, "take")
  /\ UNCHANGED <<inuse, done, qlock, waiter, kind, active, irq, initval, intr, panicked>>

\* None: the lock is dropped, and only then will the process sleep.
ScanNone(q) ==
  /\ At(q, "scan")
  /\ Candidates(kind[q]) = {}
  /\ qlock' = NoProc
  /\ Goto(q, "dosleep")
  /\ UNCHANGED <<inuse, done, waiter, port, kind, active, irq, initval, intr, panicked>>

\* sleep(&xor, return0, nil): a Rendez holds one sleeper, a second is a panic.
SleepXor(q) ==
  /\ At(q, "dosleep")
  /\ IF waiter = NoProc
     THEN waiter' = q /\ Goto(q, "asleep") /\ UNCHANGED panicked
     ELSE panicked' = TRUE /\ UNCHANGED <<waiter, pc>>
  /\ UNCHANGED <<inuse, done, qlock, port, kind, active, irq, initval, intr>>

\* Mutant: done is not reset.
Take_keepdone(q) ==
  /\ At(q, "take")
  /\ inuse' = [inuse EXCEPT ![port[q]] = kind[q]]
  /\ qlock' = NoProc
  /\ Goto(q, "program")
  /\ UNCHANGED <<done, waiter, port, kind, active, irq, initval, intr, panicked>>

\* The port is marked and its done flag cleared before the lock is dropped.
Take(q) ==
  /\ At(q, "take")
  /\ inuse' = [inuse EXCEPT ![port[q]] = kind[q]]
  /\ done' = [done EXCEPT ![port[q]] = FALSE]
  /\ qlock' = NoProc
  /\ Goto(q, "program")
  /\ UNCHANGED <<waiter, port, kind, active, irq, initval, intr, panicked>>

\* The caller writes the port's registers; a memory init also the engine's
\* initvallo and initvalhi.
Program(q) ==
  /\ At(q, "program")
  /\ initval' = IF kind[q] = "meminit"
                THEN [initval EXCEPT ![engine(port[q])] = q]
                ELSE initval
  /\ Goto(q, "start")
  /\ UNCHANGED <<inuse, done, qlock, waiter, port, kind, active, irq, intr, panicked>>

\* act = XEstart.
Start(q) ==
  /\ At(q, "start")
  /\ active' = [active EXCEPT ![port[q]] = TRUE]
  /\ Goto(q, "await")
  /\ UNCHANGED <<inuse, done, qlock, waiter, port, kind, irq, initval, intr, panicked>>

\* sleep(p, isdone, p) returns: the handler sets done before it wakes.
Awake(q) ==
  /\ At(q, "await")
  /\ done[port[q]]
  /\ Goto(q, "put")
  /\ UNCHANGED <<inuse, done, qlock, waiter, port, kind, active, irq, initval, intr, panicked>>

\* portput: the port is free, the sleeper on xor goes back to its loop.
Release(q) ==
  /\ At(q, "release")
  /\ inuse' = [inuse EXCEPT ![port[q]] = "unused"]
  /\ port' = [port EXCEPT ![q] = NoPort]
  /\ waiter' = NoProc
  /\ pc' = [r \in Procs |-> IF r = q THEN "idle"
                            ELSE IF r = waiter THEN "get" ELSE pc[r]]
  /\ qlock' = NoProc
  /\ UNCHANGED <<done, kind, active, irq, initval, intr, panicked>>

\* Mutant: a killed process gives its port back.
Kill_free(q) ==
  /\ Kills
  /\ At(q, "asleep") \/ At(q, "await")
  /\ waiter' = IF waiter = q THEN NoProc ELSE waiter
  /\ inuse' = [p \in Ports |-> IF p = port[q] THEN "unused" ELSE inuse[p]]
  /\ port' = [port EXCEPT ![q] = NoPort]
  /\ Goto(q, "killed")
  /\ UNCHANGED <<done, qlock, kind, active, irq, initval, intr, panicked>>

\* A killed process leaves sleep by error(Eintr); no caller has a waserror,
\* so a port it holds stays in use.
Kill(q) ==
  /\ Kills
  /\ At(q, "asleep") \/ At(q, "await")
  /\ waiter' = IF waiter = q THEN NoProc ELSE waiter
  /\ Goto(q, "killed")
  /\ UNCHANGED <<inuse, done, qlock, port, kind, active, irq, initval, intr, panicked>>

-----------------------------------------------------------------------------
(* Hardware and the interrupt handler.                                     *)

\* The transfer on a port ends: its end-of-chain bit is set in the engine.
HwComplete(p) ==
  /\ ~panicked
  /\ active[p]
  /\ active' = [active EXCEPT ![p] = FALSE]
  /\ irq' = [irq EXCEPT ![engine(p)] = @ \cup {p}]
  /\ UNCHANGED <<inuse, done, qlock, waiter, pc, port, kind, initval, intr, panicked>>

\* xorintr reads er->irq ...
IntrRead(e) ==
  /\ ~panicked
  /\ NotInHandler
  /\ irq[e] # {}
  /\ intr' = [engine |-> e, bits |-> irq[e]]
  /\ UNCHANGED <<inuse, done, qlock, waiter, pc, port, kind, active, irq, initval, panicked>>

\* ... sets done for every bit it read, and clears the whole register.
IntrClear ==
  /\ ~panicked
  /\ ~NotInHandler
  /\ done' = [p \in Ports |-> done[p] \/ p \in intr.bits]
  /\ irq' = [irq EXCEPT ![intr.engine] = {}]
  /\ intr' = [engine |-> NoEngine, bits |-> {}]
  /\ UNCHANGED <<inuse, qlock, waiter, pc, port, kind, active, initval, panicked>>

ProcNext(q) ==
  \/ Call(q) \/ GetLock(q) \/ ScanFound(q) \/ ScanNone(q) \/ SleepXor(q)
  \/ Take(q) \/ Program(q) \/ Start(q) \/ Awake(q) \/ PutLock(q) \/ Release(q)
  \/ Kill(q)

Next ==
  \/ \E q \in Procs : ProcNext(q)
  \/ \E p \in Ports : HwComplete(p)
  \/ \E e \in Engines : IntrRead(e)
  \/ IntrClear

Spec == Init /\ [][Next]_vars

-----------------------------------------------------------------------------
(* Properties.                                                             *)

Holding == {"program", "start", "await", "put", "release", "killed"}
Holds(q, p) == pc[q] \in Holding /\ port[q] = p

\* Every variable has its type: the state xor.c and the engines keep.
TypeOK ==
  /\ inuse \in [Ports -> {"unused", "other", "meminit"}]
  /\ done \in [Ports -> BOOLEAN]
  /\ qlock \in Procs \cup {NoProc}
  /\ waiter \in Procs \cup {NoProc}
  /\ pc \in [Procs -> {"idle", "get", "scan", "dosleep", "asleep", "take"} \cup Holding]
  /\ port \in [Procs -> Ports \cup {NoPort}]
  /\ kind \in [Procs -> {"other", "meminit"}]
  /\ active \in [Ports -> BOOLEAN]
  /\ irq \in [Engines -> SUBSET Ports]
  /\ initval \in [Engines -> Procs \cup {NoProc}]
  /\ intr \in [engine : Engines \cup {NoEngine}, bits : SUBSET Ports]
  /\ panicked \in BOOLEAN

\* portget never hands one port to two callers, killed ones included.
PortExclusive ==
  \A q, r \in Procs : \A p \in Ports : Holds(q, p) /\ Holds(r, p) => q = r

\* meminitport: at most one port of an engine is in use for memory init, since
\* both ports would fill from the same initval registers.
MeminitExclusive ==
  \A p \in Ports : ~(inuse[p] = "meminit" /\ inuse[partner(p)] = "meminit")

\* While a memory init runs, its engine's initval registers hold what the
\* caller of meminitdma wrote, not the value of a later call.
InitvalKept ==
  \A q \in Procs :
    \A p \in Ports :
      Holds(q, p) /\ kind[q] = "meminit" /\ active[p] => initval[engine(p)] = q

\* sleep(p, isdone, p) never returns before the transfer it waits for has
\* ended: a done flag left by the previous transfer is never seen (the
\* callers assert the status of their descriptor right after it).
DoneIsFresh ==
  \A q \in Procs : pc[q] = "await" /\ done[port[q]] => ~active[port[q]]

\* xor.c:199 "so we only use end-of-chain interrupts for completion": a
\* transfer that has ended is announced by done, by the pending interrupt bit
\* or by the handler that has read that bit.
CompletionSeen ==
  \A q \in Procs :
    pc[q] = "await" /\ ~active[port[q]] =>
      \/ done[port[q]]
      \/ port[q] \in irq[engine(port[q])]
      \/ port[q] \in intr.bits

-----------------------------------------------------------------------------
(* The refinement of PortPool.                                             *)

Has(q) == pc[q] \in Holding /\ port[q] # NoPort
Uses == [q \in Procs |-> IF Has(q) THEN port[q] ELSE NoPort]
What == [q \in Procs |-> IF Has(q) THEN kind[q] ELSE "none"]
Phase == [q \in Procs |->
            IF ~Has(q) THEN "none"
            ELSE IF pc[q] \in {"program", "start"} THEN "got"
            ELSE IF active[port[q]] THEN "running" ELSE "ended"]

Pool == INSTANCE PortPool
        WITH Users <- Procs, Partner <- partner, None <- NoPort,
             uses <- Uses, what <- What, phase <- Phase

\* xor.c gives its callers what PortPool promises, with the lock, the search,
\* the sleeps, the kills and the shared interrupt register hidden: a port goes
\* from portget to portput through one transfer that has ended.
PoolSpec == Pool!Spec

=============================================================================
