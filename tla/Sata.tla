-------------------------------- MODULE Sata --------------------------------
(***************************************************************************)
(* The SATA driver of devsata.c.  A process that does i/o takes a tag and  *)
(* a request slot, rings the doorbell and sleeps until the interrupt       *)
(* handler finds its tag in the response queue; the device completes       *)
(* requests in any order.  An ATA command (identify, flush) first claims   *)
(* the controller: it holds reqsl and waits until no tag is in use.  The   *)
(* kernel process satastart resets or identifies when the handler asks.    *)
(*                                                                         *)
(* Processes are preempted between any two steps, also within tagsinuse++; *)
(* the handler runs to completion, but the hardware goes on meanwhile.     *)
(***************************************************************************)
EXTENDS Integers, Sequences, FiniteSets, SequencesExt

CONSTANTS
  Procs,      \* processes that read, write or use the ctl file
  Kproc,      \* the satastart kernel process
  NoProc,
  NSlots,     \* request slots (32)
  Depths,     \* the queue depths devices report
  Spinup,     \* whether a device is busy for a while after a reset
  CtlOps,     \* the ATA commands asked for: a subset of {"identify", "flush"}
  Faults,     \* the error causes that occur
  MaxFaults   \* and how many of them in one behaviour (bound)

ASSUME SlotsAssumption == NSlots \in Nat \ {0} /\ Depths \subseteq 1 .. NSlots
ASSUME ProcsAssumption == Kproc \notin Procs /\ NoProc \notin Procs \cup {Kproc}
ASSUME SpinupAssumption == Spinup \in BOOLEAN
ASSUME OpsAssumption == CtlOps \subseteq {"identify", "flush"}

All == Procs \cup {Kproc}
Tags == 0 .. (NSlots - 1)

\* Causes that end every outstanding request.
Fatal == {"devdis", "deverr", "selfdis"}

ASSUME FaultsAssumption ==
  Faults \subseteq Fatal \cup {"devcon", "timeout", "kill"} /\ MaxFaults \in Nat

VARIABLES
  tags, tagnext, tagsinuse, ntags,   \* the tag pool
  reqsl,      \* holder of the QLock
  reqnext,    \* next request slot
  reqsdone,   \* per tag: "ok", "timeout" or "fail"
  atadone,    \* the same for the ATA command
  ataregs,    \* whether the device sent its registers
  start,      \* what satastart must do: "none", "reset" or "identify"
  valid,      \* disk.valid
  pc, loc,    \* the processes and their locals
  queue,      \* requests the device has not completed
  resp,       \* the response queue between respout and respin
  edma,       \* EdmaEnable
  busy,       \* Absy: "no", or busy with a "command" or with "spinup"
  fis, fisena,        \* the fis interrupt and its enable bit
  dmadone, devintr,   \* bits of the hc intr register
  ecause,     \* bits of the edma error cause register
  hnd,        \* the interrupt handler
  faults      \* the faults that have occurred

pool == <<tags, tagnext, tagsinuse, ntags>>
drv == <<reqsl, reqnext, reqsdone, atadone, ataregs, start, valid>>
hw == <<queue, resp, edma, busy, fis, fisena, dmadone, devintr, ecause, faults>>
vars == <<pool, drv, pc, loc, hw, hnd>>

\* After satainit: one tag, and the kick that resets the interface.
Init ==
  /\ tags = [i \in Tags |-> 0] /\ tagnext = 0 /\ tagsinuse = 0 /\ ntags = 1
  /\ reqsl = NoProc
  /\ reqnext = 0
  /\ reqsdone = [t \in Tags |-> "ok"]
  /\ atadone = "ok" /\ ataregs = FALSE
  /\ start = "reset"
  /\ valid = FALSE
  /\ pc = [q \in All |-> "idle"]
  /\ loc = [q \in All |-> [tag |-> 0, slot |-> 0, cnt |-> 0, op |-> "identify"]]
  /\ queue = {} /\ resp = <<>>
  /\ edma = FALSE /\ busy = "no" /\ fis = FALSE /\ fisena = FALSE
  /\ dmadone = FALSE /\ devintr = FALSE
  /\ ecause = {}
  /\ hnd = [pc |-> "out", e |-> {}, done |-> FALSE]
  /\ faults = {}

-----------------------------------------------------------------------------
(* io                                                                      *)

At(q, l) == hnd.pc = "out" /\ pc[q] = l
Goto(q, l) == pc' = [pc EXCEPT ![q] = l]

\* io is called; without a disk it fails at once.
Io(q) ==
  /\ At(q, "idle")
  /\ valid
  /\ Goto(q, "lock")
  /\ UNCHANGED <<pool, drv, loc, hw, hnd>>

\* qlock(&reqsl), for io and for sataclaim.
Lock(q) ==
  /\ reqsl = NoProc
  /\ reqsl' = q
  /\ \/ At(q, "lock") /\ Goto(q, "tagwait")
     \/ At(q, "claim") /\ Goto(q, "drain")
  /\ UNCHANGED <<pool, reqnext, reqsdone, atadone, start, valid, ataregs, loc, hw,
                 hnd>>

\* Mutant: tagfree with <= for <.
TagTake_offbyone(q) ==
  /\ At(q, "tagwait")
  /\ tagsinuse <= ntags
  /\ loc' = [loc EXCEPT ![q].tag = tags[tagnext]]
  /\ tagnext' = (tagnext + 1) % ntags
  /\ Goto(q, "inc")
  /\ UNCHANGED <<tags, tagsinuse, ntags, drv, hw, hnd>>

\* sleep(&tagr, tagfree, nil), with reqsl held; then the tag is taken.
TagTake(q) ==
  /\ At(q, "tagwait")
  /\ tagsinuse < ntags
  /\ loc' = [loc EXCEPT ![q].tag = tags[tagnext]]
  /\ tagnext' = (tagnext + 1) % ntags
  /\ Goto(q, "inc")
  /\ UNCHANGED <<tags, tagsinuse, ntags, drv, hw, hnd>>

\* The load and the store of tagsinuse++ and tagsinuse--.
CountLoad(q) ==
  /\ \/ At(q, "inc") /\ Goto(q, "incstore")
     \/ At(q, "dec") /\ Goto(q, "decstore")
  /\ loc' = [loc EXCEPT ![q].cnt = tagsinuse]
  /\ UNCHANGED <<pool, drv, hw, hnd>>

CountStore(q) ==
  /\ \/ At(q, "incstore") /\ Goto(q, "arm") /\ tagsinuse' = loc[q].cnt + 1
     \/ At(q, "decstore") /\ Goto(q, "idle") /\ tagsinuse' = loc[q].cnt - 1
  /\ UNCHANGED <<tags, tagnext, ntags, drv, loc, hw, hnd>>

\* The next slot is filled in, and the tag's result is reset ...
Arm(q) ==
  /\ At(q, "arm")
  /\ loc' = [loc EXCEPT ![q].slot = reqnext]
  /\ reqnext' = (reqnext + 1) % NSlots
  /\ reqsdone' = [reqsdone EXCEPT ![loc[q].tag] = "timeout"]
  /\ Goto(q, "issue")
  /\ UNCHANGED <<pool, reqsl, atadone, start, valid, ataregs, hw, hnd>>

\* ... before the doorbell.  Enabling edma clears its error causes and the fis
\* interrupt.
Issue(q) ==
  /\ At(q, "issue")
  /\ queue' = queue \cup {[tag |-> loc[q].tag, slot |-> loc[q].slot, proc |-> q]}
  /\ ecause' = IF edma THEN ecause ELSE {}
  /\ fis' = (edma /\ fis)
  /\ edma' = TRUE
  /\ reqsl' = NoProc
  /\ Goto(q, "await")
  /\ UNCHANGED <<pool, reqnext, reqsdone, atadone, start, valid, ataregs, loc,
                 resp, busy, dmadone, devintr, faults, fisena, hnd>>

\* A fault of this kind happens now.
Fault(c) ==
  /\ c \in Faults \ faults
  /\ Cardinality(faults) < MaxFaults
  /\ faults' = faults \cup {c}

\* tsleep returns: the result is in, or a minute has passed.
Await(q) ==
  /\ At(q, "await")
  /\ \/ reqsdone[loc[q].tag] # "timeout" /\ UNCHANGED faults
     \/ Fault("timeout")
  /\ Goto(q, "check")
  /\ UNCHANGED <<pool, drv, loc, queue, resp, edma, busy, dmadone, devintr, ecause,
                 fis, fisena, hnd>>

\* Mutant: the tag is returned before its result is looked at.
Check_anyresult(q) ==
  /\ At(q, "check")
  /\ Goto(q, "return")
  /\ UNCHANGED <<pool, drv, loc, hw, hnd>>

\* Mutant: a request that succeeded does not give its tag back.
Check_leak(q) ==
  /\ At(q, "check")
  /\ Goto(q, "idle")
  /\ UNCHANGED <<pool, drv, loc, hw, hnd>>

\* Only a request that succeeded gives its tag back.
Check(q) ==
  /\ At(q, "check")
  /\ Goto(q, IF reqsdone[loc[q].tag] = "ok" THEN "return" ELSE "idle")
  /\ UNCHANGED <<pool, drv, loc, hw, hnd>>

Return(q) ==
  /\ At(q, "return")
  /\ tags' = [tags EXCEPT ![(tagnext - tagsinuse + ntags) % ntags] = loc[q].tag]
  /\ Goto(q, "dec")
  /\ UNCHANGED <<tagnext, tagsinuse, ntags, drv, loc, hw, hnd>>

-----------------------------------------------------------------------------
(* ATA commands                                                            *)

\* ctl "identify", ctl "flush" and the wstat that flushes.
Ctl(q) ==
  /\ At(q, "idle")
  /\ q \in Procs
  /\ \E op \in CtlOps : loc' = [loc EXCEPT ![q].op = op]
  /\ Goto(q, "claim")
  /\ UNCHANGED <<pool, drv, hw, hnd>>

\* Mutant: the claim does not wait for the last tag.
Drain_nowait(q) ==
  /\ At(q, "drain")
  /\ edma' = FALSE
  /\ queue' = {}
  /\ fisena' = TRUE
  /\ Goto(q, "ata")
  /\ UNCHANGED <<pool, drv, loc, resp, busy, dmadone, devintr, ecause, faults, fis,
                 hnd>>

\* sataclaim waits for the last tag, aborts edma and enables the fis interrupt.
Drain(q) ==
  /\ At(q, "drain")
  /\ tagsinuse = 0
  /\ edma' = FALSE
  /\ queue' = {}
  /\ fisena' = TRUE
  /\ Goto(q, "ata")
  /\ UNCHANGED <<pool, drv, loc, resp, busy, dmadone, devintr, ecause, faults, fis,
                 hnd>>

\* atawait: while the status says busy, ataregs is cleared and the process
\* sleeps until the handler sets it.
AtaBusy(q) ==
  /\ At(q, "ata")
  /\ busy # "no"
  /\ Goto(q, "clear")
  /\ UNCHANGED <<pool, drv, loc, hw, hnd>>

AtaClear(q) ==
  /\ At(q, "clear")
  /\ ataregs' = FALSE
  /\ Goto(q, "regs")
  /\ UNCHANGED <<pool, reqsl, reqnext, reqsdone, atadone, start, valid, loc, hw, hnd>>

AtaRegs(q) ==
  /\ At(q, "regs")
  /\ ataregs
  /\ Goto(q, "ata")
  /\ UNCHANGED <<pool, drv, loc, hw, hnd>>

\* Then the result is reset before the command is written.
AtaCmd(q) ==
  /\ At(q, "ata")
  /\ busy = "no"
  /\ atadone' = "timeout"
  /\ busy' = "command"
  /\ Goto(q, "atawait")
  /\ UNCHANGED <<pool, reqsl, reqnext, reqsdone, start, valid, ataregs, loc, queue,
                 resp, edma, dmadone, devintr, ecause, faults, fis, fisena, hnd>>

\* A flush waits for ever, an identify for a minute.
AtaWake(q) ==
  /\ At(q, "atawait")
  /\ \/ atadone # "timeout" /\ UNCHANGED faults
     \/ loc[q].op = "identify" /\ Fault("timeout")
  /\ Goto(q, "atacheck")
  /\ UNCHANGED <<pool, drv, loc, queue, resp, edma, busy, dmadone, devintr, ecause,
                 fis, fisena, hnd>>

\* A good identify sets the depth and refills the pool, and then may still find
\* that the disk will not do; sataunclaim follows, also after an error.
AtaEnd(q) ==
  /\ At(q, "atacheck")
  /\ \/ /\ loc[q].op = "identify" /\ atadone = "ok"
        /\ ntags' \in Depths
        /\ tags' = [i \in Tags |-> IF i < ntags' THEN i ELSE tags[i]]
        /\ valid' \in {valid, TRUE}
     \/ UNCHANGED <<ntags, tags, valid>>
  /\ reqsl' = NoProc
  /\ fisena' = FALSE
  /\ Goto(q, "idle")
  /\ UNCHANGED <<tagnext, tagsinuse, reqnext, reqsdone, atadone, start, ataregs, loc,
                 queue, resp, edma, busy, fis, dmadone, devintr, ecause, faults, hnd>>

\* A process killed in a sleep leaves by error(Eintr).  Only atacmd's callers
\* have a waserror, which unclaims; io and sataclaim keep tag and reqsl.
Kill(q) ==
  /\ Fault("kill")
  /\ \/ /\ At(q, "await") \/ At(q, "tagwait") \/ At(q, "drain")
        /\ UNCHANGED <<reqsl, fisena>>
     \/ /\ At(q, "regs") \/ At(q, "atawait")
        /\ reqsl' = NoProc /\ fisena' = FALSE
  /\ Goto(q, "idle")
  /\ UNCHANGED <<pool, reqnext, reqsdone, atadone, start, valid, ataregs, loc,
                 queue, resp, edma, busy, dmadone, devintr, ecause, fis, hnd>>

\* satastart takes what is asked; a reset, made without a claim, ends what the
\* device was doing and disables the fis interrupt, and a device that is there
\* announces itself again.
StartTake ==
  /\ At(Kproc, "idle")
  /\ start # "none"
  /\ Goto(Kproc, IF start = "reset" THEN "reset" ELSE "claim")
  /\ start' = "none"
  /\ UNCHANGED <<pool, reqsl, reqnext, reqsdone, atadone, valid, ataregs, loc, hw,
                 hnd>>

StartReset ==
  /\ At(Kproc, "reset")
  /\ queue' = {}
  /\ \/ /\ ecause' = ecause \cup {"devcon"}
        /\ busy' \in IF Spinup THEN {"no", "spinup"} ELSE {"no"}
     \/ UNCHANGED ecause /\ busy' = "no"
  /\ fisena' = FALSE
  /\ Goto(Kproc, "idle")
  /\ UNCHANGED <<pool, drv, loc, resp, edma, dmadone, devintr, faults, fis, hnd>>

-----------------------------------------------------------------------------
(* The hardware                                                            *)

HwDone ==
  /\ edma
  /\ \E r \in queue : queue' = queue \ {r} /\ resp' = Append(resp, r.tag)
  /\ dmadone' = TRUE
  /\ UNCHANGED <<pool, drv, pc, loc, edma, busy, devintr, ecause, faults, fis,
                 fisena, hnd>>

\* The device is no longer busy and sends its registers; after a command with
\* an interrupt.
HwAta ==
  /\ busy # "no"
  /\ busy' = "no"
  /\ fis' = TRUE
  /\ devintr' = (devintr \/ busy = "command")
  /\ UNCHANGED <<pool, drv, pc, loc, queue, resp, edma, dmadone, ecause, faults,
                 fisena, hnd>>

HwError ==
  /\ \E c \in Faults \ {"timeout", "kill"} :
       /\ Fault(c)
       /\ ecause' = ecause \cup {c}
       /\ queue' = IF c \in Fatal THEN {} ELSE queue
       /\ edma' = (edma /\ c # "selfdis")
  /\ UNCHANGED <<pool, drv, pc, loc, resp, busy, dmadone, devintr, fis, fisena,
                 hnd>>

-----------------------------------------------------------------------------
(* sataintr                                                                *)

\* The error causes: the fis interrupt, when enabled, is one of them.
Causes == ecause \cup (IF fis /\ fisena THEN {"transint"} ELSE {})

\* The main cause register, and the error causes, are read once.
IntrEnter ==
  /\ hnd.pc = "out"
  /\ Causes # {} \/ dmadone \/ devintr
  /\ hnd' = [pc |-> IF Causes # {} THEN "err" ELSE "dma",
             e |-> Causes, done |-> dmadone \/ devintr]
  /\ UNCHANGED <<pool, drv, pc, loc, hw>>

\* satakick overwrites start; the causes are looked at in this order.
Kicked(e) ==
  CASE "selfdis" \in e -> "reset"
    [] "selfdis" \notin e /\ "devcon" \in e -> "identify"
    [] e \cap {"selfdis", "devcon"} = {} /\ "devdis" \in e -> "reset"
    [] OTHER -> start

\* Mutant: the dma bit is cleared together with the error causes.
IntrErr_cleardma ==
  /\ hnd.pc = "err"
  /\ IF hnd.e \cap Fatal # {}
     THEN reqsdone' = [t \in Tags |-> "fail"] /\ atadone' = "fail"
     ELSE UNCHANGED <<reqsdone, atadone>>
  /\ start' = Kicked(hnd.e)
  /\ ataregs' = (ataregs \/ "transint" \in hnd.e)
  /\ fis' = (fis /\ "transint" \notin hnd.e)
  /\ ecause' = {} /\ dmadone' = FALSE
  /\ hnd' = [hnd EXCEPT !.pc = IF hnd.done THEN "dma" ELSE "out"]
  /\ UNCHANGED <<pool, reqsl, reqnext, valid, pc, loc, queue, resp, edma, busy,
                 devintr, faults, fisena>>

\* sataabort fails every tag and the ATA command.  At the end all causes are
\* cleared, whether they were read or not.
IntrErr ==
  /\ hnd.pc = "err"
  /\ IF hnd.e \cap Fatal # {}
     THEN reqsdone' = [t \in Tags |-> "fail"] /\ atadone' = "fail"
     ELSE UNCHANGED <<reqsdone, atadone>>
  /\ start' = Kicked(hnd.e)
  /\ ataregs' = (ataregs \/ "transint" \in hnd.e)
  /\ fis' = (fis /\ "transint" \notin hnd.e)
  /\ ecause' = {}
  /\ hnd' = [hnd EXCEPT !.pc = IF hnd.done THEN "dma" ELSE "out"]
  /\ UNCHANGED <<pool, reqsl, reqnext, valid, pc, loc, queue, resp, edma, busy,
                 dmadone, devintr, faults, fisena>>

\* The dma bit is cleared before the response queue is read.
IntrDma ==
  /\ hnd.pc = "dma"
  /\ dmadone' = FALSE
  /\ hnd' = [hnd EXCEPT !.pc = IF dmadone THEN "drain" ELSE "dev"]
  /\ UNCHANGED <<pool, drv, pc, loc, queue, resp, edma, busy, devintr, ecause,
                 faults, fis, fisena>>

IntrDrain ==
  /\ hnd.pc = "drain"
  /\ reqsdone' = [t \in Tags |-> IF t \in Range(resp) THEN "ok" ELSE reqsdone[t]]
  /\ resp' = <<>>
  /\ hnd' = [hnd EXCEPT !.pc = "dev"]
  /\ UNCHANGED <<pool, reqsl, reqnext, atadone, start, valid, ataregs, pc, loc,
                 queue, edma, busy, dmadone, devintr, ecause, faults, fis,
                 fisena>>

IntrDev ==
  /\ hnd.pc = "dev"
  /\ devintr' = FALSE
  /\ atadone' = IF devintr THEN "ok" ELSE atadone
  /\ hnd' = [hnd EXCEPT !.pc = "out"]
  /\ UNCHANGED <<pool, reqsl, reqnext, reqsdone, start, valid, ataregs, pc, loc,
                 queue, resp, edma, busy, dmadone, ecause, faults, fis,
                 fisena>>

-----------------------------------------------------------------------------
Work(q) ==
  \/ Lock(q) \/ TagTake(q) \/ CountLoad(q) \/ CountStore(q) \/ Arm(q) \/ Issue(q)
  \/ Await(q) \/ Check(q) \/ Return(q)
  \/ Drain(q) \/ AtaBusy(q) \/ AtaClear(q) \/ AtaRegs(q) \/ AtaCmd(q) \/ AtaWake(q)
  \/ AtaEnd(q)

Start == StartTake \/ StartReset
Hardware == HwDone \/ HwAta
Handler == IntrErr \/ IntrDma \/ IntrDrain \/ IntrDev

\* What goes on by itself, without a new call or a fault.
Moves == (\E q \in All : Work(q)) \/ Start \/ Hardware \/ IntrEnter \/ Handler

Next == (\E q \in Procs : Io(q) \/ Ctl(q) \/ Kill(q)) \/ HwError \/ Moves

Spec == Init /\ [][Next]_vars

-----------------------------------------------------------------------------
(* Properties                                                              *)

HasTag(q) == pc[q] \in {"inc", "incstore", "arm", "issue", "await", "check", "return"}

\* devsata.c:107 "protected by requiring to hold tag": io hands a tag to one
\* process at a time, so one process sleeps on reqsr[tag].
TagExclusive ==
  \A q, r \in Procs : q # r /\ HasTag(q) /\ HasTag(r) => loc[q].tag # loc[r].tag

\* A late completion is never taken for another request's: a tag that a failed
\* or timed out request still uses in the device is not given to a new one.
NoTagReuse ==
  \A q \in Procs : HasTag(q) =>
    \A r \in queue : r.tag = loc[q].tag => r.proc = q /\ pc[q] \in {"await", "check"}

\* devsata.c:547 "must be called before doing ata commands, outside of edma":
\* while a process that claimed the controller runs an ATA command, no
\* request is queued, no process holds a tag and edma is off.
ClaimQuiet ==
  (\E q \in All : pc[q] \in {"ata", "clear", "regs", "atawait", "atacheck"}) =>
    queue = {} /\ ~edma /\ \A q \in Procs : ~HasTag(q)

\* A completion is never lost between the device and the sleeper in io: the
\* request is still queued, its result is set, or its response is in the
\* queue and an interrupt is still due to read it (sataintr clears the bit
\* first and reads respin after).  Until an error or a disconnect: these end
\* what the device was doing.  So does a reset of satastart, which claims nothing:
\* without an identify from the ctl file (CtlOps) the first one is made before any
\* request.
CompletionDue ==
  \A q \in Procs :
    /\ faults \cap Fatal = {}
    /\ pc[q] = "await"
    /\ reqsdone[loc[q].tag] = "timeout"
    /\ \A r \in queue : r.proc # q
    => loc[q].tag \in Range(resp) /\ (dmadone \/ hnd.pc = "drain")

\* What lets a process go on from where it is: the lock, the condition of its
\* sleep, or for satastart that something is asked of it.  A timeout does not count.
Wakes(q) ==
  CASE pc[q] \in {"lock", "claim"} -> reqsl = NoProc
    [] pc[q] = "tagwait" -> tagsinuse < ntags
    [] pc[q] = "await" -> reqsdone[loc[q].tag] # "timeout"
    [] pc[q] = "drain" -> tagsinuse = 0
    [] pc[q] = "regs" -> ataregs
    [] pc[q] = "atawait" -> atadone # "timeout"
    [] pc[q] = "idle" -> q = Kproc /\ start # "none"
    [] OTHER -> TRUE

\* Something of Moves can happen without a fault: the handler runs or is due, the
\* device has something to do, or a process goes on.
Movable ==
  \/ hnd.pc # "out" \/ Causes # {} \/ dmadone \/ devintr
  \/ busy # "no" \/ (edma /\ queue # {})
  \/ \E q \in All : Wakes(q)

\* The lock, the tags and the sleeps of io, sataclaim and satastart never
\* leave everyone waiting, also when the device connects again: when nothing
\* can move, every process is idle.  Two cases apart: an earlier request that
\* failed, timed out or was killed (it keeps its tag, devsata.c:1096), and an ATA
\* command that satastartreset, which does not claim, has reset, or whose atawait
\* cleared ataregs after the registers came.
NoDeadlock ==
  \/ Movable
  \/ faults \ {"devcon"} # {}
  \/ \E q \in All : pc[q] \in {"regs", "atawait"}
  \/ \A q \in All : pc[q] = "idle"

=============================================================================
