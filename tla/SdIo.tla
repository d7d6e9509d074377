-------------------------------- MODULE SdIo --------------------------------
(***************************************************************************)
(* sdioio and sdcmd of kwsdio.c: a read or write of n blocks is done in    *)
(* chunks.  Each is one data command, before which a write may send the    *)
(* pair of commands 55 and 23 (preerase).  sdcmd awaits the end of its     *)
(* command by the status register, with a timeout.  The QLock is dropped   *)
(* between two chunks.  devbs.c keeps the Store locked, so a card that was *)
(* valid stays valid until the call returns (BlockStore.tla).              *)
(***************************************************************************)
EXTENDS Integers, FiniteSets

CONSTANTS
  Procs, NoProc,
  MaxChunk,   \* blocks in one command (1024)
  Sizes,      \* sizes of the calls, in blocks
  MaxTails,   \* bound on the earlier commands whose data is on its way
  MaxFaults   \* bound on the kills and errors

ASSUME ChunkAssumption == MaxChunk \in Nat \ {0}
ASSUME SizesAssumption == Sizes \subseteq Nat \ {0}
ASSUME FaultsAssumption == MaxFaults \in Nat /\ MaxTails \in Nat /\ NoProc \notin Procs

VARIABLES
  qlock,      \* holder of the QLock of sdio
  pc,
  n, h,       \* of each call
  kind,       \* the command each call is at: "app", "erase" or "data"
  s,          \* sdcmd's s: whether its sleep was interrupted
  v,          \* sdcmd's v: the status bits that end its sleep
  cmd,        \* the command the controller executes: its call, start and blocks,
              \* and whether its response has come
  st,         \* the status register
  stirq,      \* the status bits that raise an interrupt
  moved,      \* per call: the blocks of the buffer that were transferred
  tails,      \* the calls of earlier commands whose data is still on its way
  crossed,    \* history: the calls that gave a command while data was on its way
  late,       \* history: the calls that are over and were crossed, or whose
              \* command was given up by the timeout
  faults

vars == <<qlock, pc, n, h, kind, s, v, cmd, st, stirq, moved, tails, late, crossed, faults>>

NoCmd == [proc |-> NoProc, kind |-> "none", from |-> 0, count |-> 0, resp |-> FALSE]

Init ==
  /\ qlock = NoProc
  /\ pc = [q \in Procs |-> "idle"]
  /\ n = [q \in Procs |-> 0] /\ h = [q \in Procs |-> 0]
  /\ kind = [q \in Procs |-> "data"]
  /\ s = [q \in Procs |-> FALSE] /\ v = [q \in Procs |-> {}]
  /\ cmd = NoCmd
  /\ st = {} /\ stirq = {}
  /\ moved = [q \in Procs |-> {}]
  /\ tails = {} /\ late = {} /\ crossed = {}
  /\ faults = 0

Goto(q, l) == pc' = [pc EXCEPT ![q] = l]
Fault == faults < MaxFaults /\ faults' = faults + 1
Unlock == qlock' = NoProc

-----------------------------------------------------------------------------
(* sdioio                                                                  *)

Call(q) ==
  /\ pc[q] = "idle"
  /\ \E k \in Sizes : n' = [n EXCEPT ![q] = k]
  /\ Goto(q, "lock")
  /\ UNCHANGED <<qlock, h, kind, s, v, cmd, st, stirq, moved, tails, late, crossed, faults>>

\* With the lock a chunk starts: with the preerase pair, or with the data.
Lock(q) ==
  /\ pc[q] = "lock"
  /\ qlock = NoProc
  /\ qlock' = q
  /\ \E k \in {"app", "data"} : kind' = [kind EXCEPT ![q] = k]
  /\ Goto(q, "busy")
  /\ UNCHANGED <<n, h, s, v, cmd, st, stirq, moved, tails, late, crossed, faults>>

\* The blocks of the next command: nn starts from n, not from what is left.
Chunk(q) == IF n[q] > MaxChunk THEN MaxChunk ELSE n[q]

\* The call is over, and with it what it kept in its variables.
Leave(q) ==
  /\ Goto(q, "idle")
  /\ n' = [n EXCEPT ![q] = 0] /\ h' = [h EXCEPT ![q] = 0] /\ kind' = [kind EXCEPT ![q] = "data"]
  /\ s' = [s EXCEPT ![q] = FALSE] /\ v' = [v EXCEPT ![q] = {}]
  /\ moved' = [moved EXCEPT ![q] = {}]
  /\ late' = late \cup (crossed \cap {q}) /\ crossed' = crossed \ {q}

\* Mutant: the lock is kept.
Fail_keeplock(q) == UNCHANGED qlock /\ Leave(q)

\* errorsd
Fail(q) == Unlock /\ Leave(q)

\* Mutant: the loop ends one chunk early.
Advance_early(q) ==
  /\ pc[q] = "next"
  /\ h' = [h EXCEPT ![q] = @ + Chunk(q)]
  /\ Unlock
  /\ Goto(q, IF h[q] + 2 * Chunk(q) > n[q] THEN "return" ELSE "lock")
  /\ UNCHANGED <<n, kind, s, v, cmd, st, stirq, moved, tails, late, crossed, faults>>

\* A chunk is done; between two the lock is dropped.
Advance(q) ==
  /\ pc[q] = "next"
  /\ h' = [h EXCEPT ![q] = @ + Chunk(q)]
  /\ Unlock
  /\ Goto(q, IF h'[q] >= n[q] THEN "return" ELSE "lock")
  /\ UNCHANGED <<n, kind, s, v, cmd, st, stirq, moved, tails, late, crossed, faults>>

Return(q) ==
  /\ pc[q] = "return"
  /\ Leave(q)
  /\ UNCHANGED <<qlock, cmd, st, stirq, tails, faults>>

-----------------------------------------------------------------------------
(* sdcmd                                                                   *)

\* Of the controller's state sdcmd reads HScmdinhibit and HScardbusy: they may be
\* clear while the data of a command that has its response is still on its way.
\* After 50 looks the card is busy.
Ready(q) ==
  /\ pc[q] = "busy"
  /\ \/ /\ cmd = NoCmd \/ (cmd.resp /\ Cardinality(tails) < MaxTails)
        /\ Goto(q, "clear")
        /\ UNCHANGED <<qlock, n, h, kind, s, v, moved, late, crossed>>
     \/ (cmd # NoCmd \/ tails # {}) /\ Fail(q)
  /\ UNCHANGED <<cmd, st, stirq, tails, faults>>

\* The status is cleared.  Data still on its way is that of a command that was
\* given up, and will set the status of this one.
Clear(q) ==
  /\ pc[q] = "clear"
  /\ st' = {}
  /\ IF cmd = NoCmd /\ tails = {}
     THEN late' = late \ {q} /\ UNCHANGED crossed
     ELSE crossed' = crossed \cup {q} /\ UNCHANGED late
  /\ Goto(q, "issue")
  /\ UNCHANGED <<qlock, n, h, kind, s, v, cmd, stirq, moved, tails, faults>>

\* The command register is written ...
Issue(q) ==
  /\ pc[q] = "issue"
  /\ cmd' = [proc |-> q, kind |-> kind[q], from |-> h[q],
             count |-> IF kind[q] = "data" THEN Chunk(q) ELSE 0, resp |-> FALSE]
  /\ tails' = IF cmd = NoCmd THEN tails ELSE tails \cup {cmd.proc}
  /\ s' = [s EXCEPT ![q] = FALSE]
  /\ moved' = [moved EXCEPT ![q] = IF h[q] = 0 THEN {} ELSE @]
  /\ Goto(q, "enable")
  /\ UNCHANGED <<qlock, n, h, kind, v, st, stirq, late, crossed, faults>>

need(q) == IF kind[q] = "data" THEN "dma" ELSE "cmd"

\* ... then the interrupts enabled, and the register read back into v.
Enable(q) ==
  /\ pc[q] = "enable"
  /\ stirq' = {need(q), "error"}
  /\ Goto(q, "readback")
  /\ UNCHANGED <<qlock, n, h, kind, s, v, cmd, st, moved, tails, late, crossed, faults>>

ReadBack(q) ==
  /\ pc[q] = "readback"
  /\ v' = [v EXCEPT ![q] = stirq]
  /\ Goto(q, "sleep")
  /\ UNCHANGED <<qlock, n, h, kind, s, cmd, st, stirq, moved, tails, late, crossed, faults>>

\* tsleep returns: sdiodone finds a bit set, and disables the interrupts ...
Wake(q) ==
  /\ pc[q] = "sleep"
  /\ st \cap v[q] # {}
  /\ stirq' = {} /\ v' = [v EXCEPT ![q] = {}]
  /\ Goto(q, "check")
  /\ UNCHANGED <<qlock, n, h, kind, s, cmd, st, moved, tails, late, crossed, faults>>

\* ... or five seconds have passed.
Timeout(q) ==
  /\ pc[q] = "sleep"
  /\ late' = late \cup {q} /\ v' = [v EXCEPT ![q] = {}]
  /\ Goto(q, "check")
  /\ UNCHANGED <<qlock, n, h, kind, s, cmd, st, stirq, moved, tails, crossed, faults>>

\* Mutant: a killed process leaves at once.
Kill_leave(q) ==
  /\ pc[q] = "sleep" /\ ~s[q]
  /\ Fault
  /\ Fail(q)
  /\ UNCHANGED <<cmd, st, stirq, tails>>

\* A killed process is noted in s and sleeps on until the command has ended.
Kill(q) ==
  /\ pc[q] = "sleep" /\ ~s[q]
  /\ Fault
  /\ s' = [s EXCEPT ![q] = TRUE]
  /\ UNCHANGED <<qlock, pc, n, h, kind, v, cmd, st, stirq, moved, tails, late, crossed>>

\* Neither interrupted, nor an error, nor a timeout.
Succeeded(q) == ~s[q] /\ "error" \notin st /\ need(q) \in st

\* sdcmd returns; the next command of the chunk follows.  A response may still
\* have a bad status.
Check(q) ==
  /\ pc[q] = "check"
  /\ \/ /\ Succeeded(q)
        /\ kind' = [kind EXCEPT ![q] = IF @ = "app" THEN "erase" ELSE "data"]
        /\ Goto(q, CASE kind[q] = "app" -> "clear"
                     [] kind[q] = "erase" -> "busy"
                     [] OTHER -> "next")
        /\ UNCHANGED <<qlock, n, h, s, v, moved, late, crossed, faults>>
     \/ ~Succeeded(q) /\ Fail(q) /\ UNCHANGED faults
     \/ Succeeded(q) /\ Fault /\ Fail(q)
  /\ UNCHANGED <<cmd, st, stirq, tails>>

-----------------------------------------------------------------------------
(* The controller and sdiointr                                             *)

\* The response to a data command arrives before its data.
HwResponse ==
  /\ cmd.kind = "data" /\ ~cmd.resp
  /\ st' = st \cup {"cmd"}
  /\ cmd' = [cmd EXCEPT !.resp = TRUE]
  /\ UNCHANGED <<qlock, pc, n, h, kind, s, v, stirq, moved, tails, late, crossed, faults>>

\* The command ends well, a data command after its response, or with an error;
\* the host state is idle again.
HwDone ==
  /\ cmd # NoCmd
  /\ \/ /\ cmd.kind = "data" => cmd.resp
        /\ moved' = [moved EXCEPT ![cmd.proc] = @ \cup cmd.from .. (cmd.from + cmd.count - 1)]
        /\ st' = st \cup {IF cmd.kind = "data" THEN "dma" ELSE "cmd"}
        /\ UNCHANGED faults
     \/ /\ Fault
        /\ st' = st \cup {"error"}
        /\ UNCHANGED moved
  /\ cmd' = NoCmd
  /\ UNCHANGED <<qlock, pc, n, h, kind, s, v, stirq, tails, late, crossed>>

\* The data of an earlier command ends.
HwTail ==
  \E q \in tails :
    /\ tails' = tails \ {q}
    /\ \/ st' = st \cup {"dma"} /\ UNCHANGED faults
       \/ st' = st \cup {"error"} /\ Fault
    /\ UNCHANGED <<qlock, pc, n, h, kind, s, v, cmd, stirq, moved, late, crossed>>

\* sdiointr disables the interrupts and wakes; the status stays.
sdiointr ==
  /\ stirq \cap st # {}
  /\ stirq' = {}
  /\ UNCHANGED <<qlock, pc, n, h, kind, s, v, cmd, st, moved, tails, late, crossed, faults>>

Work(q) ==
  \/ Lock(q) \/ Advance(q) \/ Return(q) \/ Ready(q) \/ Clear(q) \/ Issue(q) \/ Enable(q)
  \/ ReadBack(q) \/ Wake(q) \/ Timeout(q) \/ Check(q)

Next ==
  \/ \E q \in Procs : Call(q) \/ Work(q) \/ Kill(q)
  \/ HwResponse \/ HwDone \/ HwTail \/ sdiointr

Spec == Init /\ [][Next]_vars

\* A runnable process runs, gets the QLock in its turn, and sleeps for at most
\* the timeout.
FairSpec == Spec /\ \A q \in Procs : SF_vars(Work(q))

-----------------------------------------------------------------------------
(* Properties                                                              *)

\* A call that returns has transferred every block it was asked for, however
\* many chunks it took and whoever used the card in between.  One case is excepted:
\* it gave a command while the data of one that had timed out was on its way, the
\* end of which it takes for that of its own.
AllMoved ==
  \A q \in Procs : pc[q] = "return" /\ q \notin crossed => 0 .. (n[q] - 1) \subseteq moved[q]

\* The controller uses the buffer of a call that no longer waits for it only
\* after the five seconds, of its own command or of one whose data crossed its
\* own: neither an error nor a kill makes sdcmd return while its transfer goes on.
BufferLive ==
  /\ cmd # NoCmd /\ pc[cmd.proc] \notin {"enable", "readback", "sleep"} =>
       cmd.proc \in late \cup crossed
  /\ tails \subseteq late \cup crossed

\* Every call returns.
CallsReturn == \A q \in Procs : pc[q] = "lock" ~> pc[q] = "idle"

=============================================================================
