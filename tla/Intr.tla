-------------------------------- MODULE Intr --------------------------------
(***************************************************************************)
(* trap.c and clock.c: the three interrupt registers, the handlers, the     *)
(* nested intrs() of a trap, the clock tick and the links it calls.  One     *)
(* processor: while a trap is handled no process runs, the hardware does.   *)
(* The lo and hi cause registers follow the devices; a bit of the bridge    *)
(* register is latched until it is written 0.                               *)
(***************************************************************************)
EXTENDS Integers, Sequences, FiniteSets

CONSTANTS
  Links,      \* clocks a process may add: a function from names to periods
  MaxTicks    \* expirations of the timer (bound)

ASSUME LinksAssumption == \A l \in DOMAIN Links : Links[l] \in Nat \ {0}
ASSUME TicksAssumption == MaxTicks \in Nat

Lines == [lo |-> <<"sum", "bridge">>, hi |-> <<"uart0">>, bridge |-> <<"cputimer0">>]
AllLines == {"sum", "bridge", "uart0", "cputimer0"}
NoProc == "noproc"

VARIABLES
  handlers,    \* lines whose Handler.r is set
  irqmask,     \* lines that are not masked
  bridgeirq,   \* CPUCSREG->irq
  level,       \* the sorts intrs() is active for, outermost first
  ibits,       \* ibits of each of them
  running,     \* the device's handler that runs: "uart0", "cputimer0" or "none"
  spl,         \* the process that runs with interrupts off, or NoProc
  ticks,       \* m->ticks
  clock0link,  \* the links, last added first
  clock0lock,
  called,      \* history: the ticks each link was called at
  since,       \* history: the tick each link was added at
  expired,     \* history: expirations of the timer
  late,        \* history: expirations while the one before was not cleared
  panicked     \* setpanic() was called

intrVars == <<handlers, irqmask, bridgeirq, level, ibits, running, spl, ticks,
              clock0link, clock0lock, called, since, expired, late, panicked>>
clockVars == <<ticks, clock0link, clock0lock, called, since, expired, late>>

\* trapinit: all handlers unset and all lines masked, but for the two of lo; then
\* clockinit starts the timer.
IntrInit ==
  /\ handlers = {"sum", "bridge", "cputimer0"}
  /\ irqmask = {"sum", "bridge", "cputimer0"}
  /\ bridgeirq = {}
  /\ level = <<>> /\ ibits = [s \in DOMAIN Lines |-> {}] /\ running = "none"
  /\ spl = NoProc
  /\ ticks = 0 /\ clock0link = <<>> /\ clock0lock = NoProc
  /\ called = [l \in DOMAIN Links |-> {}]
  /\ since = [l \in DOMAIN Links |-> -1]
  /\ expired = 0 /\ late = 0
  /\ panicked = FALSE

\* The cause registers, with hi the lines of hi the devices assert.
Cause(s, hi) ==
  CASE s = "hi" -> hi
    [] s = "bridge" -> bridgeirq
    [] s = "lo" -> {l \in {"sum", "bridge"} :
                      IF l = "sum" THEN hi \cap irqmask # {} ELSE bridgeirq \cap irqmask # {}}

\* A process p may take a step: no trap is handled, interrupts are not off for
\* another, and none has panicked.
Runs(p) == level = <<>> /\ spl \in {NoProc, p} /\ ~panicked

\* intrenable and intrdisable: with irqlock held and interrupts off.
intrenable(l) == handlers' = handlers \cup {l} /\ irqmask' = irqmask \cup {l}

intrdisable(l) == handlers' = handlers \ {l} /\ irqmask' = irqmask \ {l}

\* trap, PsrMirq: intrs(Irqlo) reads the cause and the mask.
Trap(hi) ==
  /\ level = <<>> /\ spl = NoProc
  /\ Cause("lo", hi) \cap irqmask # {}
  /\ level' = <<"lo">>
  /\ ibits' = [ibits EXCEPT !["lo"] = Cause("lo", hi) \cap irqmask]
  /\ UNCHANGED <<handlers, irqmask, bridgeirq, running, spl, clockVars, panicked>>

Sort == level[Len(level)]

\* The first line of a sort that is pending and has a handler.
Served(s, l) ==
  /\ l \in ibits[s] \cap handlers
  /\ \A i \in DOMAIN Lines[s] : Lines[s][i] \in ibits[s] \cap handlers =>
       \E j \in DOMAIN Lines[s] : Lines[s][j] = l /\ j <= i

\* The loop of intrs: the handler of the next line is called.  intrhi and
\* intrbridge are handlers that run intrs for their sort.
Serve(hi) ==
  /\ level # <<>> /\ running = "none"
  /\ \E l \in AllLines :
       /\ Served(Sort, l)
       /\ LET s == IF l = "sum" THEN "hi" ELSE "bridge"
              nested == l \in {"sum", "bridge"}
              taken == [ibits EXCEPT ![Sort] = @ \ {l}]
          IN /\ level' = IF nested THEN Append(level, s) ELSE level
             /\ ibits' = IF nested
                         THEN [taken EXCEPT ![s] = Cause(s, hi) \cap irqmask] ELSE taken
             /\ running' = IF nested THEN "none" ELSE l
  /\ UNCHANGED <<handlers, irqmask, bridgeirq, spl, clockVars, panicked>>

\* intrs returns.  Lines without a handler are spurious: all others of the
\* register are written 0.  The last return ends the trap.
IntrsEnd ==
  /\ level # <<>> /\ running = "none"
  /\ ibits[Sort] \cap handlers = {}
  /\ bridgeirq' = IF Sort = "bridge" /\ ibits[Sort] # {}
                  THEN bridgeirq \cap ibits[Sort] ELSE bridgeirq
  /\ ibits' = [ibits EXCEPT ![Sort] = {}]
  /\ level' = SubSeq(level, 1, Len(level) - 1)
  /\ UNCHANGED <<handlers, irqmask, running, spl, clockVars, panicked>>

\* clockintr: one more tick; the links whose period divides it are called if
\* clock0lock is free.
clockintr ==
  /\ running = "cputimer0"
  /\ ticks' = ticks + 1
  /\ called' = IF clock0lock = NoProc
               THEN [l \in DOMAIN Links |->
                       IF (\E i \in DOMAIN clock0link : clock0link[i] = l)
                          /\ ticks' % Links[l] = 0
                       THEN called[l] \cup {ticks'} ELSE called[l]]
               ELSE called
  /\ running' = "clear"
  /\ UNCHANGED <<handlers, irqmask, bridgeirq, level, ibits, spl, clock0link, clock0lock,
                 since, expired, late, panicked>>

\* intrclear(Irqbridge, IRQcputimer0): an expiration since is cleared with it.
clockclear ==
  /\ running = "clear"
  /\ bridgeirq' = bridgeirq \ {"cputimer0"}
  /\ running' = "none"
  /\ UNCHANGED <<handlers, irqmask, level, ibits, spl, clockVars, panicked>>

\* Mutant: lock for ilock, so that the clock may interrupt.
LinkLock_lock(p, l) ==
  /\ Runs(p) /\ since[l] < 0 /\ clock0lock = NoProc
  /\ clock0lock' = p
  /\ UNCHANGED <<handlers, irqmask, bridgeirq, level, ibits, running, spl, ticks, clock0link,
                 called, since, expired, late, panicked>>

\* addclock0link: ilock turns interrupts off.
LinkLock(p, l) ==
  /\ Runs(p) /\ since[l] < 0 /\ clock0lock = NoProc
  /\ clock0lock' = p /\ spl' = p
  /\ UNCHANGED <<handlers, irqmask, bridgeirq, level, ibits, running, ticks, clock0link,
                 called, since, expired, late, panicked>>

LinkAdd(p, l) ==
  /\ Runs(p) /\ clock0lock = p /\ since[l] < 0
  /\ clock0link' = <<l>> \o clock0link
  /\ since' = [since EXCEPT ![l] = ticks]
  /\ clock0lock' = NoProc /\ spl' = NoProc
  /\ UNCHANGED <<handlers, irqmask, bridgeirq, level, ibits, running, ticks, called,
                 expired, late, panicked>>

\* setpanic, from a fault of a process: all lines masked, interrupts on, and the
\* console is written by serialputs from then on.
setpanic ==
  /\ ~panicked /\ level = <<>> /\ spl = NoProc
  /\ irqmask' = {}
  /\ panicked' = TRUE
  /\ UNCHANGED <<handlers, bridgeirq, level, ibits, running, spl, clockVars>>

\* The timer expires.
Expire ==
  /\ expired < MaxTicks
  /\ expired' = expired + 1
  /\ late' = IF "cputimer0" \in bridgeirq THEN late + 1 ELSE late
  /\ bridgeirq' = bridgeirq \cup {"cputimer0"}
  /\ UNCHANGED <<handlers, irqmask, level, ibits, running, spl, ticks, clock0link,
                 clock0lock, called, since, panicked>>

-----------------------------------------------------------------------------
(* Properties                                                              *)

\* Every expiration of the timer is one tick, once its interrupt is handled,
\* except one that comes before the one before it was cleared; and a link is
\* called at every multiple of its period since it was added, and at no other
\* tick: clockintr never finds clock0lock taken.
ClockRight ==
  LET pending == IF "cputimer0" \in bridgeirq /\ running # "clear" THEN 1 ELSE 0
  IN /\ expired = ticks + late + pending
     /\ \A l \in DOMAIN Links :
          called[l] = IF since[l] < 0 THEN {}
                      ELSE {t \in (since[l] + 1) .. ticks : t % Links[l] = 0}

=============================================================================
