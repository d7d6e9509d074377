-------------------------------- MODULE Uart --------------------------------
(***************************************************************************)
(* uartkirkwood.c on the interrupts of trap.c: the console's transmitter    *)
(* and receiver, their interrupt, the control requests that reprogram the   *)
(* line, and the polled output after a panic.  The port's uartkick is        *)
(* external: it calls kw_kick with interrupts off; so is its flow control,    *)
(* which may hold the output back and let it go on at any time.              *)
(*                                                                         *)
(* The device is a 16550: LSRthre says the transmit fifo is empty, the      *)
(* interrupt for it comes when it becomes empty and goes when iir is read;  *)
(* with LCRdivlatch set the register of thr and rbr is dll.  With loopback    *)
(* set the transmitter feeds the receiver and the line is cut off.           *)
(***************************************************************************)
EXTENDS Intr, Functions

CONSTANTS
  FifoSize,    \* entries of the two fifos, and turns of the loop of kw_kick (16)
  Trigger,     \* received characters that raise the interrupt (4)
  MaxEvents,   \* writes, arrivals, control requests and ticks together (bound)
  PanicText    \* characters printed after a panic

ASSUME FifoAssumption == FifoSize \in Nat \ {0, 1} /\ Trigger \in 1 .. FifoSize
ASSUME UartBounds == MaxEvents \in Nat /\ PanicText \in Nat

Writer == "writer"
Ctl == "ctl"

VARIABLES
  iena,        \* Ctlr.iena
  ier,         \* IERrx|IERtx are set
  fifo,        \* Ctlr.fena # 0 and FCRenable
  lcr,         \* LCRdivlatch, word length, stop bits and parity
  mcr,         \* RTS and loopback
  divisor,     \* dll and dlh
  uart,        \* Uart: baud, bits, stop and parity
  held,        \* Uart: cts = 0 or blocked
  oq,          \* characters written and not passed to thr
  txfifo, rxfifo,
  thri,        \* the transmit interrupt is pending
  rxto,        \* received characters have waited too long
  lsroe,       \* LSRrunerr
  kick,        \* who runs kw_kick, and its i
  iir,         \* v of kw_intr
  rdlsr,       \* lsr of kw_read
  ctlop,       \* the control request under way
  puts,        \* serialputs: characters done, and whether the wait has ended
  wrote, arrived, nctl,
  refused,     \* history: the last kw_kick found held and returned
  sent,        \* history: characters that left the transmitter
  got,         \* history: characters passed to uartrecv
  oerr,        \* Uart.oerr
  perr,        \* the characters counted in Uart.perr or Uart.ferr
  bad,         \* history: characters that arrived damaged
  overrun,     \* history: characters that found it full, and if it was a fifo
  cleared,     \* history: characters were in a fifo that was turned off or on
  raced        \* history: thr or rbr was used while LCRdivlatch was set

txVars == <<oq, txfifo, thri, kick, sent, wrote>>
rxVars == <<rxfifo, rxto, lsroe, rdlsr, arrived, got, oerr, perr, bad, overrun>>
lineVars == <<lcr, mcr, divisor, uart, ctlop, nctl>>
modeVars == <<iena, ier, fifo, cleared>>
flowVars == <<held, refused>>
uartVars == <<txVars, rxVars, lineVars, modeVars, flowVars, iir, puts, raced>>

NoKick == [by |-> NoProc, i |-> 0]
NoCtl == [pc |-> "none"]
Depth == IF fifo THEN FifoSize ELSE 1
MoreEvents == wrote + arrived + nctl + expired < MaxEvents
Divisor(baud) == <<"divisor of", baud>>

\* uartconsole: enabled without interrupts, b115200 l8 pn s1.
UartInit ==
  /\ iena = FALSE /\ ier = FALSE /\ fifo = FALSE /\ cleared = FALSE
  /\ lcr = [dlab |-> FALSE, bits |-> 8, stop |-> 1, parity |-> "n", brk |-> FALSE]
  /\ mcr = [rts |-> TRUE, loop |-> FALSE]
  /\ divisor = Divisor(115200)
  /\ uart = [baud |-> 115200, bits |-> 8, stop |-> 1, parity |-> "n"]
  /\ ctlop = NoCtl /\ nctl = 0 /\ held = FALSE /\ refused = FALSE
  /\ oq = <<>> /\ txfifo = <<>> /\ thri = FALSE /\ kick = NoKick /\ sent = <<>> /\ wrote = 0
  /\ rxfifo = <<>> /\ rxto = FALSE /\ lsroe = FALSE /\ rdlsr = {} /\ arrived = 0
  /\ got = <<>> /\ oerr = 0 /\ perr = {} /\ bad = {} /\ overrun = {}
  /\ iir = "none" /\ puts = [n |-> 0, thre |-> FALSE] /\ raced = FALSE

-----------------------------------------------------------------------------
(* The registers                                                           *)

Iir ==
  IF ~ier THEN "none"
  ELSE IF Len(rxfifo) >= (IF fifo THEN Trigger ELSE 1) THEN "rxdata"
  ELSE IF rxto THEN "timeout"
  ELSE IF thri THEN "thrempty" ELSE "none"
Hi == IF Iir # "none" THEN {"uart0"} ELSE {}
Thre == txfifo = <<>>

\* A write to thr: a character to the fifo (one too many is lost), or the low
\* byte of the divisor.
WriteThr(c) ==
  IF lcr.dlab
  THEN /\ divisor' = <<"character", c>> /\ raced' = TRUE /\ UNCHANGED <<txfifo, thri>>
  ELSE /\ txfifo' = IF Len(txfifo) < Depth THEN Append(txfifo, c) ELSE txfifo
       /\ thri' = FALSE /\ UNCHANGED <<divisor, raced>>

-----------------------------------------------------------------------------
(* Output                                                                  *)

\* uartwrite: a character is queued and uartkick called.
Write ==
  /\ Runs(Writer) /\ iena /\ kick = NoKick /\ MoreEvents
  /\ wrote' = wrote + 1
  /\ oq' = Append(oq, <<"w", wrote + 1>>)
  /\ kick' = [by |-> Writer, i |-> 0] /\ spl' = Writer
  /\ UNCHANGED <<txfifo, thri, sent, rxVars, lineVars, modeVars, flowVars, iir, puts, raced>>
  /\ UNCHANGED <<handlers, irqmask, bridgeirq, level, ibits, running, clockVars, panicked>>

\* Whoever called kw_kick goes on: the process, or kw_intr.
KickEnd ==
  /\ kick' = NoKick
  /\ spl' = IF kick.by = Writer THEN NoProc ELSE spl

\* Mutant: the loop ends without the test of LSRthre.
kw_kick_nothre ==
  /\ kick # NoKick
  /\ refused' = IF kick.i = 0 THEN held ELSE refused
  /\ IF (kick.i = 0 /\ held) \/ kick.i >= FifoSize \/ oq = <<>>
     THEN KickEnd /\ UNCHANGED <<oq, txfifo, thri, divisor, raced>>
     ELSE /\ WriteThr(Head(oq)) /\ oq' = Tail(oq)
          /\ kick' = [kick EXCEPT !.i = @ + 1] /\ UNCHANGED spl

\* One turn of the loop of kw_kick, which returns before the first if the output
\* is held.
kw_kick ==
  /\ kick # NoKick
  /\ refused' = IF kick.i = 0 THEN held ELSE refused
  /\ IF (kick.i = 0 /\ held) \/ kick.i >= FifoSize \/ ~Thre \/ oq = <<>>
     THEN KickEnd /\ UNCHANGED <<oq, txfifo, thri, divisor, raced>>
     ELSE /\ WriteThr(Head(oq)) /\ oq' = Tail(oq)
          /\ kick' = [kick EXCEPT !.i = @ + 1] /\ UNCHANGED spl

Kick ==
  /\ kw_kick
  /\ UNCHANGED <<sent, wrote, held, rxVars, modeVars, lcr, mcr, uart, ctlop, nctl, iir, puts>>
  /\ UNCHANGED <<handlers, irqmask, bridgeirq, level, ibits, running, clockVars, panicked>>

\* The receiver has a character, whole or damaged.
Receive(dmg) ==
  /\ arrived' = arrived + 1
  /\ bad' = IF dmg THEN bad \cup {arrived'} ELSE bad
  /\ IF Len(rxfifo) < Depth
     THEN rxfifo' = Append(rxfifo, [c |-> arrived', bad |-> dmg]) /\ UNCHANGED <<lsroe, overrun>>
     ELSE lsroe' = TRUE /\ overrun' = overrun \cup {<<arrived', fifo>>} /\ UNCHANGED rxfifo

\* The device sends a character, to its own receiver in loopback.
Send ==
  /\ txfifo # <<>>
  /\ sent' = Append(sent, Head(txfifo))
  /\ txfifo' = Tail(txfifo)
  /\ thri' = (thri \/ txfifo' = <<>>)
  /\ IF mcr.loop THEN Receive(FALSE) ELSE UNCHANGED <<arrived, bad, rxfifo, lsroe, overrun>>
  /\ UNCHANGED <<rxto, rdlsr, got, oerr, perr, oq, kick, wrote, lineVars, modeVars, flowVars,
                 iir, puts, raced, intrVars>>

\* serialputs.
MoreText == puts.n < PanicText

\* serialputc after a panic: wait for LSRthre, then write thr.
serialputc ==
  /\ panicked /\ MoreText
  /\ IF puts.thre
     THEN /\ WriteThr(<<"panic", puts.n + 1>>)
          /\ puts' = [n |-> puts.n + 1, thre |-> FALSE]
     ELSE /\ Thre
          /\ puts' = [puts EXCEPT !.thre = TRUE]
          /\ UNCHANGED <<txfifo, thri, divisor, raced>>
  /\ UNCHANGED <<oq, kick, sent, wrote, rxVars, modeVars, flowVars, lcr, mcr, uart, ctlop, nctl,
                 iir, intrVars>>

-----------------------------------------------------------------------------
(* Interrupt and input                                                     *)

\* v&IRRrxdata.
Receives(v) == v \in {"rxdata", "timeout"}

\* Mutant: the bit of IRRthrempty is not looked at.
Empties_never(v) == FALSE

\* v&IRRthrempty.
Empties(v) == v = "thrempty"

\* kw_intr reads iir, which ends a pending transmit interrupt it reports.
kw_intr ==
  /\ running = "uart0" /\ iir = "none"
  /\ IF Receives(Iir) \/ Empties(Iir)
     THEN iir' = Iir /\ UNCHANGED running
     ELSE running' = "none" /\ UNCHANGED iir
  /\ thri' = (thri /\ Iir # "thrempty")
  /\ kick' = IF Empties(Iir) THEN [by |-> "intr", i |-> 0] ELSE kick
  /\ UNCHANGED <<oq, txfifo, sent, wrote, rxVars, lineVars, modeVars, flowVars, puts, raced>>
  /\ UNCHANGED <<handlers, irqmask, bridgeirq, level, ibits, spl, clockVars, panicked>>

\* Mutant: a damaged character is counted and passed on.
Passed_damaged(x) == Append(got, x.c)

\* uartrecv, unless LSRbi, LSRframeerr or LSRparerr is set.
Passed(x) == IF x.bad THEN got ELSE Append(got, x.c)

\* The loop of kw_read: lsr is read (and its error bits cleared), then rbr; a
\* damaged character is counted and dropped.  With LCRdivlatch set rbr is dll and
\* the character stays.
kw_read ==
  IF rdlsr = {}
  THEN /\ rdlsr' = {"read"} \cup (IF lsroe THEN {"oe"} ELSE {})
                   \cup (IF rxfifo # <<>> THEN {"rx"} ELSE {})
       /\ lsroe' = FALSE
       /\ oerr' = IF rxfifo # <<>> /\ lsroe THEN oerr + 1 ELSE oerr
       /\ perr' = IF rxfifo # <<>> /\ Head(rxfifo).bad THEN perr \cup {Head(rxfifo).c} ELSE perr
       /\ UNCHANGED <<rxfifo, rxto, got, raced, running, iir>>
  ELSE IF "rx" \notin rdlsr
  THEN /\ running' = "none" /\ iir' = "none" /\ rdlsr' = {}
       /\ UNCHANGED <<rxfifo, rxto, lsroe, got, oerr, perr, raced>>
  ELSE IF lcr.dlab
  THEN /\ raced' = TRUE /\ rdlsr' = {}
       /\ UNCHANGED <<rxfifo, rxto, lsroe, got, oerr, perr, running, iir>>
  ELSE /\ rxfifo' = Tail(rxfifo) /\ rxto' = FALSE
       /\ got' = Passed(Head(rxfifo))
       /\ rdlsr' = {}
       /\ UNCHANGED <<lsroe, oerr, perr, raced, running, iir>>

Read ==
  /\ running = "uart0" /\ Receives(iir)
  /\ kw_read
  /\ UNCHANGED <<arrived, bad, overrun, txVars, lineVars, modeVars, flowVars, puts>>
  /\ UNCHANGED <<handlers, irqmask, bridgeirq, level, ibits, spl, clockVars, panicked>>

\* The kick of kw_intr is done.
KickedIntr ==
  /\ running = "uart0" /\ Empties(iir) /\ kick = NoKick
  /\ running' = "none" /\ iir' = "none"
  /\ UNCHANGED <<txVars, rxVars, lineVars, modeVars, flowVars, puts, raced>>
  /\ UNCHANGED <<handlers, irqmask, bridgeirq, level, ibits, spl, clockVars, panicked>>

\* A character arrives on the line.
Arrive ==
  /\ MoreEvents /\ ~mcr.loop
  /\ \E dmg \in BOOLEAN : Receive(dmg)
  /\ UNCHANGED <<rxto, rdlsr, got, oerr, perr, txVars, lineVars, modeVars, flowVars, iir, puts,
                 raced, intrVars>>

RxTimeout ==
  /\ rxfifo # <<>> /\ ~rxto
  /\ rxto' = TRUE
  /\ UNCHANGED <<rxfifo, lsroe, rdlsr, arrived, got, oerr, perr, bad, overrun,
                 txVars, lineVars, modeVars, flowVars, iir, puts, raced, intrVars>>

-----------------------------------------------------------------------------
(* Control requests: one at a time, the port holds the Uart's lock.         *)

\* kw_fifo: a change of FCRenable empties both fifos.
SetFifo(on) ==
  /\ fifo' = on
  /\ IF fifo = on
     THEN UNCHANGED <<txfifo, rxfifo, rxto, thri, cleared>>
     ELSE /\ txfifo' = <<>> /\ rxfifo' = <<>> /\ rxto' = FALSE
          /\ thri' = (thri \/ txfifo # <<>>)
          /\ cleared' = (cleared \/ txfifo # <<>> \/ rxfifo # <<>>)

\* kw_enable: the fifos, then ier, then the interrupt, then RTS.
kw_enable ==
  /\ Runs(Ctl) /\ ctlop = NoCtl /\ ~iena
  /\ SetFifo(TRUE)
  /\ ctlop' = [pc |-> "enable"]
  /\ UNCHANGED <<iena, ier, lcr, mcr, divisor, uart, nctl, oq, kick, sent, wrote, lsroe, rdlsr,
                 arrived, got, oerr, perr, bad, overrun, flowVars, iir, puts, raced, intrVars>>

Enable ==
  /\ Runs(Ctl) /\ ctlop.pc = "enable"
  /\ ier' = TRUE /\ iena' = TRUE
  /\ thri' = (thri \/ (~ier /\ Thre))
  /\ intrenable("uart0")
  /\ mcr' = [mcr EXCEPT !.rts = TRUE]
  /\ ctlop' = NoCtl
  /\ UNCHANGED <<fifo, cleared, lcr, divisor, uart, nctl, oq, txfifo, kick, sent, wrote,
                 rxVars, flowVars, iir, puts, raced>>
  /\ UNCHANGED <<bridgeirq, level, ibits, running, spl, clockVars, panicked>>

\* kw_disable: RTS off and the fifos off, then the interrupt.
kw_disable ==
  /\ Runs(Ctl) /\ ctlop = NoCtl /\ iena /\ MoreEvents
  /\ nctl' = nctl + 1
  /\ mcr' = [mcr EXCEPT !.rts = FALSE]
  /\ SetFifo(FALSE)
  /\ ctlop' = [pc |-> "disable"]
  /\ UNCHANGED <<iena, ier, lcr, divisor, uart, oq, kick, sent, wrote, lsroe, rdlsr,
                 arrived, got, oerr, perr, bad, overrun, flowVars, iir, puts, raced, intrVars>>

Disable ==
  /\ Runs(Ctl) /\ ctlop.pc = "disable"
  /\ intrdisable("uart0")
  /\ iena' = FALSE
  /\ ctlop' = NoCtl
  /\ UNCHANGED <<ier, fifo, cleared, lcr, mcr, divisor, uart, nctl, txVars, rxVars, flowVars, iir,
                 puts, raced>>
  /\ UNCHANGED <<bridgeirq, level, ibits, running, spl, clockVars, panicked>>

\* Mutant: LCRdivlatch is not put back.
kw_baud_latched(b) ==
  CASE ctlop.pc = "none" ->
         /\ lcr' = [lcr EXCEPT !.dlab = TRUE] /\ ctlop' = [pc |-> "baud", baud |-> b]
         /\ UNCHANGED <<divisor, uart>>
    [] ctlop.pc = "baud" ->
         /\ divisor' = Divisor(ctlop.baud) /\ ctlop' = [ctlop EXCEPT !.pc = "latch"]
         /\ UNCHANGED <<lcr, uart>>
    [] ctlop.pc = "latch" ->
         /\ ctlop' = NoCtl
         /\ uart' = [uart EXCEPT !.baud = ctlop.baud] /\ UNCHANGED <<divisor, lcr>>

\* kw_baud: LCRdivlatch on, the divisor, LCRdivlatch off.
kw_baud(b) ==
  CASE ctlop.pc = "none" ->
         /\ lcr' = [lcr EXCEPT !.dlab = TRUE] /\ ctlop' = [pc |-> "baud", baud |-> b]
         /\ UNCHANGED <<divisor, uart>>
    [] ctlop.pc = "baud" ->
         /\ divisor' = Divisor(ctlop.baud) /\ ctlop' = [ctlop EXCEPT !.pc = "latch"]
         /\ UNCHANGED <<lcr, uart>>
    [] ctlop.pc = "latch" ->
         /\ lcr' = [lcr EXCEPT !.dlab = FALSE] /\ ctlop' = NoCtl
         /\ uart' = [uart EXCEPT !.baud = ctlop.baud] /\ UNCHANGED divisor

Baud ==
  /\ Runs(Ctl) /\ ctlop.pc \in {"none", "baud", "latch"}
  /\ IF ctlop.pc = "none" THEN MoreEvents /\ nctl' = nctl + 1 ELSE UNCHANGED nctl
  /\ kw_baud(9600)
  /\ UNCHANGED <<mcr, txVars, rxVars, modeVars, flowVars, iir, puts, raced, intrVars>>

\* kw_bits writes the new lcr to mcr: bit 1 is RTS there, bit 4 (even parity in
\* lcr) the loopback.  The word length of the line stays, that of the Uart is set.
kw_bits(n) ==
  /\ mcr' = [rts |-> n \in {7, 8}, loop |-> lcr.parity = "e"]
  /\ uart' = [uart EXCEPT !.bits = n]
  /\ UNCHANGED lcr

kw_stop(n) == lcr' = [lcr EXCEPT !.stop = n] /\ uart' = [uart EXCEPT !.stop = n] /\ UNCHANGED mcr
kw_parity(x) ==
  lcr' = [lcr EXCEPT !.parity = x] /\ uart' = [uart EXCEPT !.parity = x] /\ UNCHANGED mcr
kw_rts(on) == mcr' = [mcr EXCEPT !.rts = on] /\ UNCHANGED <<lcr, uart>>

Line ==
  /\ Runs(Ctl) /\ ctlop = NoCtl /\ MoreEvents
  /\ nctl' = nctl + 1
  /\ kw_bits(5) \/ kw_bits(8) \/ kw_stop(2) \/ kw_parity("e") \/ kw_rts(FALSE)
  /\ UNCHANGED <<divisor, ctlop, txVars, rxVars, modeVars, flowVars, iir, puts, raced, intrVars>>

\* kw_break: LCRbreak on, a sleep, LCRbreak off.
kw_break ==
  /\ Runs(Ctl)
  /\ IF ctlop.pc = "break"
     THEN lcr' = [lcr EXCEPT !.brk = FALSE] /\ ctlop' = NoCtl /\ UNCHANGED nctl
     ELSE /\ ctlop = NoCtl /\ MoreEvents /\ nctl' = nctl + 1
          /\ lcr' = [lcr EXCEPT !.brk = TRUE] /\ ctlop' = [pc |-> "break"]
  /\ UNCHANGED <<mcr, divisor, uart, txVars, rxVars, modeVars, flowVars, iir, puts, raced,
                 intrVars>>

\* The port holds the output back (an xoff, cts gone), or lets it go on.
Hold ==
  /\ held' = ~held
  /\ IF held THEN UNCHANGED nctl ELSE MoreEvents /\ nctl' = nctl + 1
  /\ UNCHANGED <<refused, lcr, mcr, divisor, uart, ctlop, txVars, rxVars, modeVars, iir, puts,
                 raced, intrVars>>

-----------------------------------------------------------------------------
(* The system                                                              *)

CpuIntr == (Trap(Hi) \/ Serve(Hi) \/ IntrsEnd \/ clockintr \/ clockclear) /\ UNCHANGED uartVars
HandlerStep == kw_intr \/ Read \/ KickedIntr
AddLink == \E l \in DOMAIN Links :
             (LinkLock(Ctl, l) \/ LinkAdd(Ctl, l)) /\ ctlop = NoCtl /\ UNCHANGED uartVars
Request == kw_enable \/ kw_disable \/ Line
CtlStep == Enable \/ Disable \/ Baud \/ kw_break
Panic == setpanic /\ UNCHANGED uartVars
Tick == MoreEvents /\ Expire /\ UNCHANGED uartVars

Next ==
  \/ Write \/ Kick \/ Send \/ serialputc
  \/ CpuIntr \/ HandlerStep \/ Arrive \/ RxTimeout
  \/ AddLink \/ Request \/ CtlStep \/ Hold \/ Panic \/ Tick

vars == <<uartVars, intrVars>>

\* The device sends, and tells of characters that wait; the processor takes and
\* handles interrupts; a process with interrupts off, or in a panic, goes on.
Fairness ==
  /\ WF_vars(Send) /\ WF_vars(RxTimeout)
  /\ WF_vars(CpuIntr) /\ WF_vars(HandlerStep) /\ WF_vars(Kick)
  /\ WF_vars(serialputc) /\ WF_vars(AddLink) /\ WF_vars(CtlStep /\ ctlop # NoCtl)

Init == IntrInit /\ UartInit
Spec == Init /\ [][Next]_vars /\ Fairness

-----------------------------------------------------------------------------
(* Properties                                                              *)

\* The characters of s that are from who: the first n, in order and once each.
InOrder(s, who, n) ==
  LET at == {i \in DOMAIN s : s[i][1] = who}
  IN /\ {s[i][2] : i \in at} = 1 .. n
     /\ \A i, j \in at : i < j => s[i][2] < s[j][2]

\* The characters of a writer are sent in the order they were written and none
\* is lost, and so is the text of a panic, however kicks of the process and of
\* the interrupt take turns, unless a fifo was turned off or thr was written
\* while it was dll.  In loopback, which kw_bits turns on after even parity, they
\* are sent to the receiver.
OutputInOrder ==
  ~cleared /\ ~raced =>
    /\ InOrder(sent \o txfifo, "w", wrote - Len(oq))
    /\ \A i \in DOMAIN oq : oq[i] = <<"w", wrote - Len(oq) + i>>
    /\ InOrder(sent \o txfifo, "panic", puts.n)

\* The characters that were lost to an overrun, and those that kw_read has taken.
Lost == {o[1] : o \in overrun}
Taken == (1 .. arrived) \ (Lost \cup {x.c : x \in Range(rxfifo)})

\* A character that arrived is passed on, in order and once, if it is whole, and
\* counted if it is damaged, unless it found no room.  Then LSRrunerr is counted or
\* still set, if the fifos were on (with one entry kw_read may see LSRrunerr
\* without LSRrx and leave it uncounted).  The exceptions are those of OutputInOrder.
InputInOrder ==
  ~cleared /\ ~raced =>
    /\ Range(got) = Taken \ bad
    /\ \A i, j \in DOMAIN got : i < j => got[i] < got[j]
    /\ Taken \cap bad \subseteq perr
    /\ (\E o \in overrun : o[2]) => oerr > 0 \/ lsroe

\* The divisor, the stop bits and the parity of the line are those the Uart says,
\* once no request is under way, unless thr was written while it was dll.  Not so
\* the word length: kw_bits writes it to mcr.
LineSet ==
  ctlop = NoCtl /\ ~raced =>
    /\ divisor = Divisor(uart.baud) /\ ~lcr.dlab
    /\ lcr.stop = uart.stop /\ lcr.parity = uart.parity

\* What is written is passed to the transmitter, without any further write: the
\* interrupt that comes when the fifo is empty is never missed by kw_kick.  The
\* exception is a kick that found the output held and returned: kw_intr has read
\* iir and so ended the interrupt, and until the next kick nothing here starts the
\* output again.  A kick that finds it let go brings the promise back.
OutputSent == oq # <<>> ~> (oq = <<>> \/ raced \/ ~iena \/ panicked \/ refused)

=============================================================================
