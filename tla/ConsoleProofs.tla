---------------------------- MODULE ConsoleProofs ----------------------------
(***************************************************************************)
(* Theorems about the console (Uart) on the interrupts of the processor     *)
(* (Intr): no tick or clock link is missed, no character lost or reordered, *)
(* and the line is as asked for.  Four invariants, of which the one of the   *)
(* characters sent needs the others: of the interrupts, the line, the kicks *)
(* with the output, and the input.                                          *)
(***************************************************************************)
EXTENDS Uart, SequenceTheorems, TLAPS

Devices == {"none", "uart0", "cputimer0", "clear"}
Chars == {"w", "panic"} \X Nat

IntrTypes ==
  /\ {"sum", "bridge", "cputimer0"} \subseteq handlers
  /\ bridgeirq \subseteq {"cputimer0"}
  /\ level \in Seq({"lo", "hi", "bridge"})
  /\ ibits \in [{"lo", "hi", "bridge"} -> SUBSET AllLines]
  /\ ibits["lo"] \subseteq {"sum", "bridge"} /\ ibits["hi"] \subseteq {"uart0"}
  /\ ibits["bridge"] \subseteq bridgeirq
  /\ running \in Devices
  /\ clock0lock \in {NoProc, Ctl} /\ spl \in {NoProc, Writer, Ctl}
  /\ ticks \in Nat /\ expired \in Nat /\ late \in Nat
  /\ since \in [DOMAIN Links -> Int] /\ called \in [DOMAIN Links -> SUBSET Nat]
  /\ clock0link \in Seq(DOMAIN Links)
  /\ kick \in [by : {NoProc, Writer, "intr"}, i : Nat]

DispatchInv ==
  /\ running # "none" => level # <<>>
  /\ running \in {"cputimer0", "clear"} => bridgeirq = {"cputimer0"} /\ ibits["bridge"] = {}
  /\ level # <<>> => spl = NoProc
  /\ clock0lock # NoProc => spl = Ctl
  /\ kick.by = Writer => spl = Writer
  /\ panicked => irqmask = {} /\ level = <<>> /\ spl = NoProc

LinksInv ==
  \A l \in DOMAIN Links :
    /\ since[l] >= -1 /\ since[l] <= ticks
    /\ since[l] >= 0 <=> \E i \in DOMAIN clock0link : clock0link[i] = l

IntrInv == IntrTypes /\ DispatchInv /\ LinksInv /\ ClockRight

Requests == {[pc |-> x] : x \in {"none", "enable", "disable", "break"}}
BaudRequests == [pc : {"baud", "latch"}, baud : {9600}]

LineTypes ==
  /\ lcr \in [dlab : BOOLEAN, bits : {8}, stop : {1, 2}, parity : {"n", "e"}, brk : BOOLEAN]
  /\ uart \in [baud : {9600, 115200}, bits : {5, 8}, stop : {1, 2}, parity : {"n", "e"}]
  /\ ctlop \in Requests \cup BaudRequests

\* What the line is set to agrees with the Uart, but between the steps of kw_baud.
LineRight ==
  ~raced =>
    /\ lcr.stop = uart.stop /\ lcr.parity = uart.parity
    /\ ctlop \in Requests => divisor = Divisor(uart.baud) /\ ~lcr.dlab
    /\ ctlop.pc = "latch" => divisor = Divisor(ctlop.baud)

LineInv == LineTypes /\ LineRight

\* The kick of kw_intr is inside the interrupt it empties the fifo for, and after
\* a panic nobody kicks.
KickInv ==
  /\ puts \in [n : Nat, thre : BOOLEAN]
  /\ iir \in {"none", "rxdata", "timeout", "thrempty"}
  /\ iir # "none" => running = "uart0"
  /\ kick.by = "intr" => iir = "thrempty"
  /\ kick # NoKick => kick.by # NoProc
  /\ ~panicked => puts.thre = FALSE
  /\ puts.thre => txfifo = <<>>

OutTypes ==
  /\ oq \in Seq(Chars) /\ txfifo \in Seq(Chars) /\ sent \in Seq(Chars)
  /\ wrote \in Nat /\ Len(oq) <= wrote

OutInv == OutTypes /\ OutputInOrder

RxTypes ==
  /\ rxfifo \in Seq([c : Nat, bad : BOOLEAN]) /\ got \in Seq(Nat)
  /\ arrived \in Nat /\ oerr \in Nat /\ fifo \in BOOLEAN
  /\ rdlsr \subseteq {"read", "oe", "rx"}
  /\ overrun \subseteq (1 .. arrived) \X BOOLEAN /\ bad \subseteq 1 .. arrived
  /\ rdlsr # {} => Receives(iir)
  /\ "rx" \in rdlsr => rxfifo # <<>>

\* What the receive fifo holds: characters that are neither lost nor taken, in order.
HeldInv ==
  /\ \A i \in DOMAIN rxfifo : /\ rxfifo[i].c \in (1 .. arrived) \ Lost
                              /\ rxfifo[i].bad <=> rxfifo[i].c \in bad
                              /\ \A k \in Taken : k < rxfifo[i].c
  /\ \A i, j \in DOMAIN rxfifo : i < j => rxfifo[i].c < rxfifo[j].c

\* The damage of the character kw_read is about to take is counted, and an overrun
\* of the fifos that is not yet counted will be: a character is there to read.
CountedInv ==
  /\ "rx" \in rdlsr => (rxfifo[1].bad => rxfifo[1].c \in perr)
  /\ (\E o \in overrun : o[2]) /\ oerr = 0 =>
       lsroe /\ Len(rxfifo) >= (IF "rx" \in rdlsr THEN 2 ELSE 1)

RxInv == RxTypes /\ (~cleared /\ ~raced => HeldInv /\ CountedInv) /\ InputInOrder

LEMMA Appended ==
  ASSUME NEW S, NEW t \in Seq(S), NEW c \in S
  PROVE  /\ Append(t, c) \in Seq(S) /\ Len(t) \in Nat /\ Len(Append(t, c)) = Len(t) + 1
         /\ \A i \in 1 .. Len(t) : Append(t, c)[i] = t[i]
         /\ Append(t, c)[Len(t) + 1] = c
OBVIOUS

LEMMA HeadAndTail ==
  ASSUME NEW S, NEW t \in Seq(S), t # <<>>
  PROVE  /\ Len(t) \in Nat \ {0} /\ Head(t) = t[1] /\ Head(t) \in S
         /\ Tail(t) \in Seq(S) /\ DOMAIN Tail(t) = 1 .. (Len(t) - 1)
         /\ Len(Tail(t)) = Len(t) - 1
         /\ \A i \in 1 .. (Len(t) - 1) : Tail(t)[i] = t[i + 1] /\ Tail(t)[i] \in S
<1>1. Len(t) \in Nat \ {0} /\ Head(t) = t[1] /\ Head(t) \in S
  OBVIOUS
<1>2. Tail(t) \in Seq(S) /\ Len(Tail(t)) = Len(t) - 1
      /\ \A i \in 1 .. Len(Tail(t)) : Tail(t)[i] = t[i + 1]
  BY HeadTailProperties
<1>3. \A i \in 1 .. (Len(t) - 1) : i + 1 \in 1 .. Len(t) /\ t[i + 1] \in S
  BY <1>1
<1> QED
  BY <1>1, <1>2, <1>3

\* The head of t goes to the end of u.
LEMMA Passes ==
  ASSUME NEW S, NEW u \in Seq(S), NEW t \in Seq(S), t # <<>>
  PROVE  /\ Append(u, Head(t)) \in Seq(S) /\ Tail(t) \in Seq(S)
         /\ Append(u, Head(t)) \o Tail(t) = u \o t
<1>1. Head(t) \in S /\ Tail(t) \in Seq(S) /\ Len(Tail(t)) = Len(t) - 1
      /\ \A i \in 1 .. Len(Tail(t)) : Tail(t)[i] = t[i + 1]
  BY HeadTailProperties
<1>2. Head(t) = t[1] /\ Len(t) \in Nat /\ Len(t) > 0
  OBVIOUS
<1> DEFINE x == Append(u, Head(t)) \o Tail(t)
           y == u \o t
<1>3. x \in Seq(S) /\ y \in Seq(S) /\ Len(x) = Len(y) /\ Len(y) = Len(u) + Len(t)
  BY <1>1, <1>2
<1>4. ASSUME NEW i \in 1 .. Len(x) PROVE x[i] = y[i]
  <2>1. CASE i \in 1 .. Len(u)
    BY <2>1, <1>1, <1>2
  <2>2. CASE i = Len(u) + 1
    BY <2>2, <1>1, <1>2
  <2>3. CASE i \in (Len(u) + 2) .. (Len(u) + Len(t))
    <3>1. x[i] = Tail(t)[i - (Len(u) + 1)]
      BY <2>3, <1>1, <1>2
    <3>2. i - (Len(u) + 1) \in 1 .. Len(Tail(t)) /\ i - (Len(u) + 1) + 1 = i - Len(u)
      BY <2>3, <1>1, <1>2
    <3>3. Tail(t)[i - (Len(u) + 1)] = t[i - Len(u)]
      BY <3>2, <1>1
    <3>4. y[i] = t[i - Len(u)]
      BY <2>3, <1>2
    <3> QED
      BY <3>1, <3>3, <3>4
  <2> QED
    BY <1>3, <2>1, <2>2, <2>3
<1> QED
  <2>1. x = y
    <3> HIDE DEF x, y
    <3> QED
      BY <1>3, <1>4, SeqEqual
  <2> QED
    BY <1>1, <2>1

\* One character more.
LEMMA InOrderAppend ==
  ASSUME NEW t \in Seq(Chars), NEW c \in Chars, NEW who, NEW k \in Nat, InOrder(t, who, k)
  PROVE  /\ c[1] # who => InOrder(Append(t, c), who, k)
         /\ c = <<who, k + 1>> => InOrder(Append(t, c), who, k + 1)
<1> DEFINE u == Append(t, c)
           at == {i \in DOMAIN t : t[i][1] = who}
           au == {i \in DOMAIN u : u[i][1] = who}
<1>1. /\ DOMAIN t = 1 .. Len(t) /\ Len(t) \in Nat
      /\ DOMAIN u = 1 .. (Len(t) + 1)
      /\ \A i \in 1 .. Len(t) : u[i] = t[i]
      /\ u[Len(t) + 1] = c
  BY Appended
<1>2. {t[i][2] : i \in at} = 1 .. k /\ \A i, j \in at : i < j => t[i][2] < t[j][2]
  BY DEF InOrder
<1>3. ASSUME c[1] # who PROVE InOrder(u, who, k)
  <2>1. au = at /\ \A i \in at : u[i] = t[i]
    BY <1>1, <1>3
  <2> QED
    BY <1>2, <2>1 DEF InOrder
<1>4. ASSUME c = <<who, k + 1>> PROVE InOrder(u, who, k + 1)
  <2>1. au = at \cup {Len(t) + 1} /\ (\A i \in at : u[i] = t[i] /\ i \in 1 .. Len(t))
        /\ u[Len(t) + 1][2] = k + 1
    BY <1>1, <1>4
  <2>2. \A i \in at : t[i][2] \in 1 .. k
    BY <1>2
  <2>3. {u[i][2] : i \in au} = {t[i][2] : i \in at} \cup {k + 1}
    <3>1. {u[i][2] : i \in at} = {t[i][2] : i \in at}
      BY <2>1
    <3>2. {u[i][2] : i \in au} = {u[i][2] : i \in at} \cup {u[Len(t) + 1][2]}
      BY <2>1
    <3> QED
      BY <2>1, <3>1, <3>2
  <2>4. {u[i][2] : i \in au} = 1 .. (k + 1)
    <3>1. 1 .. (k + 1) = (1 .. k) \cup {k + 1}
      OBVIOUS
    <3> HIDE DEF u, at, au
    <3> QED
      BY <1>2, <2>3, <3>1
  <2>5. \A i, j \in au : i < j => u[i][2] < u[j][2]
    BY <1>1, <1>2, <2>1, <2>2
  <2> QED
    BY <2>4, <2>5 DEF InOrder
<1> QED
  BY <1>3, <1>4

-----------------------------------------------------------------------------
(* The line                                                                *)

LEMMA LineInitInv == Init => LineInv
BY DEF Init, UartInit, LineInv, LineTypes, LineRight, Requests, NoCtl

LEMMA LineNextInv == LineInv /\ [Next]_vars => LineInv'
<1> SUFFICES ASSUME LineInv, [Next]_vars PROVE LineInv'
  OBVIOUS
<1>t. LineTypes
  BY DEF LineInv
<1>r. LineRight
  BY DEF LineInv
<1>n. NoCtl \in Requests
  BY DEF NoCtl, Requests
<1>0. ASSUME UNCHANGED lineVars, raced => raced' PROVE LineInv'
  BY <1>0 DEF lineVars, LineInv, LineTypes, LineRight
<1> DEFINE lcrs == [dlab : BOOLEAN, bits : {8}, stop : {1, 2}, parity : {"n", "e"}, brk : BOOLEAN]
           open == [lcr EXCEPT !.dlab = TRUE]
           shut == [lcr EXCEPT !.dlab = FALSE]
<1>d. \A b \in BOOLEAN : [lcr EXCEPT !.dlab = b] \in lcrs
  BY <1>t DEF LineTypes
<1>e. open \in lcrs /\ shut \in lcrs
  <2>1. TRUE \in BOOLEAN /\ FALSE \in BOOLEAN
    OBVIOUS
  <2> QED
    BY <1>d, <2>1, Zenon
<1>w. ASSUME NEW c, WriteThr(c), UNCHANGED <<lcr, uart, ctlop>> PROVE LineInv'
  <2>1. CASE lcr.dlab
    BY <1>w, <2>1, <1>t DEF WriteThr, LineInv, LineTypes, LineRight
  <2>2. CASE ~lcr.dlab
    BY <1>w, <2>2, <1>t, <1>r DEF WriteThr, LineInv, LineTypes, LineRight
  <2> QED
    BY <2>1, <2>2
<1>1. CASE Kick
  BY <1>1, <1>0, <1>w DEF Kick, kw_kick, lineVars
<1>2. CASE serialputc
  BY <1>2, <1>0, <1>w DEF serialputc, lineVars
<1>3. CASE Read
  BY <1>3, <1>0 DEF Read, kw_read
<1>4. CASE kw_enable
  <2>1. ctlop' \in Requests /\ ctlop \in Requests
    BY <1>4, <1>n DEF kw_enable, Requests
  <2> QED
    BY <1>4, <2>1, <1>t, <1>r DEF kw_enable, LineInv, LineTypes, LineRight, Requests
<1>5. CASE kw_disable
  <2>1. ctlop' \in Requests /\ ctlop \in Requests
    BY <1>5, <1>n DEF kw_disable, Requests
  <2> QED
    BY <1>5, <2>1, <1>t, <1>r DEF kw_disable, LineInv, LineTypes, LineRight, Requests
<1>6. CASE Line
  BY <1>6, <1>t, <1>r DEF Line, kw_bits, kw_stop, kw_parity, kw_rts, LineInv, LineTypes, LineRight
<1>7. CASE Enable \/ Disable
  <2>1. ctlop \in Requests /\ ctlop' = NoCtl
    BY <1>7, <1>t DEF Enable, Disable, LineTypes, Requests, BaudRequests
  <2> QED
    BY <1>7, <2>1, <1>n, <1>t, <1>r DEF Enable, Disable, LineInv, LineTypes, LineRight, Requests
<1>8. CASE kw_break
  <2>1. ctlop \in Requests /\ ctlop' \in Requests
    BY <1>8, <1>n, <1>t DEF kw_break, LineTypes, Requests, BaudRequests
  <2>2. \E b \in BOOLEAN : lcr' = [lcr EXCEPT !.brk = b]
    BY <1>8 DEF kw_break
  <2> QED
    BY <1>8, <2>1, <2>2, <1>t, <1>r DEF kw_break, LineInv, LineTypes, LineRight, Requests
<1>9. CASE Baud
  <2>1. CASE ctlop.pc = "none"
    <3>1. /\ ctlop' = [pc |-> "baud", baud |-> 9600] /\ lcr' = [lcr EXCEPT !.dlab = TRUE]
          /\ UNCHANGED <<uart, raced>>
      BY <1>9, <2>1 DEF Baud, kw_baud
    <3>2. ctlop' \in BaudRequests /\ ctlop'.pc = "baud" /\ ctlop' \notin Requests
      BY <3>1 DEF BaudRequests, Requests
    <3>3. LineTypes'
      <4>1. lcr' \in lcrs
        <5>1. lcr' = open
          BY <3>1
        <5> HIDE DEF open, shut, lcrs
        <5> QED
          BY <5>1, <1>e
      <4>2. uart' \in [baud : {9600, 115200}, bits : {5, 8}, stop : {1, 2}, parity : {"n", "e"}]
        BY <3>1, <1>t DEF LineTypes
      <4>3. ctlop' \in Requests \cup BaudRequests
        BY <3>2
      <4> QED
        BY <4>1, <4>2, <4>3 DEF LineTypes
    <3>4. LineRight'
      BY <3>1, <3>2, <1>t, <1>r DEF LineTypes, LineRight
    <3> QED
      BY <3>3, <3>4 DEF LineInv
  <2>2. CASE ctlop.pc = "baud"
    <3>1. /\ divisor' = Divisor(ctlop.baud) /\ ctlop' = [ctlop EXCEPT !.pc = "latch"]
          /\ UNCHANGED <<lcr, uart, raced>>
      BY <1>9, <2>2 DEF Baud, kw_baud
    <3>2. ctlop \in BaudRequests
      BY <2>2, <1>t DEF LineTypes, Requests
    <3>3. ctlop' \in BaudRequests /\ ctlop'.baud = ctlop.baud
      BY <3>1, <3>2 DEF BaudRequests
    <3> QED
      BY <3>1, <3>3, <1>t, <1>r DEF LineInv, LineTypes, LineRight, Requests, BaudRequests
  <2>3. CASE ctlop.pc = "latch"
    <3>1. /\ lcr' = [lcr EXCEPT !.dlab = FALSE] /\ ctlop' = NoCtl
          /\ uart' = [uart EXCEPT !.baud = ctlop.baud] /\ UNCHANGED <<divisor, raced>>
      BY <1>9, <2>3 DEF Baud, kw_baud
    <3>2. ctlop \in BaudRequests
      BY <2>3, <1>t DEF LineTypes, Requests
    <3>3. ctlop.baud = 9600 /\ ctlop'.pc = "none"
      BY <3>1, <3>2 DEF BaudRequests, NoCtl
    <3>4. LineTypes'
      <4>1. lcr' \in lcrs
        <5>1. lcr' = shut
          BY <3>1
        <5> HIDE DEF open, shut, lcrs
        <5> QED
          BY <5>1, <1>e
      <4>2. uart' \in [baud : {9600, 115200}, bits : {5, 8}, stop : {1, 2}, parity : {"n", "e"}]
        BY <3>1, <3>3, <1>t DEF LineTypes
      <4>3. ctlop' \in Requests \cup BaudRequests
        BY <3>1, <1>n
      <4> QED
        BY <4>1, <4>2, <4>3 DEF LineTypes
    <3>5. uart'.baud = 9600 /\ uart'.stop = uart.stop /\ uart'.parity = uart.parity
      BY <3>1, <3>3, <1>t DEF LineTypes
    <3>6. ~lcr'.dlab /\ lcr'.stop = lcr.stop /\ lcr'.parity = lcr.parity
      BY <3>1, <1>t DEF LineTypes
    <3>7. ~raced => divisor = Divisor(9600)
      BY <2>3, <3>3, <1>r DEF LineRight
    <3>8. LineRight'
      BY <3>1, <3>3, <3>5, <3>6, <3>7, <1>r DEF LineRight
    <3> QED
      BY <3>4, <3>8 DEF LineInv
  <2> QED
    BY <1>9, <2>1, <2>2, <2>3 DEF Baud
<1>10. CASE Write \/ kw_intr \/ KickedIntr \/ RxTimeout
  BY <1>10, <1>0 DEF Write, kw_intr, KickedIntr, RxTimeout
<1>13. CASE Send \/ Arrive
  <2>1. UNCHANGED lineVars /\ UNCHANGED raced
    BY <1>13 DEF Send, Arrive
  <2> QED
    BY <2>1, <1>0
<1>12. CASE CpuIntr \/ AddLink \/ Panic \/ Tick \/ UNCHANGED vars
  BY <1>12, <1>0 DEF CpuIntr, AddLink, Panic, Tick, vars, uartVars
<1>11. CASE Hold
  BY <1>11 DEF Hold, LineInv, LineTypes, LineRight
<1> QED
  BY <1>1, <1>2, <1>3, <1>4, <1>5, <1>6, <1>7, <1>8, <1>9, <1>10, <1>11, <1>12, <1>13
     DEF Next, HandlerStep, Request, CtlStep

\* uartkirkwood.c: the divisor, the stop bits and the parity of the line are those
\* the Uart says whenever no request is under way, unless thr was written while it
\* was dll.
THEOREM LineAsSet == Spec => []LineSet
<1>1. LineInv => LineSet
  BY DEF LineInv, LineRight, LineSet, Requests, NoCtl
<1> QED
  BY <1>1, LineInitInv, LineNextInv, PTL DEF Spec

-----------------------------------------------------------------------------
(* The interrupts and the clock                                            *)

LEMMA IntrInitInv == Init => IntrInv
<1> SUFFICES ASSUME Init PROVE IntrInv
  OBVIOUS
<1>1. IntrTypes
  BY DEF Init, IntrInit, UartInit, IntrTypes, Devices, Lines, NoKick, AllLines
<1>2. DispatchInv
  BY DEF Init, IntrInit, UartInit, DispatchInv, NoKick, NoProc, Writer, Ctl
<1>3. LinksInv
  BY DEF Init, IntrInit, LinksInv
<1>4. ClockRight
  BY DEF Init, IntrInit, ClockRight
<1> QED
  BY <1>1, <1>2, <1>3, <1>4 DEF IntrInv

LEMMA ServeInv ==
  ASSUME IntrInv, Serve(Hi), UNCHANGED kick
  PROVE  IntrInv'
<1>t. IntrTypes
  BY DEF IntrInv
<1>d. DispatchInv
  BY DEF IntrInv
<1>0. /\ level # <<>> /\ running = "none" /\ Sort \in {"lo", "hi", "bridge"}
      /\ UNCHANGED <<handlers, irqmask, bridgeirq, spl, clockVars, panicked>>
  <2>1. Sort \in {"lo", "hi", "bridge"}
    BY <1>t DEF Serve, IntrTypes, Sort
  <2> QED
    BY <2>1 DEF Serve
<1>1. PICK l \in AllLines :
        /\ Served(Sort, l)
        /\ LET x == IF l = "sum" THEN "hi" ELSE "bridge"
               nested == l \in {"sum", "bridge"}
               taken == [ibits EXCEPT ![Sort] = @ \ {l}]
           IN /\ level' = IF nested THEN Append(level, x) ELSE level
              /\ ibits' = IF nested
                          THEN [taken EXCEPT ![x] = Cause(x, Hi) \cap irqmask] ELSE taken
              /\ running' = IF nested THEN "none" ELSE l
  BY DEF Serve
<1>2. l \in ibits[Sort]
  BY <1>1 DEF Served
<1>3. Hi \subseteq {"uart0"}
  BY DEF Hi
<1>l. ASSUME NEW x \in {"lo", "hi", "bridge"}
      PROVE  Append(level, x) \in Seq({"lo", "hi", "bridge"}) /\ Append(level, x) # <<>>
  <2>1. level \in Seq({"lo", "hi", "bridge"})
    BY <1>t DEF IntrTypes
  <2>2. /\ Append(level, x) \in Seq({"lo", "hi", "bridge"}) /\ Len(level) \in Nat
        /\ Len(Append(level, x)) = Len(level) + 1
    BY <2>1, Appended
  <2> QED
    BY <2>2
<1> DEFINE taken == [ibits EXCEPT ![Sort] = @ \ {l}]
<1>4. /\ taken \in [{"lo", "hi", "bridge"} -> SUBSET AllLines]
      /\ taken["lo"] \subseteq {"sum", "bridge"} /\ taken["hi"] \subseteq {"uart0"}
      /\ taken["bridge"] \subseteq bridgeirq
      /\ Sort = "bridge" => taken["bridge"] = ibits["bridge"] \ {l}
  BY <1>0, <1>t DEF IntrTypes
<1>5. CASE l = "sum"
  <2>1. /\ level' = Append(level, "hi") /\ running' = "none"
        /\ ibits' = [taken EXCEPT !["hi"] = Hi \cap irqmask]
    BY <1>1, <1>5 DEF Cause
  <2>2. /\ ibits' \in [{"lo", "hi", "bridge"} -> SUBSET AllLines]
        /\ ibits'["lo"] \subseteq {"sum", "bridge"} /\ ibits'["hi"] \subseteq {"uart0"}
        /\ ibits'["bridge"] \subseteq bridgeirq
    <3> HIDE DEF taken
    <3> QED
      BY <1>3, <1>4, <2>1 DEF AllLines
  <2>3. level' \in Seq({"lo", "hi", "bridge"}) /\ level' # <<>>
    BY <2>1, <1>l
  <2>4. IntrTypes'
    BY <1>0, <2>1, <2>2, <2>3, <1>t DEF IntrTypes, Devices, clockVars
  <2>5. DispatchInv'
    BY <1>0, <2>1, <2>3, <1>d DEF DispatchInv, clockVars
  <2>6. LinksInv' /\ ClockRight'
    BY <1>0, <2>1 DEF IntrInv, LinksInv, ClockRight, clockVars
  <2> QED
    BY <2>4, <2>5, <2>6 DEF IntrInv
<1>6. CASE l = "bridge"
  <2>1. /\ level' = Append(level, "bridge") /\ running' = "none"
        /\ ibits' = [taken EXCEPT !["bridge"] = bridgeirq \cap irqmask]
    BY <1>1, <1>6 DEF Cause
  <2>2. /\ ibits' \in [{"lo", "hi", "bridge"} -> SUBSET AllLines]
        /\ ibits'["lo"] \subseteq {"sum", "bridge"} /\ ibits'["hi"] \subseteq {"uart0"}
        /\ ibits'["bridge"] \subseteq bridgeirq
    <3>1. bridgeirq \subseteq {"cputimer0"}
      BY <1>t DEF IntrTypes
    <3> HIDE DEF taken
    <3> QED
      BY <1>4, <2>1, <3>1 DEF AllLines
  <2>3. level' \in Seq({"lo", "hi", "bridge"}) /\ level' # <<>>
    BY <2>1, <1>l
  <2>4. IntrTypes'
    BY <1>0, <2>1, <2>2, <2>3, <1>t DEF IntrTypes, Devices, clockVars
  <2>5. DispatchInv'
    BY <1>0, <2>1, <2>3, <1>d DEF DispatchInv, clockVars
  <2>6. LinksInv' /\ ClockRight'
    BY <1>0, <2>1 DEF IntrInv, LinksInv, ClockRight, clockVars
  <2> QED
    BY <2>4, <2>5, <2>6 DEF IntrInv
<1>7. CASE l \in {"uart0", "cputimer0"}
  <2>1. level' = level /\ running' = l /\ ibits' = taken
    BY <1>1, <1>7
  <2>2. ASSUME l = "cputimer0"
        PROVE  Sort = "bridge" /\ bridgeirq = {"cputimer0"} /\ taken["bridge"] = {}
    <3>1. Sort = "bridge"
      BY <2>2, <1>0, <1>2, <1>t DEF IntrTypes
    <3>2. l \in bridgeirq /\ bridgeirq \subseteq {"cputimer0"} /\ ibits["bridge"] \subseteq bridgeirq
      BY <3>1, <1>2, <1>t DEF IntrTypes
    <3>3. taken["bridge"] = ibits["bridge"] \ {l}
      BY <3>1, <1>4
    <3> HIDE DEF taken
    <3> QED
      BY <2>2, <3>1, <3>2, <3>3
  <2>4. IntrTypes'
    <3> HIDE DEF taken
    <3> QED
      BY <1>0, <1>4, <1>7, <2>1, <1>t DEF IntrTypes, Devices, clockVars
  <2>5. DispatchInv'
    <3> HIDE DEF taken
    <3> QED
      BY <1>0, <1>7, <2>1, <2>2, <1>d DEF DispatchInv, clockVars
  <2>6. LinksInv' /\ ClockRight'
    <3>1. running # "clear" /\ running' # "clear"
      BY <1>0, <1>7, <2>1
    <3> HIDE DEF taken
    <3> QED
      BY <1>0, <3>1 DEF IntrInv, LinksInv, ClockRight, clockVars
  <2> QED
    BY <2>4, <2>5, <2>6 DEF IntrInv
<1> QED
  BY <1>5, <1>6, <1>7 DEF AllLines

\* clockintr finds clock0lock free: who holds it has interrupts off.
LEMMA ClockintrInv ==
  ASSUME IntrInv, clockintr, UNCHANGED kick
  PROVE  IntrInv'
<1>t. IntrTypes
  BY DEF IntrInv
<1>d. DispatchInv
  BY DEF IntrInv
<1>0. /\ running = "cputimer0" /\ ticks' = ticks + 1 /\ running' = "clear"
      /\ UNCHANGED <<handlers, irqmask, bridgeirq, level, ibits, spl, clock0link, clock0lock,
                     since, expired, late, panicked>>
  BY DEF clockintr
<1>1. clock0lock = NoProc /\ bridgeirq = {"cputimer0"}
  BY <1>0, <1>d DEF DispatchInv, NoProc, Ctl
<1>2. called' = [l \in DOMAIN Links |->
                   IF (\E i \in DOMAIN clock0link : clock0link[i] = l)
                      /\ ticks' % Links[l] = 0
                   THEN called[l] \cup {ticks'} ELSE called[l]]
  BY <1>1 DEF clockintr
<1>3. IntrTypes'
  <2>1. ticks \in Nat /\ ticks' \in Nat
    BY <1>0, <1>t DEF IntrTypes
  <2>2. called' \in [DOMAIN Links -> SUBSET Nat]
    BY <1>2, <2>1, <1>t DEF IntrTypes
  <2> QED
    BY <1>0, <2>1, <2>2, <1>t DEF IntrTypes, Devices
<1>4. DispatchInv'
  BY <1>0, <1>d DEF DispatchInv
<1>5. LinksInv'
  BY <1>0, <1>t DEF IntrInv, LinksInv, IntrTypes
<1>6. ClockRight'
  <2>1. (expired = ticks + late + (IF "cputimer0" \in bridgeirq /\ running # "clear" THEN 1 ELSE 0))'
    BY <1>0, <1>1, <1>t DEF IntrInv, ClockRight, IntrTypes
  <2>2. ASSUME NEW l \in DOMAIN Links
        PROVE  called'[l] = IF since'[l] < 0 THEN {}
                            ELSE {t \in (since'[l] + 1) .. ticks' : t % Links[l] = 0}
    <3>1. /\ since[l] \in Int /\ since[l] >= -1 /\ since[l] <= ticks
          /\ since[l] >= 0 <=> \E i \in DOMAIN clock0link : clock0link[i] = l
          /\ called[l] = IF since[l] < 0 THEN {}
                         ELSE {t \in (since[l] + 1) .. ticks : t % Links[l] = 0}
          /\ ticks \in Nat
      BY <1>t DEF IntrInv, LinksInv, ClockRight, IntrTypes
    <3>2. CASE since[l] < 0
      BY <1>0, <1>2, <3>1, <3>2
    <3>3. CASE since[l] >= 0
      <4>1. called'[l] = IF ticks' % Links[l] = 0 THEN called[l] \cup {ticks'} ELSE called[l]
        BY <1>2, <3>1, <3>3
      <4>2. (since[l] + 1) .. (ticks + 1) = ((since[l] + 1) .. ticks) \cup {ticks + 1}
        BY <3>1
      <4> DEFINE Hits(t) == t % Links[l] = 0
      <4>3. /\ called[l] = {t \in (since[l] + 1) .. ticks : Hits(t)}
            /\ called'[l] = IF Hits(ticks + 1) THEN called[l] \cup {ticks + 1} ELSE called[l]
        BY <1>0, <3>1, <3>3, <4>1
      <4> HIDE DEF Hits
      <4>4. called'[l] = {t \in (since[l] + 1) .. (ticks + 1) : Hits(t)}
        BY <4>2, <4>3
      <4> QED
        BY <1>0, <3>1, <3>3, <4>4 DEF Hits
    <3> QED
      BY <3>1, <3>2, <3>3
  <2> QED
    BY <2>1, <2>2 DEF ClockRight
<1> QED
  BY <1>3, <1>4, <1>5, <1>6 DEF IntrInv

LEMMA IntrNextInv == IntrInv /\ [Next]_vars => IntrInv'
<1> SUFFICES ASSUME IntrInv, [Next]_vars PROVE IntrInv'
  OBVIOUS
<1>t. IntrTypes
  BY DEF IntrInv
<1>d. DispatchInv
  BY DEF IntrInv
<1> USE DEF NoProc, Writer, Ctl
<1>0. ASSUME UNCHANGED intrVars, kick' \in [by : {NoProc, Writer, "intr"}, i : Nat],
             kick'.by = Writer => kick.by = Writer
      PROVE  IntrInv'
  BY <1>0 DEF intrVars, IntrInv, IntrTypes, DispatchInv, LinksInv, ClockRight
<1>k. kick \in [by : {NoProc, Writer, "intr"}, i : Nat]
  BY <1>t DEF IntrTypes
\* Steps that change the handlers, the masks, the lock of interrupts or the kick.
<1>f. ASSUME UNCHANGED <<bridgeirq, level, ibits, clockVars, panicked>>,
             {"sum", "bridge", "cputimer0"} \subseteq handlers',
             running' = running \/ (running = "uart0" /\ running' = "none"),
             spl' \in {NoProc, Writer, Ctl},
             kick' \in [by : {NoProc, Writer, "intr"}, i : Nat],
             level # <<>> => spl' = NoProc,
             clock0lock # NoProc => spl' = Ctl,
             kick'.by = Writer => spl' = Writer,
             panicked => irqmask' = {} /\ spl' = NoProc
      PROVE  IntrInv'
  <2>1. IntrTypes'
    BY <1>f, <1>t DEF IntrTypes, Devices, clockVars
  <2>2. DispatchInv'
    BY <1>f, <1>d DEF DispatchInv, clockVars
  <2>3. LinksInv' /\ ClockRight'
    BY <1>f DEF IntrInv, LinksInv, ClockRight, clockVars
  <2> QED
    BY <2>1, <2>2, <2>3 DEF IntrInv
<1>1. CASE Write
  BY <1>1, <1>f, <1>t, <1>d DEF Write, Runs, IntrTypes, DispatchInv
<1>2. CASE Kick
  <2>1. CASE KickEnd
    <3>1. kick' = NoKick /\ spl' = IF kick.by = Writer THEN NoProc ELSE spl
      BY <2>1 DEF KickEnd
    <3>2. kick' \in [by : {NoProc, Writer, "intr"}, i : Nat] /\ kick'.by = NoProc
      BY <3>1 DEF NoKick
    <3> QED
      BY <1>2, <3>1, <3>2, <1>f, <1>t, <1>d DEF Kick, IntrTypes, DispatchInv
  <2>2. CASE kick' = [kick EXCEPT !.i = @ + 1] /\ UNCHANGED spl
    <3>1. kick' \in [by : {NoProc, Writer, "intr"}, i : Nat] /\ kick'.by = kick.by
      BY <2>2, <1>k
    <3> QED
      BY <1>2, <2>2, <3>1, <1>0 DEF Kick, intrVars, clockVars
  <2> QED
    BY <1>2, <2>1, <2>2 DEF Kick, kw_kick
<1>3. CASE kw_intr
  <2>1. kick' \in [by : {NoProc, Writer, "intr"}, i : Nat] /\ (kick'.by = Writer => kick.by = Writer)
    BY <1>3, <1>k DEF kw_intr
  <2> QED
    BY <1>3, <2>1, <1>f, <1>t, <1>d DEF kw_intr, IntrTypes, DispatchInv
<1>4. CASE Read
  BY <1>4, <1>f, <1>t, <1>d DEF Read, kw_read, txVars, IntrTypes, DispatchInv
<1>5. CASE KickedIntr
  BY <1>5, <1>f, <1>t, <1>d DEF KickedIntr, txVars, IntrTypes, DispatchInv
<1>6. CASE Enable \/ Disable
  <2>1. /\ ~panicked /\ UNCHANGED kick
        /\ UNCHANGED <<bridgeirq, level, ibits, running, spl, clockVars, panicked>>
        /\ handlers \ {"uart0"} \subseteq handlers'
    BY <1>6 DEF Enable, Disable, intrenable, intrdisable, Runs, txVars
  <2> QED
    BY <2>1, <1>f, <1>t, <1>d DEF IntrTypes, DispatchInv
<1>7. CASE Panic
  <2>1. /\ level = <<>> /\ spl = NoProc /\ irqmask' = {} /\ UNCHANGED kick
        /\ UNCHANGED <<handlers, bridgeirq, level, ibits, running, spl, clockVars>>
    BY <1>7 DEF Panic, setpanic, uartVars, txVars
  <2>2. IntrTypes'
    BY <2>1, <1>t DEF IntrTypes, clockVars
  <2>3. DispatchInv'
    BY <2>1, <1>d DEF DispatchInv, clockVars
  <2>4. LinksInv' /\ ClockRight'
    BY <2>1 DEF IntrInv, LinksInv, ClockRight, clockVars
  <2> QED
    BY <2>2, <2>3, <2>4 DEF IntrInv
<1>8. CASE AddLink
  <2>u. UNCHANGED kick
    BY <1>8 DEF AddLink, uartVars, txVars
  <2>1. PICK l \in DOMAIN Links : LinkLock(Ctl, l) \/ LinkAdd(Ctl, l)
    BY <1>8 DEF AddLink
  <2>2. CASE LinkLock(Ctl, l)
    <3>1. IntrTypes'
      BY <2>u, <2>2, <1>t DEF LinkLock, IntrTypes
    <3>2. DispatchInv'
      BY <2>u, <2>2, <1>d DEF LinkLock, Runs, DispatchInv
    <3>3. LinksInv' /\ ClockRight'
      BY <2>2 DEF LinkLock, IntrInv, LinksInv, ClockRight
    <3> QED
      BY <3>1, <3>2, <3>3 DEF IntrInv
  <2>3. CASE LinkAdd(Ctl, l)
    <3>0. /\ since[l] < 0 /\ clock0link' = <<l>> \o clock0link
          /\ since' = [since EXCEPT ![l] = ticks]
          /\ clock0lock' = NoProc /\ spl' = NoProc /\ level = <<>> /\ ~panicked
          /\ spl \in {NoProc, Ctl}
          /\ UNCHANGED <<handlers, irqmask, bridgeirq, level, ibits, running, ticks, called,
                         expired, late, panicked>>
      BY <2>3 DEF LinkAdd, Runs
    <3>1. /\ clock0link \in Seq(DOMAIN Links) /\ since \in [DOMAIN Links -> Int] /\ ticks \in Nat
      BY <1>t DEF IntrTypes
    <3>2. /\ clock0link' \in Seq(DOMAIN Links) /\ since' \in [DOMAIN Links -> Int]
          /\ Len(clock0link') = Len(clock0link) + 1 /\ Len(clock0link) \in Nat
          /\ clock0link'[1] = l
          /\ \A i \in 1 .. Len(clock0link) : clock0link'[i + 1] = clock0link[i]
      BY <3>0, <3>1
    <3>3. IntrTypes'
      BY <2>u, <3>0, <3>2, <1>t DEF IntrTypes
    <3>4. DispatchInv'
      BY <2>u, <3>0, <1>d DEF DispatchInv
    <3>5. ASSUME NEW m \in DOMAIN Links
          PROVE  /\ since'[m] >= -1 /\ since'[m] <= ticks'
                 /\ since'[m] >= 0 <=> \E i \in DOMAIN clock0link' : clock0link'[i] = m
      <4>1. /\ since[m] >= -1 /\ since[m] <= ticks
            /\ since[m] >= 0 <=> \E i \in 1 .. Len(clock0link) : clock0link[i] = m
        BY <3>1 DEF IntrInv, LinksInv
      <4>2. DOMAIN clock0link' = 1 .. (Len(clock0link) + 1)
        BY <3>2
      <4>3. CASE m = l
        BY <3>0, <3>1, <3>2, <4>2, <4>3
      <4>4. CASE m # l
        <5>1. since'[m] = since[m]
          BY <3>0, <3>1, <4>4
        <5>2. ASSUME NEW i \in 1 .. (Len(clock0link) + 1), clock0link'[i] = m
              PROVE  \E j \in 1 .. Len(clock0link) : clock0link[j] = m
          <6>1. i # 1
            BY <5>2, <4>4, <3>2
          <6>2. i - 1 \in 1 .. Len(clock0link) /\ (i - 1) + 1 = i
            BY <6>1, <3>2
          <6> QED
            BY <5>2, <6>2, <3>2
        <5>3. ASSUME NEW i \in 1 .. Len(clock0link), clock0link[i] = m
              PROVE  \E j \in 1 .. (Len(clock0link) + 1) : clock0link'[j] = m
          <6>1. i + 1 \in 1 .. (Len(clock0link) + 1)
            BY <3>2
          <6> QED
            BY <5>3, <6>1, <3>2
        <5> QED
          BY <3>0, <4>1, <4>2, <5>1, <5>2, <5>3
      <4> QED
        BY <4>3, <4>4
    <3>6. ClockRight'
      <4>1. (expired = ticks + late + (IF "cputimer0" \in bridgeirq /\ running # "clear" THEN 1 ELSE 0))'
        BY <3>0 DEF IntrInv, ClockRight
      <4>2. ASSUME NEW m \in DOMAIN Links
            PROVE  called'[m] = IF since'[m] < 0 THEN {}
                                ELSE {t \in (since'[m] + 1) .. ticks' : t % Links[m] = 0}
        <5>1. called[m] = IF since[m] < 0 THEN {}
                          ELSE {t \in (since[m] + 1) .. ticks : t % Links[m] = 0}
          BY DEF IntrInv, ClockRight
        <5>2. CASE m # l
          BY <3>0, <3>1, <5>1, <5>2
        <5>3. CASE m = l
          <6>1. called[m] = {} /\ since'[m] = ticks
            BY <3>0, <3>1, <5>1, <5>3
          <6>2. (ticks + 1) .. ticks = {}
            BY <3>1
          <6> QED
            BY <3>0, <3>1, <6>1, <6>2
        <5> QED
          BY <5>2, <5>3
      <4> QED
        BY <4>1, <4>2 DEF ClockRight
    <3> QED
      BY <3>3, <3>4, <3>5, <3>6 DEF IntrInv, LinksInv
  <2> QED
    BY <2>1, <2>2, <2>3
<1>9. CASE Tick
  <2>0. /\ expired' = expired + 1 /\ UNCHANGED kick
        /\ late' = IF "cputimer0" \in bridgeirq THEN late + 1 ELSE late
        /\ bridgeirq' = bridgeirq \cup {"cputimer0"}
        /\ UNCHANGED <<handlers, irqmask, level, ibits, running, spl, ticks, clock0link,
                       clock0lock, called, since, panicked>>
    BY <1>9 DEF Tick, Expire, uartVars, txVars
  <2>1. IntrTypes'
    BY <2>0, <1>t DEF IntrTypes
  <2>2. DispatchInv'
    BY <2>0, <1>d DEF DispatchInv
  <2>3. LinksInv'
    BY <2>0 DEF IntrInv, LinksInv
  <2>4. ClockRight'
    <3>1. (expired = ticks + late + (IF "cputimer0" \in bridgeirq /\ running # "clear" THEN 1 ELSE 0))'
      BY <2>0, <1>t, <1>d DEF IntrInv, ClockRight, IntrTypes, DispatchInv
    <3> QED
      BY <2>0, <3>1 DEF IntrInv, ClockRight
  <2> QED
    BY <2>1, <2>2, <2>3, <2>4 DEF IntrInv
<1>10. CASE CpuIntr
  <2>u. UNCHANGED kick
    BY <1>10 DEF CpuIntr, uartVars, txVars
  <2>1. CASE Trap(Hi)
    <3>0. /\ level = <<>> /\ spl = NoProc /\ Cause("lo", Hi) \cap irqmask # {} /\ level' = <<"lo">>
          /\ ibits' = [ibits EXCEPT !["lo"] = Cause("lo", Hi) \cap irqmask]
          /\ UNCHANGED <<handlers, irqmask, bridgeirq, running, spl, clockVars, panicked>>
      BY <2>1 DEF Trap
    <3>1. Cause("lo", Hi) \cap irqmask \subseteq {"sum", "bridge"}
      BY DEF Cause
    <3>2. level' \in Seq({"lo", "hi", "bridge"}) /\ level' # <<>>
      BY <3>0
    <3>3. IntrTypes'
      BY <2>u, <3>0, <3>1, <3>2, <1>t DEF IntrTypes, AllLines, clockVars
    <3>4. DispatchInv'
      BY <2>u, <3>0, <3>2, <1>t, <1>d DEF IntrTypes, DispatchInv, clockVars
    <3>5. LinksInv' /\ ClockRight'
      BY <3>0 DEF IntrInv, LinksInv, ClockRight, clockVars
    <3> QED
      BY <3>3, <3>4, <3>5 DEF IntrInv
  <2>2. CASE Serve(Hi)
    BY <2>u, <2>2, ServeInv
  <2>3. CASE IntrsEnd
    <3>0. /\ level # <<>> /\ running = "none" /\ ibits[Sort] \cap handlers = {}
          /\ ibits' = [ibits EXCEPT ![Sort] = {}]
          /\ level' = SubSeq(level, 1, Len(level) - 1)
          /\ UNCHANGED <<handlers, irqmask, running, spl, clockVars, panicked>>
      BY <2>3 DEF IntrsEnd
    <3>1. Sort \in {"lo", "hi", "bridge"}
      BY <3>0, <1>t DEF IntrTypes, Sort
    \* The one line of the bridge has a handler, so no line of it is spurious.
    <3>2. Sort = "bridge" => ibits[Sort] = {}
      BY <3>0, <1>t DEF IntrTypes
    <3>3. bridgeirq' = bridgeirq
      BY <2>3, <3>2 DEF IntrsEnd
    <3>4. level' \in Seq({"lo", "hi", "bridge"})
      BY <3>0, <1>t DEF IntrTypes
    <3>5. IntrTypes'
      BY <2>u, <3>0, <3>1, <3>3, <3>4, <1>t DEF IntrTypes, clockVars
    <3>6. DispatchInv'
      BY <2>u, <3>0, <3>3, <1>d DEF DispatchInv, clockVars
    <3>7. LinksInv' /\ ClockRight'
      BY <3>0, <3>3 DEF IntrInv, LinksInv, ClockRight, clockVars
    <3> QED
      BY <3>5, <3>6, <3>7 DEF IntrInv
  <2>4. CASE clockintr
    BY <2>u, <2>4, ClockintrInv
  <2>5. CASE clockclear
    <3>0. /\ running = "clear" /\ running' = "none" /\ bridgeirq' = bridgeirq \ {"cputimer0"}
          /\ UNCHANGED <<handlers, irqmask, level, ibits, spl, clockVars, panicked>>
      BY <2>5 DEF clockclear
    <3>1. ibits["bridge"] = {}
      BY <3>0, <1>d DEF DispatchInv
    <3>3. IntrTypes'
      BY <2>u, <3>0, <3>1, <1>t DEF IntrTypes, Devices, clockVars
    <3>4. DispatchInv'
      BY <2>u, <3>0, <1>d DEF DispatchInv, clockVars
    <3>5. LinksInv' /\ ClockRight'
      BY <3>0 DEF IntrInv, LinksInv, ClockRight, clockVars
    <3> QED
      BY <3>3, <3>4, <3>5 DEF IntrInv
  <2> QED
    BY <1>10, <2>1, <2>2, <2>3, <2>4, <2>5 DEF CpuIntr
<1>u. ASSUME UNCHANGED <<kick, intrVars>> PROVE IntrInv'
  BY <1>u, <1>0, <1>k
<1>11. CASE Send
  BY <1>11, <1>u DEF Send
<1>12. CASE serialputc
  BY <1>12, <1>u DEF serialputc
<1>13. CASE Arrive \/ RxTimeout \/ Hold
  BY <1>13, <1>u DEF Arrive, RxTimeout, Hold, txVars
<1>14. CASE Request
  <2>1. CASE kw_enable
    BY <2>1, <1>u DEF kw_enable
  <2>2. CASE kw_disable
    BY <2>2, <1>u DEF kw_disable
  <2>3. CASE Line
    BY <2>3, <1>u DEF Line, txVars
  <2> QED
    BY <1>14, <2>1, <2>2, <2>3 DEF Request
<1>15. CASE Baud
  BY <1>15, <1>u DEF Baud, txVars
<1>16. CASE kw_break
  BY <1>16, <1>u DEF kw_break, txVars
<1>17. CASE UNCHANGED vars
  BY <1>17, <1>u DEF vars, uartVars, txVars
<1> QED
  BY <1>1, <1>2, <1>3, <1>4, <1>5, <1>6, <1>7, <1>8, <1>9, <1>10, <1>11, <1>12, <1>13, <1>14,
     <1>15, <1>16, <1>17 DEF Next, HandlerStep, CtlStep

\* trap.c, clock.c: whatever else interrupts, every expiration of the timer that is
\* not cleared with the one before it is one tick, and every link is called at each
\* multiple of its period, for any set of links.
THEOREM TicksCounted == Spec => []ClockRight
<1>1. IntrInv => ClockRight
  BY DEF IntrInv
<1> QED
  BY <1>1, IntrInitInv, IntrNextInv, PTL DEF Spec

-----------------------------------------------------------------------------
(* The output                                                              *)

LEMMA KickInitInv == Init => KickInv
BY DEF Init, IntrInit, UartInit, KickInv, NoKick, NoProc

LEMMA KickNextInv == IntrInv /\ KickInv /\ [Next]_vars => KickInv'
<1> SUFFICES ASSUME IntrInv, KickInv, [Next]_vars PROVE KickInv'
  OBVIOUS
<1>k. kick \in [by : {NoProc, Writer, "intr"}, i : Nat]
  BY DEF IntrInv, IntrTypes
<1>d. DispatchInv
  BY DEF IntrInv
\* A process that runs does so outside the handlers; after a panic nobody kicks.
<1>r. level = <<>> => running = "none" /\ iir = "none"
  BY <1>d DEF DispatchInv, KickInv
<1>p. panicked => kick = NoKick
  <2>1. panicked => kick.by # "intr" /\ kick.by # Writer
    BY <1>d, <1>r DEF DispatchInv, KickInv, NoProc, Writer
  <2> QED
    BY <2>1, <1>k DEF KickInv
<1>0. ASSUME UNCHANGED <<iir, kick, puts>>,
             panicked => panicked', running = "uart0" => running' = "uart0",
             txfifo' = txfifo \/ txfifo' = <<>>
      PROVE  KickInv'
  BY <1>0 DEF KickInv
<1>1. CASE Write
  <2>1. kick' = [by |-> Writer, i |-> 0] /\ UNCHANGED <<txfifo, iir, puts, running, panicked>>
    BY <1>1 DEF Write
  <2> QED
    BY <2>1 DEF KickInv, Writer, NoProc
<1>2. CASE Kick
  <2>0. kick # NoKick /\ UNCHANGED <<puts, iir, running, panicked>>
    BY <1>2 DEF Kick, kw_kick
  <2>1. puts.thre = FALSE
    BY <2>0, <1>p DEF KickInv
  <2>2. CASE KickEnd
    BY <2>0, <2>1, <2>2 DEF KickEnd, KickInv, NoKick, NoProc
  <2>3. CASE kick' = [kick EXCEPT !.i = @ + 1]
    <3>1. kick'.by = kick.by
      BY <2>3, <1>k
    <3> QED
      BY <2>0, <2>1, <3>1 DEF KickInv
  <2> QED
    BY <1>2, <2>2, <2>3 DEF Kick, kw_kick
<1>3. CASE Send
  <2>1. txfifo # <<>> /\ UNCHANGED <<kick, iir, puts, running, panicked>>
    BY <1>3 DEF Send, intrVars
  <2> QED
    BY <2>1 DEF KickInv
<1>4. CASE serialputc
  <2>0. panicked /\ UNCHANGED <<kick, iir, running, panicked>>
    BY <1>4 DEF serialputc, intrVars
  <2>1. CASE puts' = [n |-> puts.n + 1, thre |-> FALSE]
    BY <2>0, <2>1 DEF KickInv
  <2>2. CASE txfifo = <<>> /\ txfifo' = txfifo /\ puts' = [puts EXCEPT !.thre = TRUE]
    BY <2>0, <2>2 DEF KickInv
  <2> QED
    BY <1>4, <2>1, <2>2 DEF serialputc, Thre
<1>5. CASE kw_intr
  <2>0. iir = "none" /\ running = "uart0" /\ UNCHANGED <<txfifo, puts, panicked>>
        /\ kick' = IF Empties(Iir) THEN [by |-> "intr", i |-> 0] ELSE kick
    BY <1>5 DEF kw_intr
  <2>1. CASE (Receives(Iir) \/ Empties(Iir)) /\ iir' = Iir /\ UNCHANGED running
    BY <2>0, <2>1 DEF KickInv, Receives, Empties, NoProc
  <2>2. CASE ~Receives(Iir) /\ ~Empties(Iir) /\ UNCHANGED iir
    BY <2>0, <2>2 DEF KickInv
  <2> QED
    BY <1>5, <2>1, <2>2 DEF kw_intr
<1>6. CASE Read
  <2>1. Receives(iir) /\ UNCHANGED <<kick, puts, txfifo, panicked>>
    BY <1>6 DEF Read, txVars
  <2>2. UNCHANGED <<iir, running>> \/ iir' = "none"
    BY <1>6 DEF Read, kw_read
  <2> QED
    BY <2>1, <2>2 DEF KickInv, Receives
<1>7. CASE KickedIntr
  <2>1. kick = NoKick /\ iir' = "none" /\ UNCHANGED <<kick, puts, txfifo, panicked>>
    BY <1>7 DEF KickedIntr, txVars
  <2> QED
    BY <2>1 DEF KickInv, NoKick, NoProc
<1>8. CASE CpuIntr
  <2>1. UNCHANGED <<iir, kick, puts, txfifo, panicked>>
    BY <1>8 DEF CpuIntr, Trap, Serve, IntrsEnd, clockintr, clockclear, uartVars, txVars
  <2>2. running = "uart0" => running' = "uart0"
    BY <1>8 DEF CpuIntr, Trap, Serve, IntrsEnd, clockintr, clockclear
  <2> QED
    BY <2>1, <2>2, <1>0
<1>9. CASE kw_enable
  BY <1>9, <1>0 DEF kw_enable, SetFifo, intrVars
<1>10. CASE kw_disable
  BY <1>10, <1>0 DEF kw_disable, SetFifo, intrVars
<1>11. CASE Panic
  BY <1>11, <1>0 DEF Panic, setpanic, uartVars, txVars
<1>12. CASE Enable \/ Disable
  BY <1>12, <1>0 DEF Enable, Disable, txVars
<1>13. CASE Arrive \/ RxTimeout \/ Hold \/ UNCHANGED vars
  BY <1>13, <1>0 DEF Arrive, RxTimeout, Hold, txVars, intrVars, vars, uartVars
<1>14. CASE Line
  BY <1>14, <1>0 DEF Line, txVars, intrVars
<1>15. CASE Baud
  BY <1>15, <1>0 DEF Baud, txVars, intrVars
<1>16. CASE kw_break
  BY <1>16, <1>0 DEF kw_break, txVars, intrVars
<1>17. CASE Tick
  BY <1>17, <1>0 DEF Tick, Expire, uartVars, txVars
<1>18. CASE AddLink
  <2>1. PICK l \in DOMAIN Links : LinkLock(Ctl, l) \/ LinkAdd(Ctl, l)
    BY <1>18 DEF AddLink
  <2>2. UNCHANGED <<running, panicked>>
    BY <2>1 DEF LinkLock, LinkAdd
  <2>3. UNCHANGED <<iir, kick, puts, txfifo>>
    BY <1>18 DEF AddLink, uartVars, txVars
  <2> QED
    BY <2>2, <2>3, <1>0
<1> QED
  BY <1>1, <1>2, <1>3, <1>4, <1>5, <1>6, <1>7, <1>8, <1>9, <1>10, <1>11, <1>12, <1>13, <1>14,
     <1>15, <1>16, <1>17, <1>18 DEF Next, HandlerStep, CtlStep, Request

LEMMA OutInitInv == Init => OutInv
<1> SUFFICES ASSUME Init PROVE OutInv
  OBVIOUS
<1>1. OutTypes
  BY DEF Init, UartInit, OutTypes
<1>2. InOrder(<<>> \o <<>>, "w", 0) /\ InOrder(<<>> \o <<>>, "panic", 0)
  <2>1. DOMAIN (<<>> \o <<>>) = {} /\ 1 .. 0 = {}
    OBVIOUS
  <2> QED
    BY <2>1 DEF InOrder
<1>3. OutputInOrder
  BY <1>2 DEF Init, UartInit, OutputInOrder
<1> QED
  BY <1>1, <1>3 DEF OutInv

LEMMA OutNextInv == IntrInv /\ KickInv /\ OutInv /\ [Next]_vars => OutInv'
<1> SUFFICES ASSUME IntrInv, KickInv, OutInv, [Next]_vars PROVE OutInv'
  OBVIOUS
<1>t. OutTypes
  BY DEF OutInv
<1>p. puts \in [n : Nat, thre : BOOLEAN]
  BY DEF KickInv
<1>o. ~cleared /\ ~raced =>
        /\ InOrder(sent \o txfifo, "w", wrote - Len(oq))
        /\ \A i \in DOMAIN oq : oq[i] = <<"w", wrote - Len(oq) + i>>
        /\ InOrder(sent \o txfifo, "panic", puts.n)
  BY DEF OutInv, OutputInOrder
<1>0. ASSUME UNCHANGED <<oq, sent, wrote, puts>>, cleared => cleared', raced => raced',
             txfifo' = txfifo \/ (txfifo' = <<>> /\ cleared')
      PROVE  OutInv'
  <2>1. OutTypes'
    <3>1. txfifo' \in Seq(Chars)
      <4>1. <<>> \in Seq(Chars)
        OBVIOUS
      <4> QED
        BY <1>0, <4>1, <1>t DEF OutTypes
    <3> QED
      BY <1>0, <3>1, <1>t DEF OutTypes
  <2>2. OutputInOrder'
    BY <1>0, <1>o DEF OutputInOrder
  <2> QED
    BY <2>1, <2>2 DEF OutInv
\* A character that thr takes while LSRthre is set, after those sent and waiting.
<1>w. ASSUME NEW c \in Chars, txfifo = <<>>, WriteThr(c)
      PROVE  /\ raced => raced'
             /\ txfifo' \in Seq(Chars)
             /\ raced' = TRUE \/ sent \o txfifo' = Append(sent \o txfifo, c)
  <2>1. CASE lcr.dlab
    BY <2>1, <1>w, <1>t DEF WriteThr, OutTypes
  <2>2. CASE ~lcr.dlab
    <3>1. Len(txfifo) < Depth
      BY <1>w, FifoAssumption DEF Depth
    <3>2. txfifo' = Append(<<>>, c) /\ UNCHANGED raced
      BY <1>w, <2>2, <3>1 DEF WriteThr
    <3>3. sent \o Append(<<>>, c) = Append(sent, c) /\ sent \o <<>> = sent
      BY <1>t DEF OutTypes
    <3>4. Append(<<>>, c) \in Seq(Chars)
      OBVIOUS
    <3> QED
      BY <1>w, <3>2, <3>3, <3>4
  <2> QED
    BY <2>1, <2>2
<1>c. sent \o txfifo \in Seq(Chars)
  BY <1>t DEF OutTypes
<1>1. CASE Write
  <2>0. /\ wrote' = wrote + 1 /\ oq' = Append(oq, <<"w", wrote + 1>>)
        /\ UNCHANGED <<txfifo, sent, puts, raced, cleared>>
    BY <1>1 DEF Write, modeVars
  <2>1. oq \in Seq(Chars) /\ <<"w", wrote + 1>> \in Chars /\ wrote \in Nat /\ Len(oq) <= wrote
    BY <1>t DEF OutTypes, Chars
  <2>2. /\ oq' \in Seq(Chars) /\ Len(oq) \in Nat /\ Len(oq') = Len(oq) + 1
        /\ \A i \in 1 .. Len(oq) : oq'[i] = oq[i]
        /\ oq'[Len(oq) + 1] = <<"w", wrote + 1>>
    <3> HIDE DEF Chars
    <3> QED
      BY <2>0, <2>1, Appended
  <2>3. OutTypes'
    BY <2>0, <2>1, <2>2, <1>t DEF OutTypes
  <2>4. wrote' - Len(oq') = wrote - Len(oq)
    BY <2>0, <2>1, <2>2
  <2>5. ASSUME ~cleared, ~raced, NEW i \in DOMAIN oq'
        PROVE  oq'[i] = <<"w", wrote - Len(oq) + i>>
    <3>1. i \in 1 .. (Len(oq) + 1)
      BY <2>2
    <3>2. CASE i = Len(oq) + 1
      <4>1. wrote - Len(oq) + (Len(oq) + 1) = wrote + 1
        BY <2>1, <2>2
      <4> QED
        BY <2>2, <3>2, <4>1
    <3>3. CASE i \in 1 .. Len(oq)
      BY <1>o, <2>1, <2>2, <2>5, <3>3
    <3> QED
      BY <2>2, <3>1, <3>2, <3>3
  <2>6. OutputInOrder'
    BY <1>o, <2>0, <2>4, <2>5 DEF OutputInOrder
  <2> QED
    BY <2>3, <2>6 DEF OutInv
<1>2. CASE Kick
  <2>0. UNCHANGED <<sent, wrote, puts, cleared>>
    BY <1>2 DEF Kick, modeVars
  <2>1. CASE UNCHANGED <<oq, txfifo, raced>>
    BY <2>0, <2>1, <1>0
  <2>2. CASE Thre /\ oq # <<>> /\ WriteThr(Head(oq)) /\ oq' = Tail(oq)
    <3>1. oq \in Seq(Chars) /\ wrote \in Nat /\ Len(oq) \in Nat \ {0} /\ Len(oq) <= wrote
      BY <2>2, <1>t DEF OutTypes
    <3>2. /\ Head(oq) \in Chars /\ Head(oq) = oq[1]
          /\ oq' \in Seq(Chars) /\ Len(oq') = Len(oq) - 1
          /\ \A i \in 1 .. Len(oq') : oq'[i] = oq[i + 1]
      <4>1. Head(oq) \in Chars /\ Tail(oq) \in Seq(Chars) /\ Len(Tail(oq)) = Len(oq) - 1
            /\ \A i \in 1 .. Len(Tail(oq)) : Tail(oq)[i] = oq[i + 1]
        BY <2>2, <3>1, HeadTailProperties
      <4> QED
        BY <2>2, <3>1, <4>1
    <3>3. /\ raced => raced'
          /\ txfifo' \in Seq(Chars)
          /\ raced' = TRUE \/ sent \o txfifo' = Append(sent \o txfifo, Head(oq))
      <4>1. txfifo = <<>> /\ Head(oq) \in Chars /\ WriteThr(Head(oq))
        BY <2>2, <3>2 DEF Thre
      <4> QED
        BY <4>1, <1>w
    <3>4. OutTypes'
      BY <2>0, <3>1, <3>2, <3>3, <1>t DEF OutTypes
    <3>5. ASSUME ~cleared', ~raced'
          PROVE  /\ InOrder(sent' \o txfifo', "w", wrote' - Len(oq'))
                 /\ \A i \in DOMAIN oq' : oq'[i] = <<"w", wrote' - Len(oq') + i>>
                 /\ InOrder(sent' \o txfifo', "panic", puts'.n)
      <4>1. ~cleared /\ ~raced
        BY <2>0, <3>3, <3>5
      <4>2. wrote - Len(oq) \in Nat /\ wrote' - Len(oq') = (wrote - Len(oq)) + 1
        BY <2>0, <3>1, <3>2
      <4>3. Head(oq) = <<"w", (wrote - Len(oq)) + 1>>
        BY <3>1, <3>2, <4>1, <1>o
      <4>4. InOrder(sent \o txfifo, "w", wrote - Len(oq)) /\ InOrder(sent \o txfifo, "panic", puts.n)
        BY <4>1, <1>o
      <4>5. Head(oq)[1] # "panic" /\ puts.n \in Nat
        BY <4>3, <1>p
      <4>6. InOrder(Append(sent \o txfifo, Head(oq)), "w", (wrote - Len(oq)) + 1)
        BY <1>c, <3>2, <4>2, <4>3, <4>4, InOrderAppend
      <4>7. InOrder(Append(sent \o txfifo, Head(oq)), "panic", puts.n)
        BY <1>c, <3>2, <4>4, <4>5, InOrderAppend
      <4>8. ASSUME NEW i \in DOMAIN oq' PROVE oq'[i] = <<"w", wrote' - Len(oq') + i>>
        <5>1. i \in 1 .. Len(oq') /\ i + 1 \in 1 .. Len(oq)
          BY <3>1, <3>2
        <5>2. oq'[i] = oq[i + 1] /\ oq[i + 1] = <<"w", wrote - Len(oq) + (i + 1)>>
          BY <3>1, <3>2, <4>1, <5>1, <1>o
        <5>3. wrote - Len(oq) + (i + 1) = wrote' - Len(oq') + i
          BY <2>0, <3>1, <3>2, <5>1
        <5> QED
          BY <5>2, <5>3
      <4>9. sent' \o txfifo' = Append(sent \o txfifo, Head(oq)) /\ puts' = puts
        BY <2>0, <3>3, <3>5
      <4> QED
        BY <4>2, <4>6, <4>7, <4>8, <4>9
    <3>6. OutputInOrder'
      BY <3>5 DEF OutputInOrder
    <3> QED
      BY <3>4, <3>6 DEF OutInv
  <2> QED
    BY <1>2, <2>1, <2>2 DEF Kick, kw_kick
<1>3. CASE Send
  <2>0. /\ txfifo # <<>> /\ sent' = Append(sent, Head(txfifo)) /\ txfifo' = Tail(txfifo)
        /\ UNCHANGED <<oq, wrote, puts, raced, cleared>>
    BY <1>3 DEF Send, modeVars
  <2>1. sent' \in Seq(Chars) /\ txfifo' \in Seq(Chars) /\ sent' \o txfifo' = sent \o txfifo
    <3>1. sent \in Seq(Chars) /\ txfifo \in Seq(Chars)
      BY <1>t DEF OutTypes
    <3> QED
      BY <2>0, <3>1, Passes
  <2>2. OutTypes'
    BY <2>0, <2>1, <1>t DEF OutTypes
  <2>3. OutputInOrder'
    BY <2>0, <2>1, <1>o DEF OutputInOrder
  <2> QED
    BY <2>2, <2>3 DEF OutInv
<1>4. CASE serialputc
  <2>0. UNCHANGED <<oq, sent, wrote, cleared>>
    BY <1>4 DEF serialputc, modeVars
  <2>1. CASE puts.thre /\ WriteThr(<<"panic", puts.n + 1>>)
             /\ puts' = [n |-> puts.n + 1, thre |-> FALSE]
    <3> DEFINE c == <<"panic", puts.n + 1>>
    <3>1. c \in Chars /\ c[1] # "w" /\ puts.n \in Nat /\ puts'.n = puts.n + 1
      BY <2>1, <1>p DEF Chars
    <3>2. txfifo = <<>> /\ WriteThr(c)
      BY <2>1 DEF KickInv
    <3>h. c = <<"panic", puts.n + 1>>
      OBVIOUS
    <3> HIDE DEF c
    <3>3. /\ raced => raced'
          /\ txfifo' \in Seq(Chars)
          /\ raced' = TRUE \/ sent \o txfifo' = Append(sent \o txfifo, c)
      BY <3>1, <3>2, <1>w
    <3>4. OutTypes'
      BY <2>0, <3>3, <1>t DEF OutTypes
    <3>5. ASSUME ~cleared', ~raced'
          PROVE  /\ InOrder(sent' \o txfifo', "w", wrote' - Len(oq'))
                 /\ \A i \in DOMAIN oq' : oq'[i] = <<"w", wrote' - Len(oq') + i>>
                 /\ InOrder(sent' \o txfifo', "panic", puts'.n)
      <4>1. ~cleared /\ ~raced
        BY <2>0, <3>3, <3>5
      <4>2. wrote - Len(oq) \in Nat
        BY <1>t DEF OutTypes
      <4>3. InOrder(sent \o txfifo, "w", wrote - Len(oq)) /\ InOrder(sent \o txfifo, "panic", puts.n)
        BY <4>1, <1>o
      <4>4. InOrder(Append(sent \o txfifo, c), "w", wrote - Len(oq))
        BY <1>c, <3>1, <4>2, <4>3, InOrderAppend
      <4>5. InOrder(Append(sent \o txfifo, c), "panic", puts.n + 1)
        BY <1>c, <3>1, <3>h, <4>3, InOrderAppend
      <4>6. sent' \o txfifo' = Append(sent \o txfifo, c)
        BY <2>0, <3>3, <3>5
      <4> QED
        BY <2>0, <3>1, <4>1, <4>4, <4>5, <4>6, <1>o
    <3>6. OutputInOrder'
      BY <3>5 DEF OutputInOrder
    <3> QED
      BY <3>4, <3>6 DEF OutInv
  <2>2. CASE puts' = [puts EXCEPT !.thre = TRUE] /\ UNCHANGED <<txfifo, raced>>
    <3>1. puts'.n = puts.n
      BY <2>2, <1>p
    <3>2. OutTypes' /\ OutputInOrder'
      BY <2>0, <2>2, <3>1, <1>t, <1>o DEF OutTypes, OutputInOrder
    <3> QED
      BY <3>2 DEF OutInv
  <2> QED
    BY <1>4, <2>1, <2>2 DEF serialputc
<1>s. ASSUME NEW on \in BOOLEAN, SetFifo(on)
      PROVE  (cleared => cleared') /\ (txfifo' = txfifo \/ (txfifo' = <<>> /\ cleared'))
  BY <1>s DEF SetFifo
<1>5. CASE kw_enable
  BY <1>5, <1>s, <1>0 DEF kw_enable
<1>6. CASE kw_disable
  BY <1>6, <1>s, <1>0 DEF kw_disable
<1>7. CASE kw_intr
  BY <1>7, <1>0 DEF kw_intr, modeVars
<1>8. CASE Read
  <2>1. raced => raced'
    BY <1>8 DEF Read, kw_read
  <2> QED
    BY <1>8, <2>1, <1>0 DEF Read, txVars, modeVars
<1>9. CASE Enable \/ Disable
  BY <1>9, <1>0 DEF Enable, Disable, txVars
<1>10. CASE Baud
  BY <1>10, <1>0 DEF Baud, txVars, modeVars
<1>11. CASE kw_break
  BY <1>11, <1>0 DEF kw_break, txVars, modeVars
<1>12. CASE Line
  BY <1>12, <1>0 DEF Line, txVars, modeVars
<1>13. CASE CpuIntr \/ KickedIntr \/ Arrive \/ RxTimeout \/ AddLink \/ Hold \/ Panic \/ Tick
            \/ UNCHANGED vars
  BY <1>13, <1>0 DEF CpuIntr, KickedIntr, Arrive, RxTimeout, AddLink, Hold, Panic, Tick, vars,
     uartVars, txVars, modeVars
<1> QED
  BY <1>1, <1>2, <1>3, <1>4, <1>5, <1>6, <1>7, <1>8, <1>9, <1>10, <1>11, <1>12, <1>13
     DEF Next, HandlerStep, CtlStep, Request

\* uartkirkwood.c: whoever kicks, the characters written are sent in order and once
\* each, and so is the text of a panic, with fifos of any size, unless a fifo was
\* turned off with characters in it or thr written while it was dll.
THEOREM OutputKept == Spec => []OutputInOrder
<1>1. OutInv => OutputInOrder
  BY DEF OutInv
<1>2. Init => IntrInv /\ KickInv /\ OutInv
  BY IntrInitInv, KickInitInv, OutInitInv
<1>3. IntrInv /\ KickInv /\ OutInv /\ [Next]_vars => IntrInv' /\ KickInv' /\ OutInv'
  BY IntrNextInv, KickNextInv, OutNextInv
<1> QED
  BY <1>1, <1>2, <1>3, PTL DEF Spec

-----------------------------------------------------------------------------
(* The input                                                               *)

LEMMA RxInitInv == Init => RxInv
<1> SUFFICES ASSUME Init PROVE RxInv
  OBVIOUS
<1>0. /\ rxfifo = <<>> /\ got = <<>> /\ arrived = 0 /\ oerr = 0 /\ fifo = FALSE
      /\ rdlsr = {} /\ overrun = {} /\ bad = {} /\ perr = {}
  BY DEF Init, UartInit
<1>1. RxTypes
  <2>1. rxfifo \in Seq([c : Nat, bad : BOOLEAN]) /\ got \in Seq(Nat)
    BY <1>0
  <2>2. arrived \in Nat /\ oerr \in Nat /\ fifo \in BOOLEAN
    BY <1>0
  <2> QED
    BY <1>0, <2>1, <2>2 DEF RxTypes
<1>2. Taken = {} /\ Range(got) = {}
  BY <1>0 DEF Taken, Range
<1>3. HeldInv /\ CountedInv
  BY <1>0 DEF HeldInv, CountedInv
<1>4. InputInOrder
  BY <1>0, <1>2 DEF InputInOrder
<1> QED
  BY <1>1, <1>3, <1>4 DEF RxInv

\* A character comes to the receiver: it is kept, or it is lost and LSRrunerr set.
LEMMA ReceiveInv ==
  ASSUME RxInv, NEW dmg \in BOOLEAN, Receive(dmg),
         UNCHANGED <<rdlsr, got, oerr, perr, fifo, cleared, iir, raced>>
  PROVE  RxInv'
<1>t. RxTypes
  BY DEF RxInv
<1> DEFINE a == arrived + 1
           inside == {x.c : x \in Range(rxfifo)}
<1>0. /\ arrived' = a
      /\ UNCHANGED <<rdlsr, got, oerr, perr, fifo, cleared, iir, raced>>
  BY DEF Receive
<1>1. /\ bad' = IF dmg THEN bad \cup {a} ELSE bad
      /\ IF Len(rxfifo) < Depth
         THEN rxfifo' = Append(rxfifo, [c |-> a, bad |-> dmg]) /\ UNCHANGED <<lsroe, overrun>>
         ELSE lsroe' = TRUE /\ overrun' = overrun \cup {<<a, fifo>>} /\ UNCHANGED rxfifo
  BY <1>0 DEF Receive
<1>2. /\ arrived \in Nat /\ bad \subseteq 1 .. arrived /\ overrun \subseteq (1 .. arrived) \X BOOLEAN
      /\ rxfifo \in Seq([c : Nat, bad : BOOLEAN]) /\ Len(rxfifo) \in Nat /\ fifo \in BOOLEAN
      /\ DOMAIN rxfifo = 1 .. Len(rxfifo)
  BY <1>t DEF RxTypes
<1>3. /\ a \notin 1 .. arrived /\ 1 .. a = (1 .. arrived) \cup {a}
      /\ \A k \in 1 .. arrived : k < a
  BY <1>2
<1>4. Lost \subseteq 1 .. arrived
  BY <1>2 DEF Lost
<1>5. /\ bad' \subseteq 1 .. a /\ \A k \in 1 .. arrived : k \in bad' <=> k \in bad
      /\ a \in bad' <=> dmg = TRUE
  BY <1>1, <1>2, <1>3
<1>6. ~cleared /\ ~raced => HeldInv /\ CountedInv
  BY DEF RxInv
<1>7. ASSUME ~cleared, ~raced
      PROVE  /\ Range(got) = Taken \ bad
             /\ \A i, j \in DOMAIN got : i < j => got[i] < got[j]
             /\ Taken \cap bad \subseteq perr
             /\ (\E o \in overrun : o[2]) => oerr > 0 \/ lsroe
  BY <1>7 DEF RxInv, InputInOrder
<1>8. Taken \subseteq 1 .. arrived
  BY DEF Taken
<1>9. CASE Len(rxfifo) < Depth
  <2>0. rxfifo' = Append(rxfifo, [c |-> a, bad |-> dmg]) /\ UNCHANGED <<lsroe, overrun>>
    BY <1>1, <1>9
  <2>1. /\ rxfifo' \in Seq([c : Nat, bad : BOOLEAN]) /\ Len(rxfifo') = Len(rxfifo) + 1
        /\ \A i \in 1 .. Len(rxfifo) : rxfifo'[i] = rxfifo[i]
        /\ rxfifo'[Len(rxfifo) + 1] = [c |-> a, bad |-> dmg]
    <3>1. [c |-> a, bad |-> dmg] \in [c : Nat, bad : BOOLEAN]
      BY <1>2
    <3> QED
      BY <2>0, <3>1, <1>2, Appended
  <2>2. DOMAIN rxfifo' = 1 .. (Len(rxfifo) + 1)
        /\ 1 .. (Len(rxfifo) + 1) = (1 .. Len(rxfifo)) \cup {Len(rxfifo) + 1}
    BY <2>1, <1>2
  <2>3. RxTypes'
    <3>1. rxfifo' # <<>>
      BY <2>1, <1>2
    <3>2. overrun' \subseteq (1 .. a) \X BOOLEAN
      BY <2>0, <1>2, <1>3
    <3>3. a \in Nat
      BY <1>2
    <3> HIDE DEF a
    <3> QED
      BY <1>0, <1>5, <2>0, <2>1, <3>1, <3>2, <3>3, <1>t DEF RxTypes
  <2>4. Lost' = Lost
    BY <2>0 DEF Lost
  <2>5. {x.c : x \in Range(rxfifo')} = inside \cup {a}
    BY <2>1, <2>2, <1>2 DEF Range
  <2>6. Taken' = Taken
    <3> HIDE DEF a, inside
    <3>1. Taken' = (1 .. a) \ (Lost \cup inside \cup {a})
      BY <1>0, <2>4, <2>5 DEF Taken
    <3>2. Taken = (1 .. arrived) \ (Lost \cup inside)
      BY DEF Taken, inside
    <3> QED
      BY <1>3, <3>1, <3>2
  <2>7. ASSUME ~cleared', ~raced' PROVE HeldInv' /\ CountedInv'
    <3>0. ~cleared /\ ~raced
      BY <1>0, <2>7
    <3>1. /\ \A i \in 1 .. Len(rxfifo) :
               /\ rxfifo[i].c \in (1 .. arrived) \ Lost
               /\ rxfifo[i].bad <=> rxfifo[i].c \in bad
               /\ \A k \in Taken : k < rxfifo[i].c
          /\ \A i, j \in 1 .. Len(rxfifo) : i < j => rxfifo[i].c < rxfifo[j].c
      BY <3>0, <1>2, <1>6 DEF HeldInv
    <3>2. /\ rxfifo'[Len(rxfifo) + 1].c = a
          /\ rxfifo'[Len(rxfifo) + 1].bad <=> a \in bad'
          /\ a \in (1 .. a) \ Lost
          /\ \A k \in Taken : k < a
      <4>1. rxfifo'[Len(rxfifo) + 1].bad <=> a \in bad'
        BY <1>5, <2>1
      <4> QED
        BY <4>1, <1>2, <1>3, <1>4, <1>8, <2>1
    <3>3. ASSUME NEW i \in DOMAIN rxfifo'
          PROVE  /\ rxfifo'[i].c \in (1 .. a) \ Lost
                 /\ rxfifo'[i].bad <=> rxfifo'[i].c \in bad'
                 /\ \A k \in Taken : k < rxfifo'[i].c
      <4> HIDE DEF a
      <4>1. CASE i \in 1 .. Len(rxfifo)
        BY <1>3, <1>5, <2>1, <3>1, <4>1
      <4>2. CASE i = Len(rxfifo) + 1
        BY <3>2, <4>2
      <4> QED
        BY <2>2, <4>1, <4>2
    <3>4. ASSUME NEW i \in DOMAIN rxfifo', NEW j \in DOMAIN rxfifo', i < j
          PROVE  rxfifo'[i].c < rxfifo'[j].c
      <4>1. i \in 1 .. Len(rxfifo) /\ rxfifo'[i].c \in 1 .. arrived
        BY <1>2, <2>1, <2>2, <3>1, <3>4
      <4>2. CASE j = Len(rxfifo) + 1
        BY <1>3, <3>2, <4>1, <4>2
      <4>3. CASE j \in 1 .. Len(rxfifo)
        BY <2>1, <3>1, <3>4, <4>1, <4>3
      <4> QED
        BY <2>2, <4>2, <4>3
    <3>5. HeldInv'
      <4> HIDE DEF a
      <4> QED
        BY <1>0, <2>4, <2>6, <3>3, <3>4 DEF HeldInv
    <3>6. CountedInv'
      <4>1. "rx" \in rdlsr => rxfifo'[1] = rxfifo[1]
        <5>1. "rx" \in rdlsr => 1 \in 1 .. Len(rxfifo)
          BY <1>2, <1>t DEF RxTypes
        <5> QED
          BY <5>1, <2>1
      <4> QED
        BY <1>0, <1>2, <1>6, <2>0, <2>1, <3>0, <4>1 DEF CountedInv
    <3> QED
      BY <3>5, <3>6
  <2>8. ASSUME ~cleared', ~raced'
        PROVE  /\ Range(got') = Taken' \ bad'
               /\ \A i, j \in DOMAIN got' : i < j => got'[i] < got'[j]
               /\ Taken' \cap bad' \subseteq perr'
               /\ (\E o \in overrun' : o[2]) => oerr' > 0 \/ lsroe'
    <3>1. Taken \ bad' = Taken \ bad /\ Taken \cap bad' = Taken \cap bad
      BY <1>5, <1>8
    <3> QED
      BY <1>0, <1>7, <2>0, <2>6, <2>8, <3>1
  <2> QED
    BY <2>3, <2>7, <2>8 DEF RxInv, InputInOrder
<1>10. CASE ~(Len(rxfifo) < Depth)
  <2>0. lsroe' = TRUE /\ overrun' = overrun \cup {<<a, fifo>>} /\ UNCHANGED rxfifo
    BY <1>1, <1>10
  <2>1. RxTypes'
    <3>1. overrun' \subseteq (1 .. a) \X BOOLEAN
      <4>1. a \in 1 .. a /\ 1 .. arrived \subseteq 1 .. a
        BY <1>2
      <4>2. <<a, fifo>> \in (1 .. a) \X BOOLEAN
        BY <4>1, <1>2
      <4>3. overrun \subseteq (1 .. a) \X BOOLEAN
        <5> HIDE DEF a
        <5> QED
          BY <4>1, <1>2
      <4> HIDE DEF a
      <4> QED
        BY <2>0, <4>2, <4>3
    <3>2. a \in Nat
      BY <1>2
    <3>3. /\ arrived' \in Nat /\ overrun' \subseteq (1 .. arrived') \X BOOLEAN
          /\ bad' \subseteq 1 .. arrived'
      BY <1>0, <1>5, <3>1, <3>2
    <3>4. UNCHANGED <<rxfifo, got, oerr, fifo, rdlsr, iir>>
      BY <1>0, <2>0
    <3> HIDE DEF a
    <3> QED
      BY <3>3, <3>4, <1>t DEF RxTypes
  <2>2. Lost' = Lost \cup {a}
    <3> HIDE DEF a
    <3>1. {o[1] : o \in overrun'} = {o[1] : o \in overrun} \cup {<<a, fifo>>[1]}
      BY <2>0
    <3> QED
      BY <3>1 DEF Lost
  <2>3. Taken' = Taken
    <3> HIDE DEF a
    <3>1. Taken' = (1 .. a) \ (Lost \cup {a} \cup inside)
      BY <1>0, <2>0, <2>2 DEF Taken
    <3>2. Taken = (1 .. arrived) \ (Lost \cup inside)
      BY DEF Taken
    <3> HIDE DEF inside
    <3> QED
      BY <1>3, <3>1, <3>2
  <2>4. ASSUME ~cleared', ~raced' PROVE HeldInv' /\ CountedInv'
    <3>0. ~cleared /\ ~raced
      BY <1>0, <2>4
    <3>1. HeldInv'
      <4>1. ASSUME NEW i \in DOMAIN rxfifo
            PROVE  /\ rxfifo[i].c \in (1 .. a) \ (Lost \cup {a})
                   /\ rxfifo[i].bad <=> rxfifo[i].c \in bad'
                   /\ \A k \in Taken : k < rxfifo[i].c
        <5>1. /\ rxfifo[i].c \in (1 .. arrived) \ Lost
              /\ rxfifo[i].bad <=> rxfifo[i].c \in bad
              /\ \A k \in Taken : k < rxfifo[i].c
          BY <3>0, <1>6 DEF HeldInv
        <5> HIDE DEF a
        <5> QED
          BY <1>3, <1>5, <5>1
      <4>2. \A i, j \in DOMAIN rxfifo : i < j => rxfifo[i].c < rxfifo[j].c
        BY <3>0, <1>6 DEF HeldInv
      <4> HIDE DEF a
      <4> QED
        BY <1>0, <2>0, <2>2, <2>3, <4>1, <4>2 DEF HeldInv
    <3>2. CountedInv'
      <4>1. "rx" \in rdlsr => (rxfifo[1].bad => rxfifo[1].c \in perr)
        BY <3>0, <1>6 DEF CountedInv
      <4>2. ASSUME \E o \in overrun' : o[2], oerr = 0
            PROVE  Len(rxfifo) >= (IF "rx" \in rdlsr THEN 2 ELSE 1)
        <5>1. CASE fifo = TRUE
          BY <5>1, <1>2, <1>10, FifoAssumption DEF Depth
        <5>2. CASE fifo = FALSE
          <6>1. \E o \in overrun : o[2]
            BY <2>0, <4>2, <5>2
          <6> QED
            BY <3>0, <4>2, <6>1, <1>6 DEF CountedInv
        <5> QED
          BY <5>1, <5>2, <1>2
      <4> QED
        BY <1>0, <2>0, <4>1, <4>2 DEF CountedInv
    <3> QED
      BY <3>1, <3>2
  <2>5. ASSUME ~cleared', ~raced'
        PROVE  /\ Range(got') = Taken' \ bad'
               /\ \A i, j \in DOMAIN got' : i < j => got'[i] < got'[j]
               /\ Taken' \cap bad' \subseteq perr'
               /\ (\E o \in overrun' : o[2]) => oerr' > 0 \/ lsroe'
    <3>1. Taken \ bad' = Taken \ bad /\ Taken \cap bad' = Taken \cap bad
      BY <1>5, <1>8
    <3> QED
      BY <1>0, <1>7, <2>0, <2>3, <2>5, <3>1
  <2> QED
    BY <2>1, <2>4, <2>5 DEF RxInv, InputInOrder
<1> QED
  BY <1>9, <1>10

\* kw_read takes the first character of the fifo, and passes it on if it is whole.
LEMMA TakeInv ==
  ASSUME RxInv, Read, rdlsr # {}, "rx" \in rdlsr, ~lcr.dlab
  PROVE  RxInv'
<1>t. RxTypes
  BY DEF RxInv
<1> DEFINE h == Head(rxfifo)
           inside == {x.c : x \in Range(rxfifo)}
           left == {x.c : x \in Range(Tail(rxfifo))}
<1>0. /\ rxfifo' = Tail(rxfifo) /\ got' = Passed(h) /\ rdlsr' = {}
      /\ UNCHANGED <<lsroe, oerr, perr, raced, iir, arrived, bad, overrun, fifo, cleared>>
  BY DEF Read, kw_read, modeVars
<1>1. /\ rxfifo # <<>> /\ rxfifo \in Seq([c : Nat, bad : BOOLEAN]) /\ Len(rxfifo) \in Nat \ {0}
      /\ DOMAIN rxfifo = 1 .. Len(rxfifo) /\ got \in Seq(Nat) /\ Len(got) \in Nat
      /\ DOMAIN got = 1 .. Len(got)
  BY <1>t DEF RxTypes
<1>2. /\ h \in [c : Nat, bad : BOOLEAN] /\ h = rxfifo[1]
      /\ Tail(rxfifo) \in Seq([c : Nat, bad : BOOLEAN]) /\ Len(Tail(rxfifo)) = Len(rxfifo) - 1
      /\ \A i \in 1 .. (Len(rxfifo) - 1) : Tail(rxfifo)[i] = rxfifo[i + 1]
      /\ DOMAIN Tail(rxfifo) = 1 .. (Len(rxfifo) - 1)
  <2> DEFINE S == [c : Nat, bad : BOOLEAN]
  <2>1. rxfifo # <<>> /\ rxfifo \in Seq(S)
    BY <1>1
  <2>2. /\ Len(rxfifo) \in Nat \ {0} /\ Head(rxfifo) = rxfifo[1] /\ Head(rxfifo) \in S
        /\ Tail(rxfifo) \in Seq(S) /\ DOMAIN Tail(rxfifo) = 1 .. (Len(rxfifo) - 1)
        /\ Len(Tail(rxfifo)) = Len(rxfifo) - 1
        /\ \A i \in 1 .. (Len(rxfifo) - 1) : Tail(rxfifo)[i] = rxfifo[i + 1]
    <3> HIDE DEF S
    <3> QED
      BY <2>1, HeadAndTail
  <2> QED
    BY <2>2
<1>3. \A i \in 1 .. (Len(rxfifo) - 1) : Tail(rxfifo)[i].c \in Nat
  <2>1. \A i \in 1 .. (Len(rxfifo) - 1) : Tail(rxfifo)[i] \in [c : Nat, bad : BOOLEAN]
    BY <1>1, HeadAndTail
  <2> QED
    BY <2>1
<1>4. RxTypes'
  <2>1. got' \in Seq(Nat)
    BY <1>0, <1>1, <1>2 DEF Passed
  <2> QED
    BY <1>0, <1>2, <2>1, <1>t DEF RxTypes
<1>5. inside = left \cup {h.c}
  <2> DEFINE t == Tail(rxfifo)
  <2>1. /\ Range(rxfifo) = {rxfifo[i] : i \in 1 .. Len(rxfifo)}
        /\ Range(t) = {t[i] : i \in 1 .. (Len(rxfifo) - 1)}
        /\ \A i \in 1 .. (Len(rxfifo) - 1) : t[i] = rxfifo[i + 1]
        /\ h = rxfifo[1] /\ Len(rxfifo) \in Nat \ {0}
    BY <1>1, <1>2 DEF Range
  <2> HIDE DEF h, t
  <2>2. ASSUME NEW x \in Range(rxfifo) PROVE x \in Range(t) \cup {h}
    <3>1. PICK i \in 1 .. Len(rxfifo) : x = rxfifo[i]
      BY <2>1
    <3>2. i # 1 => i - 1 \in 1 .. (Len(rxfifo) - 1) /\ (i - 1) + 1 = i
      BY <2>1
    <3>3. i # 1 => x = t[i - 1] /\ t[i - 1] \in Range(t)
      BY <2>1, <3>1, <3>2
    <3> QED
      BY <2>1, <3>1, <3>3
  <2>3. ASSUME NEW x \in Range(t) PROVE x \in Range(rxfifo)
    <3>1. PICK i \in 1 .. (Len(rxfifo) - 1) : x = t[i]
      BY <2>1
    <3>2. i + 1 \in 1 .. Len(rxfifo) /\ x = rxfifo[i + 1]
      BY <2>1, <3>1
    <3> QED
      BY <2>1, <3>2
  <2>4. h \in Range(rxfifo)
    <3>1. 1 \in 1 .. Len(rxfifo)
      BY <2>1
    <3> QED
      BY <2>1, <3>1
  <2>5. Range(rxfifo) = Range(t) \cup {h}
    BY <2>2, <2>3, <2>4
  <2>6. {x.c : x \in Range(rxfifo)} = {x.c : x \in Range(t)} \cup {h.c}
    BY <2>5
  <2> QED
    BY <2>6 DEF t
<1>6. ASSUME ~cleared', ~raced' PROVE HeldInv' /\ CountedInv'
             /\ Range(got') = Taken' \ bad'
             /\ (\A i, j \in DOMAIN got' : i < j => got'[i] < got'[j])
             /\ Taken' \cap bad' \subseteq perr'
             /\ ((\E o \in overrun' : o[2]) => oerr' > 0 \/ lsroe')
  <2>0. ~cleared /\ ~raced
    BY <1>0, <1>6
  <2>1. HeldInv /\ CountedInv
    BY <2>0 DEF RxInv
  <2>2. /\ Range(got) = Taken \ bad
        /\ \A i, j \in DOMAIN got : i < j => got[i] < got[j]
        /\ Taken \cap bad \subseteq perr
        /\ (\E o \in overrun : o[2]) => oerr > 0 \/ lsroe
    BY <2>0 DEF RxInv, InputInOrder
  <2>3. /\ \A i \in 1 .. Len(rxfifo) :
             /\ rxfifo[i].c \in (1 .. arrived) \ Lost
             /\ rxfifo[i].bad <=> rxfifo[i].c \in bad
             /\ \A k \in Taken : k < rxfifo[i].c
        /\ \A i, j \in 1 .. Len(rxfifo) : i < j => rxfifo[i].c < rxfifo[j].c
    BY <1>1, <2>1 DEF HeldInv
  <2>4. /\ h.c \in Nat /\ h.c \in (1 .. arrived) \ Lost /\ (h.bad <=> h.c \in bad)
        /\ \A k \in Taken : k < h.c
    BY <1>1, <1>2, <2>3
  <2>5. \A i \in 1 .. (Len(rxfifo) - 1) : h.c < Tail(rxfifo)[i].c
    BY <1>1, <1>2, <2>3
  <2>6. h.c \notin left
    <3> HIDE DEF h
    <3>1. \A x \in Range(Tail(rxfifo)) : h.c < x.c /\ x.c \in Nat
      BY <1>2, <1>3, <2>5 DEF Range
    <3> QED
      BY <2>4, <3>1
  <2>7. Taken' = Taken \cup {h.c}
    <3>1. Taken' = (1 .. arrived) \ (Lost \cup left)
      BY <1>0 DEF Taken, Lost
    <3>2. Taken = (1 .. arrived) \ (Lost \cup inside)
      BY DEF Taken
    <3> HIDE DEF h, inside, left
    <3> QED
      BY <1>5, <2>4, <2>6, <3>1, <3>2
  <2>8. HeldInv'
    <3>1. ASSUME NEW i \in 1 .. (Len(rxfifo) - 1)
          PROVE  /\ Tail(rxfifo)[i].c \in (1 .. arrived) \ Lost
                 /\ Tail(rxfifo)[i].bad <=> Tail(rxfifo)[i].c \in bad
                 /\ \A k \in Taken \cup {h.c} : k < Tail(rxfifo)[i].c
      <4>1. i + 1 \in 1 .. Len(rxfifo) /\ Tail(rxfifo)[i] = rxfifo[i + 1]
        BY <1>1, <1>2
      <4> HIDE DEF h
      <4> QED
        BY <2>3, <2>5, <4>1
    <3>2. ASSUME NEW i \in 1 .. (Len(rxfifo) - 1), NEW j \in 1 .. (Len(rxfifo) - 1), i < j
          PROVE  Tail(rxfifo)[i].c < Tail(rxfifo)[j].c
      <4>1. /\ i + 1 \in 1 .. Len(rxfifo) /\ Tail(rxfifo)[i] = rxfifo[i + 1]
            /\ j + 1 \in 1 .. Len(rxfifo) /\ Tail(rxfifo)[j] = rxfifo[j + 1]
            /\ i + 1 < j + 1
        BY <1>1, <1>2, <3>2
      <4> QED
        BY <2>3, <4>1
    <3>3. UNCHANGED <<Lost, arrived, bad>>
      BY <1>0 DEF Lost
    <3> HIDE DEF h
    <3> QED
      BY <1>0, <1>2, <2>7, <3>1, <3>2, <3>3 DEF HeldInv
  <2>9. CountedInv'
    BY <1>0, <1>1, <1>2, <2>1 DEF CountedInv
  <2>10. Range(got') = Taken' \ bad' /\ (\A i, j \in DOMAIN got' : i < j => got'[i] < got'[j])
    <3>1. CASE h.bad = TRUE
      <4>1. UNCHANGED <<got, bad>>
        BY <1>0, <3>1 DEF Passed
      <4> HIDE DEF h
      <4> QED
        BY <2>2, <2>4, <2>7, <3>1, <4>1
    <3>2. CASE h.bad = FALSE
      <4>1. got' = Append(got, h.c) /\ UNCHANGED bad
        BY <1>0, <3>2 DEF Passed
      <4>2. /\ Len(got') = Len(got) + 1 /\ DOMAIN got' = 1 .. (Len(got) + 1)
            /\ \A i \in 1 .. Len(got) : got'[i] = got[i]
            /\ got'[Len(got) + 1] = h.c
        <5> HIDE DEF h
        <5> QED
          BY <1>1, <2>4, <4>1, Appended
      <4>3. 1 .. (Len(got) + 1) = (1 .. Len(got)) \cup {Len(got) + 1}
        BY <1>1
      <4>4. \A i \in 1 .. Len(got) : got[i] \in Taken
        BY <1>1, <2>2 DEF Range
      <4>5. Range(got') = Range(got) \cup {h.c}
        <5> HIDE DEF h
        <5>1. {got'[i] : i \in 1 .. (Len(got) + 1)}
              = {got'[i] : i \in 1 .. Len(got)} \cup {got'[Len(got) + 1]}
          BY <4>3
        <5>2. {got'[i] : i \in 1 .. Len(got)} = {got[i] : i \in 1 .. Len(got)}
          BY <4>2
        <5> QED
          BY <1>1, <4>2, <5>1, <5>2 DEF Range
      <4>6. Range(got') = Taken' \ bad'
        <5> HIDE DEF h
        <5> QED
          BY <2>2, <2>4, <2>7, <3>2, <4>1, <4>5
      <4>7. ASSUME NEW i \in DOMAIN got', NEW j \in DOMAIN got', i < j PROVE got'[i] < got'[j]
        <5> HIDE DEF h
        <5>1. i \in 1 .. Len(got)
          BY <1>1, <4>2, <4>7
        <5>2. CASE j = Len(got) + 1
          BY <2>4, <4>2, <4>4, <5>1, <5>2
        <5>3. CASE j \in 1 .. Len(got)
          BY <1>1, <2>2, <4>2, <4>7, <5>1, <5>3
        <5> QED
          BY <4>2, <4>3, <5>2, <5>3
      <4> QED
        BY <4>6, <4>7
    <3> QED
      BY <1>2, <3>1, <3>2
  <2>11. Taken' \cap bad' \subseteq perr'
    <3>1. h.c \in bad => h.c \in perr
      BY <1>2, <2>1, <2>4 DEF CountedInv
    <3> HIDE DEF h
    <3> QED
      BY <1>0, <2>2, <2>7, <3>1
  <2> QED
    BY <1>0, <2>2, <2>8, <2>9, <2>10, <2>11
<1> QED
  BY <1>4, <1>6 DEF RxInv, InputInOrder

LEMMA ReadInv == RxInv /\ Read => RxInv'
<1> SUFFICES ASSUME RxInv, Read PROVE RxInv'
  OBVIOUS
<1>t. RxTypes
  BY DEF RxInv
<1>0. Receives(iir) /\ UNCHANGED <<arrived, bad, overrun, fifo, cleared>>
  BY DEF Read, modeVars
<1>q. ~cleared /\ ~raced =>
        /\ HeldInv /\ CountedInv
        /\ Range(got) = Taken \ bad
        /\ \A i, j \in DOMAIN got : i < j => got[i] < got[j]
        /\ Taken \cap bad \subseteq perr
        /\ (\E o \in overrun : o[2]) => oerr > 0 \/ lsroe
  BY DEF RxInv, InputInOrder
<1>h. rxfifo # <<>> => Head(rxfifo) = rxfifo[1] /\ Len(rxfifo) >= 1
  BY <1>t DEF RxTypes
\* lsr is read: its errors are counted.
<1>1. CASE rdlsr = {}
  <2>0. /\ rdlsr' = {"read"} \cup (IF lsroe THEN {"oe"} ELSE {})
                      \cup (IF rxfifo # <<>> THEN {"rx"} ELSE {})
        /\ lsroe' = FALSE
        /\ oerr' = IF rxfifo # <<>> /\ lsroe THEN oerr + 1 ELSE oerr
        /\ perr' = IF rxfifo # <<>> /\ Head(rxfifo).bad
                   THEN perr \cup {Head(rxfifo).c} ELSE perr
        /\ UNCHANGED <<rxfifo, got, raced, iir>>
    BY <1>1 DEF Read, kw_read
  <2>1. RxTypes'
    <3>1. /\ rdlsr' \subseteq {"read", "oe", "rx"} /\ Receives(iir)'
          /\ "rx" \in rdlsr' => rxfifo' # <<>>
      BY <1>0, <2>0 DEF Receives
    <3>2. oerr' \in Nat
      BY <2>0, <1>t DEF RxTypes
    <3> QED
      BY <1>0, <2>0, <3>1, <3>2, <1>t DEF RxTypes
  <2>2. UNCHANGED <<Taken, Lost>>
    BY <1>0, <2>0 DEF Taken, Lost
  <2>3. ASSUME ~cleared', ~raced' PROVE HeldInv' /\ CountedInv'
    <3>0. ~cleared /\ ~raced
      BY <1>0, <2>0, <2>3
    <3>1. HeldInv'
      BY <1>0, <2>0, <2>2, <3>0, <1>q DEF HeldInv
    <3>2. "rx" \in rdlsr' => (rxfifo[1].bad => rxfifo[1].c \in perr')
      BY <2>0, <1>h
    <3>3. ASSUME \E o \in overrun : o[2] PROVE oerr' # 0
      <4>1. oerr = 0 => lsroe /\ Len(rxfifo) >= 1
        BY <1>1, <3>0, <3>3, <1>q DEF CountedInv
      <4>2. oerr = 0 => rxfifo # <<>>
        BY <4>1
      <4> QED
        BY <2>0, <4>1, <4>2, <1>t DEF RxTypes
    <3> QED
      BY <1>0, <2>0, <3>1, <3>2, <3>3 DEF CountedInv
  <2>4. ASSUME ~cleared', ~raced'
        PROVE  /\ Range(got') = Taken' \ bad'
               /\ \A i, j \in DOMAIN got' : i < j => got'[i] < got'[j]
               /\ Taken' \cap bad' \subseteq perr'
               /\ (\E o \in overrun' : o[2]) => oerr' > 0 \/ lsroe'
    <3>0. ~cleared /\ ~raced
      BY <1>0, <2>0, <2>4
    <3>1. perr \subseteq perr'
      BY <2>0
    <3>2. (\E o \in overrun : o[2]) => oerr' > 0
      <4>1. (\E o \in overrun : o[2]) /\ oerr = 0 => lsroe /\ Len(rxfifo) >= 1
        BY <1>1, <3>0, <1>q DEF CountedInv
      <4>2. (\E o \in overrun : o[2]) /\ oerr = 0 => rxfifo # <<>>
        BY <4>1
      <4> QED
        BY <2>0, <4>1, <4>2, <1>t DEF RxTypes
    <3> QED
      BY <1>0, <2>0, <2>2, <3>0, <3>1, <3>2, <1>q
  <2> QED
    BY <2>1, <2>3, <2>4 DEF RxInv, InputInOrder
\* The loop ends, or rbr is dll.
<1>2. CASE rdlsr # {} /\ rdlsr' = {} /\ UNCHANGED <<rxfifo, lsroe, got, oerr, perr>>
           /\ (raced => raced')
  <2>1. RxTypes'
    BY <1>0, <1>2, <1>t DEF RxTypes
  <2>2. UNCHANGED <<Taken, Lost>>
    BY <1>0, <1>2 DEF Taken, Lost
  <2>3. ASSUME ~cleared', ~raced' PROVE HeldInv' /\ CountedInv'
    <3>0. ~cleared /\ ~raced
      BY <1>0, <1>2, <2>3
    <3>1. HeldInv'
      BY <1>0, <1>2, <2>2, <3>0, <1>q DEF HeldInv
    <3>2. (\E o \in overrun : o[2]) /\ oerr = 0 => lsroe /\ Len(rxfifo) >= 1
      <4>1. Len(rxfifo) \in Nat
        BY <1>t DEF RxTypes
      <4> QED
        BY <3>0, <4>1, <1>q DEF CountedInv
    <3> QED
      BY <1>0, <1>2, <3>1, <3>2 DEF CountedInv
  <2>4. InputInOrder'
    BY <1>0, <1>2, <2>2, <1>q DEF InputInOrder
  <2> QED
    BY <2>1, <2>3, <2>4 DEF RxInv
<1>3. CASE rdlsr # {} /\ "rx" \in rdlsr /\ ~lcr.dlab
  BY <1>3, TakeInv
<1> QED
  <2>1. CASE rdlsr # {} /\ "rx" \notin rdlsr
    BY <2>1, <1>2 DEF Read, kw_read
  <2>2. CASE rdlsr # {} /\ "rx" \in rdlsr /\ lcr.dlab
    BY <2>2, <1>2 DEF Read, kw_read
  <2> QED
    BY <2>1, <2>2, <1>1, <1>3

LEMMA RxNextInv == IntrInv /\ KickInv /\ RxInv /\ [Next]_vars => RxInv'
<1> SUFFICES ASSUME IntrInv, KickInv, RxInv, [Next]_vars PROVE RxInv'
  OBVIOUS
<1>t. RxTypes
  BY DEF RxInv
\* A request finds no kw_read under way.
<1>r. level = <<>> => rdlsr = {}
  <2>1. level = <<>> => iir = "none"
    BY DEF IntrInv, DispatchInv, KickInv
  <2> QED
    BY <2>1, <1>t DEF RxTypes, Receives
<1>0. ASSUME UNCHANGED <<lsroe, rdlsr, arrived, got, oerr, perr, bad, overrun>>,
             fifo' \in BOOLEAN, cleared => cleared', raced => raced',
             rdlsr # {} => UNCHANGED <<rxfifo, iir>>,
             rxfifo' = rxfifo \/ (rxfifo' = <<>> /\ cleared')
      PROVE  RxInv'
  <2>1. RxTypes'
    <3>1. rxfifo' \in Seq([c : Nat, bad : BOOLEAN])
      <4>1. <<>> \in Seq([c : Nat, bad : BOOLEAN])
        OBVIOUS
      <4> QED
        BY <1>0, <4>1, <1>t DEF RxTypes
    <3>2. (rdlsr # {} => Receives(iir))' /\ ("rx" \in rdlsr => rxfifo # <<>>)'
      BY <1>0, <1>t DEF RxTypes, Receives
    <3> QED
      BY <1>0, <3>1, <3>2, <1>t DEF RxTypes
  <2>2. CASE rxfifo' = <<>> /\ cleared'
    BY <2>1, <2>2 DEF RxInv, InputInOrder
  <2>3. CASE rxfifo' = rxfifo
    <3>1. UNCHANGED <<Taken, Lost>>
      BY <1>0, <2>3 DEF Taken, Lost
    <3>2. HeldInv => HeldInv'
      BY <1>0, <2>3, <3>1 DEF HeldInv
    <3>3. CountedInv => CountedInv'
      BY <1>0, <2>3 DEF CountedInv
    <3>4. InputInOrder'
      BY <1>0, <3>1 DEF RxInv, InputInOrder
    <3> QED
      BY <1>0, <2>1, <3>2, <3>3, <3>4 DEF RxInv
  <2> QED
    BY <1>0, <2>2, <2>3
<1>u. ASSUME UNCHANGED <<rxfifo, lsroe, rdlsr, arrived, got, oerr, perr, bad, overrun, fifo,
                         cleared>>,
             raced => raced', iir' = iir \/ ~Receives(iir)
      PROVE  RxInv'
  <2>1. fifo \in BOOLEAN /\ (rdlsr # {} => Receives(iir))
    BY <1>t DEF RxTypes
  <2> QED
    BY <1>u, <2>1, <1>0
<1>s. ASSUME NEW on \in BOOLEAN, SetFifo(on)
      PROVE  /\ fifo' \in BOOLEAN /\ (cleared => cleared')
             /\ rxfifo' = rxfifo \/ (rxfifo' = <<>> /\ cleared')
  BY <1>s DEF SetFifo
<1>1. CASE Arrive
  BY <1>1, ReceiveInv DEF Arrive, modeVars
<1>2. CASE Read
  BY <1>2, ReadInv
<1>3. CASE Kick
  <2>1. raced => raced'
    BY <1>3 DEF Kick, kw_kick, WriteThr
  <2> QED
    BY <1>3, <2>1, <1>u DEF Kick, rxVars, modeVars
<1>4. CASE serialputc
  <2>1. raced => raced'
    BY <1>4 DEF serialputc, WriteThr
  <2> QED
    BY <1>4, <2>1, <1>u DEF serialputc, rxVars, modeVars
<1>5. CASE kw_enable
  <2>1. /\ level = <<>> /\ SetFifo(TRUE) /\ (raced => raced')
        /\ UNCHANGED <<lsroe, rdlsr, arrived, got, oerr, perr, bad, overrun>>
    BY <1>5 DEF kw_enable, Runs
  <2>2. rdlsr = {}
    BY <2>1, <1>r
  <2>3. /\ fifo' \in BOOLEAN /\ (cleared => cleared')
        /\ rxfifo' = rxfifo \/ (rxfifo' = <<>> /\ cleared')
    BY <2>1, <1>s
  <2> QED
    BY <2>1, <2>2, <2>3, <1>0
<1>6. CASE kw_disable
  <2>1. /\ level = <<>> /\ SetFifo(FALSE) /\ (raced => raced')
        /\ UNCHANGED <<lsroe, rdlsr, arrived, got, oerr, perr, bad, overrun>>
    BY <1>6 DEF kw_disable, Runs
  <2>2. rdlsr = {}
    BY <2>1, <1>r
  <2>3. /\ fifo' \in BOOLEAN /\ (cleared => cleared')
        /\ rxfifo' = rxfifo \/ (rxfifo' = <<>> /\ cleared')
    BY <2>1, <1>s
  <2> QED
    BY <2>1, <2>2, <2>3, <1>0
<1>7. CASE kw_intr
  <2>1. iir = "none"
    BY <1>7 DEF kw_intr
  <2>2. ~Receives(iir)
    BY <2>1 DEF Receives
  <2> QED
    BY <1>7, <2>2, <1>u DEF kw_intr, rxVars, modeVars
<1>8. CASE KickedIntr
  <2>1. ~Receives(iir)
    BY <1>8 DEF KickedIntr, Empties, Receives
  <2> QED
    BY <1>8, <2>1, <1>u DEF KickedIntr, rxVars, modeVars
<1>9. CASE Write
  BY <1>9, <1>u DEF Write, rxVars, modeVars
<1>10. CASE Send
  <2>1. UNCHANGED <<rdlsr, got, oerr, perr, fifo, cleared, iir, raced>>
    BY <1>10 DEF Send, modeVars
  <2>2. CASE Receive(FALSE)
    BY <2>1, <2>2, ReceiveInv
  <2>3. CASE UNCHANGED <<arrived, bad, rxfifo, lsroe, overrun>>
    BY <2>1, <2>3, <1>u
  <2> QED
    BY <1>10, <2>2, <2>3 DEF Send
<1>11. CASE RxTimeout
  BY <1>11, <1>u DEF RxTimeout, modeVars
<1>12. CASE Enable
  BY <1>12, <1>u DEF Enable, rxVars
<1>13. CASE Disable
  BY <1>13, <1>u DEF Disable, rxVars
<1>14. CASE Baud
  BY <1>14, <1>u DEF Baud, rxVars, modeVars
<1>15. CASE kw_break
  BY <1>15, <1>u DEF kw_break, rxVars, modeVars
<1>16. CASE Line
  BY <1>16, <1>u DEF Line, rxVars, modeVars
<1>17. CASE CpuIntr \/ AddLink \/ Hold \/ Panic \/ Tick \/ UNCHANGED vars
  BY <1>17, <1>u DEF CpuIntr, AddLink, Hold, Panic, Tick, vars, uartVars, rxVars, modeVars
<1> QED
  BY <1>1, <1>2, <1>3, <1>4, <1>5, <1>6, <1>7, <1>8, <1>9, <1>10, <1>11, <1>12, <1>13, <1>14,
     <1>15, <1>16, <1>17 DEF Next, HandlerStep, CtlStep, Request

\* uartkirkwood.c: a character that arrives whole is passed on in order and once, one
\* that arrives damaged is counted, and an overrun of the fifos is counted or still
\* to be seen, with fifos of any size of two or more.
THEOREM InputKept == Spec => []InputInOrder
<1>1. RxInv => InputInOrder
  BY DEF RxInv
<1>2. Init => IntrInv /\ KickInv /\ RxInv
  BY IntrInitInv, KickInitInv, RxInitInv
<1>3. IntrInv /\ KickInv /\ RxInv /\ [Next]_vars => IntrInv' /\ KickInv' /\ RxInv'
  BY IntrNextInv, KickNextInv, RxNextInv
<1> QED
  BY <1>1, <1>2, <1>3, PTL DEF Spec

=============================================================================
