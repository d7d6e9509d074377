---------------------------- MODULE PolledProofs ----------------------------
(***************************************************************************)
(* Theorems about the drivers that poll their hardware: the eFuse device,  *)
(* the NAND flash, the two halves of the crypto engine, the registers of   *)
(* an SD card and the real-time clock.  Each keeps to itself, so each has  *)
(* a specification of its own here.                                        *)
(***************************************************************************)
EXTENDS Efuse, Nand, CesaAes, CesaHash, SdRegs, Rtc, SequenceTheorems, FiniteSetTheorems, TLAPS

-----------------------------------------------------------------------------
(* devefuse.c                                                              *)

EfuseSpec == EfuseInit /\ [][EfuseNext]_efuseVars

EfuseTypes ==
  /\ epc \in [Burners -> {"idle", "check", "poll"}]
  /\ burn \in BOOLEAN /\ burndone \in BOOLEAN
  /\ start \subseteq Fuses /\ protection \subseteq Fuses
  /\ burning \subseteq protection /\ late \subseteq protection
  /\ data \in [Fuses -> BurnValues \cup {Blank}]
  /\ want \in [Burners -> Fuses \X (BurnValues \cup {Blank})]
  /\ fuse \in [Fuses -> BurnValues \cup {Blank}]
  /\ written \subseteq Fuses \X BurnValues

\* A write holds efuselock until it returns.
Holding == \A q \in Burners : epc[q] # "idle" => efuselock = q /\ want[q][2] \in BurnValues

\* Out of burn mode ctl asks for nothing: what the hardware still does, or has
\* said, is of a burn that went on after a timeout.
Calm == ~burn => start = {} /\ burning \subseteq late /\ (burndone => late # {})

\* A fuse that is being burned is blank, and its value was written.
Burning == \A f \in burning : fuse[f] = Blank /\ data[f] \in BurnValues

\* A polling write is in burn mode and its fuse is being burned or holds its
\* value; Cburndone is its own, or that of a burn that went on after a timeout.
Polling ==
  \A q \in Burners : epc[q] = "poll" =>
    LET f == want[q][1] IN
    /\ burn /\ f \in protection /\ data[f] = want[q][2]
    /\ f \in burning \/ fuse[f] = want[q][2]
    /\ burning \subseteq late \cup {f}
    /\ burndone => fuse[f] = want[q][2] \/ \E g \in late : g # f

\* A burned fuse has its security bit set.
Secured == \A f \in Fuses : fuse[f] # Blank => f \in protection

EfuseInv == EfuseTypes /\ Holding /\ Calm /\ Burning /\ Polling /\ Secured /\ BurnedOnce

LEMMA EfuseInitInv == EfuseInit => EfuseInv
<1> SUFFICES ASSUME EfuseInit PROVE EfuseInv
  OBVIOUS
<1>1. EfuseTypes
  BY DEF EfuseInit, EfuseTypes, Fuses
<1>2. Holding /\ Polling
  BY DEF EfuseInit, Holding, Polling
<1>3. Calm /\ Burning /\ Secured
  BY DEF EfuseInit, Calm, Burning, Secured
<1>4. BurnedOnce
  BY DEF EfuseInit, BurnedOnce, Blank, Spoiled
<1> QED
  BY <1>1, <1>2, <1>3, <1>4 DEF EfuseInv

\* A step of one write: the others are not polling, or the step is of no concern
\* to them.
LEMMA EfuseWriteInv ==
  ASSUME EfuseInv, NEW q \in Burners, EfuseWrite(q)
  PROVE  EfuseInv'
<1> USE DEF EfuseInv
<1>0. /\ epc[q] = "idle" /\ efuselock = NoBurner /\ efuselock' = q
      /\ UNCHANGED <<burn, start, burning, burndone, protection, data, fuse, written, late>>
      /\ epc' = [epc EXCEPT ![q] = "check"]
  BY DEF EfuseWrite
<1>1. PICK f \in Fuses, x \in BurnValues : want' = [want EXCEPT ![q] = <<f, x>>]
  BY DEF EfuseWrite
<1>2. EfuseTypes'
  BY <1>0, <1>1 DEF EfuseTypes
<1>3. Holding'
  BY <1>0, <1>1, BurnersAssumption DEF EfuseTypes, Holding
<1>4. Polling'
  BY <1>0, <1>1 DEF EfuseTypes, Polling
<1>5. (Calm /\ Burning /\ Secured /\ BurnedOnce)'
  BY <1>0 DEF Calm, Burning, Secured, BurnedOnce
<1> QED
  BY <1>2, <1>3, <1>4, <1>5

LEMMA EfuseBurnInv ==
  ASSUME EfuseInv, NEW q \in Burners, Burn(q)
  PROVE  EfuseInv'
<1> DEFINE f == want[q][1]
<1> USE DEF EfuseInv
<1>0. /\ epc[q] = "check" /\ ~burn /\ f \notin protection
      /\ burn' /\ protection' = protection \cup {f}
      /\ data' = [data EXCEPT ![f] = want[q][2]]
      /\ start' = start \cup {f} /\ burning' = burning \cup start'
      /\ epc' = [epc EXCEPT ![q] = "poll"]
      /\ UNCHANGED <<efuselock, burndone, want, fuse, written, late>>
  BY DEF Burn
<1>1. f \in Fuses /\ want[q][2] \in BurnValues /\ efuselock = q
  BY <1>0 DEF EfuseTypes, Holding
<1>2. /\ start = {} /\ burning \subseteq late /\ (burndone => late # {})
      /\ fuse[f] = Blank /\ f \notin late
  BY <1>0, <1>1 DEF Calm, Secured, EfuseTypes
<1>3. burning' = burning \cup {f} /\ data'[f] = want[q][2] /\ \A g \in burning : data'[g] = data[g]
  BY <1>0, <1>1, <1>2 DEF EfuseTypes
<1>4. EfuseTypes'
  BY <1>0, <1>1, <1>2, <1>3 DEF EfuseTypes
<1>5. Holding'
  BY <1>0, <1>1 DEF EfuseTypes, Holding
<1>6. Polling'
  <2>1. \A p \in Burners : epc'[p] = "poll" => p = q
    BY <1>0, <1>1 DEF EfuseTypes, Holding
  <2>2. burn' /\ f \in protection' /\ f \in burning' /\ burning' \subseteq late' \cup {f}
    BY <1>0, <1>2, <1>3
  <2>3. burndone' => \E g \in late' : g # f
    BY <1>0, <1>2
  <2> QED
    BY <1>0, <1>3, <2>1, <2>2, <2>3 DEF Polling
<1>7. (Calm /\ Burning /\ Secured /\ BurnedOnce)'
  BY <1>0, <1>1, <1>2, <1>3 DEF Calm, Burning, Secured, BurnedOnce
<1> QED
  BY <1>4, <1>5, <1>6, <1>7

\* ctl is cleared by a write that leaves: it is calm again.
LEMMA ClearInv ==
  ASSUME EfuseInv, NEW q \in Burners, efuselock = q, Leave(q), ClearCtl,
         UNCHANGED <<protection, data, want, fuse>>,
         written' \subseteq Fuses \X BurnValues, BurnedOnce'
  PROVE  EfuseInv'
<1> USE DEF EfuseInv
<1>0. /\ burn' = FALSE /\ start' = {} /\ burndone' = FALSE
      /\ burning' \subseteq burning /\ burning' \subseteq late' /\ late' \subseteq late \cup burning
      /\ epc' = [epc EXCEPT ![q] = "idle"]
  BY DEF ClearCtl, Leave
<1>1. \A p \in Burners : epc'[p] = "idle"
  BY <1>0 DEF Holding, EfuseTypes
<1>2. EfuseTypes'
  BY <1>0 DEF EfuseTypes
<1>3. (Holding /\ Polling /\ Secured)'
  BY <1>1 DEF Holding, Polling, Secured
<1>4. (Calm /\ Burning)'
  BY <1>0 DEF Calm, Burning
<1> QED
  BY <1>2, <1>3, <1>4

LEMMA EfuseEndInv ==
  ASSUME EfuseInv, NEW q \in Burners, Burned(q)
  PROVE  EfuseInv'
<1> USE DEF EfuseInv
<1>0. /\ epc[q] = "poll" /\ burndone /\ ClearCtl /\ Leave(q)
      /\ written' = written \cup {want[q]}
      /\ UNCHANGED <<protection, data, want, fuse>>
  BY DEF Burned
<1>1. want[q] \in Fuses \X BurnValues /\ efuselock = q
  BY <1>0 DEF EfuseTypes, Holding
<1>2. late \subseteq late'
  BY <1>0 DEF ClearCtl
<1>3. fuse[want[q][1]] = want[q][2] \/ \E g \in late : g # want[q][1]
  BY <1>0 DEF Polling
<1>4. BurnedOnce'
  BY <1>0, <1>2, <1>3 DEF BurnedOnce
<1>5. written' \subseteq Fuses \X BurnValues
  BY <1>0, <1>1 DEF EfuseTypes
<1> QED
  BY <1>0, <1>1, <1>4, <1>5, ClearInv

\* A timeout clears ctl, a kill leaves it.
LEMMA EfuseLeaveInv ==
  ASSUME EfuseInv, NEW q \in Burners, Refused(q) \/ Poll(q) \/ KillBurner(q)
  PROVE  EfuseInv'
<1> USE DEF EfuseInv
<1>0. /\ epc[q] # "idle" /\ UNCHANGED <<protection, data, want, fuse, written>>
      /\ \/ Leave(q) /\ (ClearCtl \/ UNCHANGED <<burn, start, burning, burndone, late>>)
         \/ UNCHANGED <<burn, start, burning, burndone, late, epc, efuselock>>
  BY DEF Refused, Poll, KillBurner
<1>1. efuselock = q
  BY <1>0 DEF Holding
<1>2. CASE Leave(q) /\ ClearCtl
  <2>1. BurnedOnce'
    BY <1>0, <1>2 DEF BurnedOnce, ClearCtl
  <2>2. written' \subseteq Fuses \X BurnValues
    BY <1>0 DEF EfuseTypes
  <2> QED
    BY <1>0, <1>1, <1>2, <2>1, <2>2, ClearInv
<1>3. CASE Leave(q) /\ UNCHANGED <<burn, start, burning, burndone, late>>
  <2>1. \A p \in Burners : epc'[p] = "idle"
    BY <1>1, <1>3 DEF Leave, Holding, EfuseTypes
  <2>2. EfuseTypes'
    BY <1>0, <1>3 DEF EfuseTypes, Leave
  <2>3. (Holding /\ Polling)'
    BY <1>0, <2>1 DEF Holding, Polling
  <2>4. (Calm /\ Burning /\ Secured /\ BurnedOnce)'
    BY <1>0, <1>3 DEF Calm, Burning, Secured, BurnedOnce
  <2> QED
    BY <2>2, <2>3, <2>4
<1>4. CASE UNCHANGED <<burn, start, burning, burndone, late, epc, efuselock>>
  BY <1>0, <1>4 DEF EfuseTypes, Holding, Polling, Calm, Burning, Secured, BurnedOnce
<1> QED
  BY <1>0, <1>2, <1>3, <1>4

LEMMA HwBurnInv ==
  ASSUME EfuseInv, HwBurn
  PROVE  EfuseInv'
<1> USE DEF EfuseInv
<1>1. PICK f \in burning :
        /\ burndone' = TRUE /\ burning' = burning \ {f}
        /\ fuse' = [fuse EXCEPT ![f] = IF @ = Blank THEN data[f] ELSE Spoiled]
        /\ UNCHANGED <<epc, efuselock, burn, start, protection, data, want, written, late>>
  BY DEF HwBurn
<1>2. f \in Fuses /\ fuse[f] = Blank /\ data[f] \in BurnValues /\ f \in protection
  BY <1>1 DEF EfuseTypes, Burning
<1>3. fuse' = [fuse EXCEPT ![f] = data[f]]
  BY <1>1, <1>2 DEF EfuseTypes
<1>4. fuse'[f] = data[f] /\ \A g \in Fuses \ {f} : fuse'[g] = fuse[g]
  BY <1>2, <1>3 DEF EfuseTypes
<1>5. EfuseTypes'
  BY <1>1, <1>2, <1>3 DEF EfuseTypes
<1>6. Holding'
  BY <1>1 DEF Holding
<1>7. Polling'
  <2> SUFFICES ASSUME NEW q \in Burners, epc[q] = "poll"
               PROVE  LET g == want[q][1] IN
                      /\ burn /\ g \in protection /\ data[g] = want[q][2]
                      /\ g \in burning' \/ fuse'[g] = want[q][2]
                      /\ burning' \subseteq late \cup {g}
                      /\ fuse'[g] = want[q][2] \/ \E h \in late : h # g
    BY <1>1 DEF Polling
  <2> DEFINE g == want[q][1]
  <2>1. /\ g \in Fuses /\ burn /\ g \in protection /\ data[g] = want[q][2]
        /\ g \in burning \/ fuse[g] = want[q][2]
        /\ burning \subseteq late \cup {g}
    BY DEF Polling, EfuseTypes
  <2>2. CASE f = g
    BY <1>1, <1>4, <2>1, <2>2
  <2>3. CASE f # g
    BY <1>1, <1>4, <2>1, <2>3
  <2> QED
    BY <2>2, <2>3
<1>8. Calm'
  BY <1>1 DEF Calm
<1>9. (Burning /\ Secured)'
  BY <1>1, <1>2, <1>4 DEF Burning, Secured, EfuseTypes
<1>10. BurnedOnce'
  <2>1. \A g \in Fuses : fuse'[g] # Spoiled
    BY <1>2, <1>4, ValuesAssumption DEF BurnedOnce
  <2>2. ASSUME NEW w \in written PROVE fuse'[w[1]] = w[2] \/ \E g \in late : g # w[1]
    <3>1. w[1] \in Fuses /\ w[2] \in BurnValues
          /\ (fuse[w[1]] = w[2] \/ \E g \in late : g # w[1])
      BY DEF EfuseTypes, BurnedOnce
    <3>2. fuse[w[1]] = w[2] => w[1] # f
      BY <3>1, <1>2, ValuesAssumption
    <3> QED
      BY <3>1, <3>2, <1>4
  <2> QED
    BY <1>1, <2>1, <2>2 DEF BurnedOnce
<1> QED
  BY <1>5, <1>6, <1>7, <1>8, <1>9, <1>10

\* devefuse.c: however writes, their kills and timeouts and the hardware
\* interleave, no fuse is burned twice, and each write that returned without an
\* error is still what its fuse holds, unless the burn of the other one went on
\* after a timeout.
THEOREM FuseBurnedOnce == EfuseSpec => []BurnedOnce
<1>1. EfuseInv /\ [EfuseNext]_efuseVars => EfuseInv'
  <2> SUFFICES ASSUME EfuseInv, [EfuseNext]_efuseVars PROVE EfuseInv'
    OBVIOUS
  <2>1. CASE UNCHANGED efuseVars
    BY <2>1 DEF efuseVars, EfuseInv, EfuseTypes, Holding, Polling, Calm, Burning, Secured,
                BurnedOnce
  <2> QED
    BY <2>1, EfuseWriteInv, EfuseBurnInv, EfuseEndInv, EfuseLeaveInv, HwBurnInv
       DEF EfuseNext
<1>2. EfuseInv => BurnedOnce
  BY DEF EfuseInv
<1> QED
  BY <1>1, <1>2, EfuseInitInv, PTL DEF EfuseSpec

-----------------------------------------------------------------------------
(* kwnand.c                                                                *)

NandSpec == NandInit /\ [][NandNext]_nandVars

\* The chip is at work on an erase or a write that was sent to it, and the pages
\* that may change are in doubt until a poll says how it ended.
ChipDoubt == chip # NoOp => \A p \in Target(chip) : good[p] = Mixed

\* A page that is not in doubt holds what it must.
PagesHold == \A p \in Pages : good[p] # Mixed => page[p] = good[p]

\* While a command is polled for, the pages hold what they did before it, and once
\* the chip is ready and did not fail, what they must after it.
Polled ==
  npc = "poll" =>
    /\ \A p \in Pages : good[p] = IF p \in Target(op) THEN Mixed ELSE before[p]
    /\ \/ chip = op /\ \A p \in Pages : before[p] # Mixed => page[p] = before[p]
       \/ /\ chip = NoOp
          /\ ~sfail => \A p \in Pages : Holds(op, before)[p] # Mixed =>
                                          page[p] = Holds(op, before)[p]

\* What a read returned is still what its page must hold.
ReadKept ==
  npc = "done" /\ op.kind = "read" /\ nres.r = 0 /\ ~nres.busy =>
    good[op.page] \in {Mixed, nres.v}

\* A call is of one kind, and a read is of a page of the chip.
CallKinds ==
  /\ npc \in {"status", "poll"} => op.kind \in {"erase", "write"}
  /\ npc = "read" => op.kind = "read" /\ op.page \in Pages

NandInv == ChipDoubt /\ PagesHold /\ Polled /\ ReadKept /\ CallKinds

LEMMA NandInitInv == NandInit => NandInv
BY DEF NandInit, NandInv, ChipDoubt, PagesHold, Polled, ReadKept, CallKinds, NoOp, NoRes

\* A call is made, ends, or is answered, with the chip and the pages as they are.
LEMMA NandCallInv ==
  ASSUME NandInv, Op \/ PollBusy \/ Read \/ NandDone
  PROVE  NandInv'
<1> USE DEF NandInv
<1>0. UNCHANGED <<chip, sfail, page, good, before>>
  BY DEF Op, PollBusy, Read, NandDone
<1>1. ChipDoubt' /\ PagesHold'
  BY <1>0 DEF ChipDoubt, PagesHold, Target
<1>2. Polled'
  <2>1. npc' = "poll" => npc = "poll" /\ op' = op
    BY DEF Op, PollBusy, Read, NandDone, Return
  <2> QED
    BY <1>0, <2>1 DEF Polled, Target, Holds
<1>3. CallKinds'
  <2>1. CASE Op
    <3>1. PICK kind \in {"erase", "write", "read"}, off \in Offsets, n \in Sizes :
            /\ \E x \in IF kind = "write" THEN Writes ELSE {Erased} :
                 op' = [kind |-> kind, page |-> PageOf(off), v |-> x]
            /\ IF Aligned(kind, off, n)
               THEN npc' = (IF kind = "read" THEN "read" ELSE "status")
               ELSE npc' = "done"
      BY <2>1 DEF Op, Return
    <3>2. op'.kind = kind /\ op'.page \in Pages
      BY <3>1 DEF Pages
    <3> QED
      BY <1>0, <3>1, <3>2 DEF CallKinds
  <2>2. CASE PollBusy \/ Read \/ NandDone
    BY <1>0, <2>2 DEF PollBusy, Read, NandDone, Return, CallKinds
  <2> QED
    BY <2>1, <2>2
<1>4. ReadKept'
  <2>1. CASE Op
    BY <2>1 DEF Op, Return, ReadKept
  <2>2. CASE PollBusy
    <3>1. op.kind # "read" /\ op' = op
      BY <2>2 DEF PollBusy, CallKinds
    <3> QED
      BY <3>1 DEF ReadKept
  <2>3. CASE NandDone
    BY <2>3 DEF NandDone, ReadKept
  <2>4. CASE Read
    <3>1. op' = op /\ op.page \in Pages /\ good' = good
      BY <2>4, <1>0 DEF Read, CallKinds
    <3>2. CASE chip = NoOp /\ nres'.r = 0
      <4>1. /\ nres'.v = Corrected(op.page)
            /\ Correctable(flips[op.page]) \/ page[op.page] = Mixed
        BY <2>4, <3>2 DEF Read, Return
      <4>2. CASE Correctable(flips[op.page])
        BY <3>1, <4>1, <4>2 DEF Correctable, Corrected, PagesHold, ReadKept
      <4>3. CASE page[op.page] = Mixed
        BY <3>1, <4>3 DEF PagesHold, ReadKept
      <4> QED
        BY <4>1, <4>2, <4>3
    <3>3. CASE nres'.r = -1 \/ nres'.busy
      BY <3>3 DEF ReadKept
    <3> QED
      BY <2>4, <3>2, <3>3 DEF Read, Return
  <2> QED
    BY <2>1, <2>2, <2>3, <2>4
<1> QED
  BY <1>1, <1>2, <1>3, <1>4

\* A command is sent, and its pages are in doubt from then on.
LEMMA StatusInv ==
  ASSUME NandInv, Status
  PROVE  NandInv'
<1> USE DEF NandInv
<1>0. op.kind \in {"erase", "write"} /\ npc = "status" /\ UNCHANGED <<op, page>>
  BY DEF Status, CallKinds
<1>1. CASE chip # NoOp
  <2>1. npc' = "done" /\ UNCHANGED <<chip, sfail, good, before>>
    BY <1>1 DEF Status, Return
  <2> QED
    BY <1>0, <2>1 DEF ChipDoubt, PagesHold, Polled, ReadKept, CallKinds, Target
<1>2. CASE chip = NoOp
  <2>1. chip' = op /\ npc' = "poll" /\ good' = Doubt(op) /\ before' = good
    BY <1>2 DEF Status
  <2>2. \A p \in Pages : good'[p] = IF p \in Target(op) THEN Mixed ELSE good[p]
    BY <2>1 DEF Doubt
  <2>3. Target(op) \subseteq Pages
    BY DEF Target
  <2> HIDE DEF Pages
  <2>4. ChipDoubt' /\ PagesHold'
    BY <1>0, <2>1, <2>2, <2>3 DEF ChipDoubt, PagesHold, Target
  <2>5. Polled'
    BY <1>0, <2>1, <2>2 DEF Polled, PagesHold, Target
  <2>6. ReadKept' /\ CallKinds'
    BY <1>0, <2>1 DEF ReadKept, CallKinds
  <2> QED
    BY <2>4, <2>5, <2>6
<1> QED
  BY <1>1, <1>2

LEMMA PollReadyInv ==
  ASSUME NandInv, PollReady
  PROVE  NandInv'
<1> USE DEF NandInv
<1>0. /\ npc = "poll" /\ chip = NoOp /\ npc' = "done" /\ op.kind # "read"
      /\ UNCHANGED <<op, chip, sfail, page, before>>
  BY DEF PollReady, Return, CallKinds
<1>1. good' = IF sfail THEN good ELSE Holds(op, before)
  BY DEF PollReady
<1>2. op.kind # "none" => op # NoOp
  BY DEF NoOp
<1>3. PagesHold'
  BY <1>0, <1>1, <1>2 DEF PagesHold, Polled, CallKinds
<1> QED
  BY <1>0, <1>3 DEF ChipDoubt, Polled, ReadKept, CallKinds

LEMMA ChipInv ==
  ASSUME NandInv, ChipDone
  PROVE  NandInv'
<1> USE DEF NandInv
<1>0. /\ chip # NoOp /\ chip' = NoOp
      /\ UNCHANGED <<npc, op, nres, good, before>>
  BY DEF ChipDone
<1>1. PICK ok \in BOOLEAN :
        /\ page' = [p \in Pages |->
             IF p \notin Target(chip) THEN page[p]
             ELSE IF ~ok THEN Mixed
             ELSE IF chip.kind = "erase" THEN Erased
             ELSE IF page[p] = Erased \/ page[p] = chip.v THEN chip.v ELSE Mixed]
        /\ sfail' = ~ok
  BY DEF ChipDone
<1>2. ChipDoubt'
  BY <1>0 DEF ChipDoubt
<1>3. PagesHold'
  BY <1>0, <1>1 DEF PagesHold, ChipDoubt
<1>4. Polled'
  <2> SUFFICES ASSUME npc = "poll", ok, NEW p \in Pages, Holds(op, before)[p] # Mixed
               PROVE  page'[p] = Holds(op, before)[p]
    BY <1>0, <1>1 DEF Polled, Target, Holds
  <2>1. chip = op /\ (before[p] # Mixed => page[p] = before[p])
    BY <1>0 DEF Polled
  <2> QED
    BY <1>1, <2>1 DEF Holds, Erased, Mixed
<1>5. ReadKept'
  BY <1>0 DEF ReadKept
<1>6. CallKinds'
  BY <1>0 DEF CallKinds
<1> QED
  BY <1>2, <1>3, <1>4, <1>5, <1>6

\* kwnand.c: whatever calls failed or timed out since, a page written once after
\* an erase holds what was written, and a read that returns 0 returns it.
THEOREM FlashKept == NandSpec => []FlashRight
<1>1. NandInv /\ [NandNext]_nandVars => NandInv'
  <2> SUFFICES ASSUME NandInv, [NandNext]_nandVars PROVE NandInv'
    OBVIOUS
  <2>1. CASE UNCHANGED nandVars
    BY <2>1 DEF nandVars, NandInv, ChipDoubt, PagesHold, Polled, ReadKept, CallKinds, Target,
                Holds
  <2>2. CASE Flip
    BY <2>2 DEF Flip, NandInv, ChipDoubt, PagesHold, Polled, ReadKept, CallKinds, Target,
                Holds
  <2> QED
    BY <2>1, <2>2, NandCallInv, StatusInv, PollReadyInv, ChipInv DEF NandNext
<1>2. NandInv => FlashRight
  BY DEF NandInv, PagesHold, ReadKept, FlashRight
<1> QED
  BY <1>1, <1>2, NandInitInv, PTL DEF NandSpec

-----------------------------------------------------------------------------
(* The AES half of cesa.c                                                  *)

AesSpec == AesInit /\ [][AesNext]_aesVars

\* One value for each process, of whatever kind.
PerUser(f) == f = [q \in Users |-> f[q]]

AesTypes ==
  /\ apc \in [Users -> {"idle", "lock", "blocks"}]
  /\ mode \in [Users -> [enc : BOOLEAN, cbc : BOOLEAN, set : BOOLEAN]]
  /\ cuts \in [Users -> SUBSET Nat] /\ aes_calls \in [Users -> Nat]
  /\ engkey = [e \in BOOLEAN |-> engkey[e]]
  /\ PerUser(ivec) /\ PerUser(a) /\ PerUser(b) /\ PerUser(outs) /\ PerUser(todo)
  /\ \A q \in Users : \E S : outs[q] \in Seq(S)

\* The process that holds aeslock has its key in its engine.
InEngine == \A q \in Users : apc[q] = "blocks" => aeslock = q /\ engkey[mode[q].enc] = q

\* The kind of a stream is set by its first call.
Begun ==
  \A q \in Users :
    /\ ~mode[q].set => aes_calls[q] = 0 /\ apc[q] = "idle" /\ outs[q] = <<>>
    /\ aes_calls[q] = 0 => apc[q] = "idle" /\ ivec[q] = Ivec0(q) /\ ~mode[q].set
    /\ aes_calls[q] = 1 /\ apc[q] = "lock" => ivec[q] = Ivec0(q)
    /\ apc[q] = "lock" => Len(outs[q]) \in cuts[q]

\* What the next block is chained to.
Last(q) == IF outs[q] = <<>> THEN Ivec0(q) ELSE outs[q][Len(outs[q])]

\* Encryption carries the last output over from block to block and from call to
\* call; decryption has the last input while a call runs, and no longer.
Chained ==
  \A q \in Users : mode[q].cbc =>
    /\ mode[q].enc => IF apc[q] = "blocks" THEN a[q] = Last(q) /\ b[q] = Last(q)
                                           ELSE ivec[q] = Last(q)
    /\ ~mode[q].enc /\ apc[q] = "blocks" =>
         LET k == Len(outs[q]) IN
         /\ k # 0 /\ k \notin cuts[q] => a[q] = In(q, k)
         /\ k = 0 /\ aes_calls[q] = 1 => a[q] = Ivec0(q)

AesInv == AesTypes /\ InEngine /\ Begun /\ Chained /\ StreamRight

LEMMA AesInitInv == AesInit => AesInv
<1> SUFFICES ASSUME AesInit PROVE AesInv
  OBVIOUS
<1>1. AesTypes
  <2>1. \A q \in Users : outs[q] \in Seq({})
    BY DEF AesInit
  <2>2. engkey = [e \in BOOLEAN |-> engkey[e]]
    BY DEF AesInit
  <2> QED
    BY <2>1, <2>2 DEF AesInit, AesTypes, PerUser, NoMode
<1>2. InEngine /\ Begun /\ Chained
  BY DEF AesInit, InEngine, Begun, Chained, NoMode
<1>3. StreamRight
  BY DEF AesInit, StreamRight
<1> QED
  BY <1>1, <1>2, <1>3 DEF AesInv

\* A step of q leaves what the other processes have alone, and their key too: q
\* writes a key only with aeslock.
LEMMA AesOthers ==
  ASSUME AesInv, NEW q \in Users, Aes(q) \/ AesKey(q) \/ AesBlock(q) \/ AesDone(q),
         NEW p \in Users, p # q
  PROVE  /\ apc'[p] = apc[p] /\ mode'[p] = mode[p] /\ ivec'[p] = ivec[p] /\ a'[p] = a[p]
         /\ b'[p] = b[p] /\ outs'[p] = outs[p] /\ cuts'[p] = cuts[p]
         /\ aes_calls'[p] = aes_calls[p]
         /\ apc[p] = "blocks" => aeslock' = p /\ engkey'[mode[p].enc] = p
<1> USE DEF AesInv, AesTypes, PerUser
<1>1. CASE Aes(q)
  BY <1>1 DEF Aes, InEngine
<1>2. CASE AesKey(q)
  <2>1. aeslock = NoUser /\ apc[p] # "blocks"
    BY <1>2, UsersAssumption DEF AesKey, InEngine
  <2> QED
    BY <1>2, <2>1 DEF AesKey
<1>3. CASE AesBlock(q)
  BY <1>3 DEF AesBlock, InEngine
<1>4. CASE AesDone(q)
  <2>1. apc[q] = "blocks"
    BY <1>4 DEF AesDone
  <2>2. apc[p] # "blocks"
    BY <2>1 DEF InEngine
  <2> QED
    BY <1>4, <2>2 DEF AesDone
<1> QED
  BY <1>1, <1>2, <1>3, <1>4

\* What the invariant says of one process.
UserInv(q) ==
  /\ apc[q] = "blocks" => aeslock = q /\ engkey[mode[q].enc] = q
  /\ ~mode[q].set => aes_calls[q] = 0 /\ apc[q] = "idle" /\ outs[q] = <<>>
  /\ aes_calls[q] = 0 => apc[q] = "idle" /\ ivec[q] = Ivec0(q) /\ ~mode[q].set
  /\ aes_calls[q] = 1 /\ apc[q] = "lock" => ivec[q] = Ivec0(q)
  /\ apc[q] = "lock" => Len(outs[q]) \in cuts[q]
  /\ mode[q].cbc =>
       /\ mode[q].enc => IF apc[q] = "blocks" THEN a[q] = Last(q) /\ b[q] = Last(q)
                                              ELSE ivec[q] = Last(q)
       /\ ~mode[q].enc /\ apc[q] = "blocks" =>
            /\ Len(outs[q]) # 0 /\ Len(outs[q]) \notin cuts[q] => a[q] = In(q, Len(outs[q]))
            /\ Len(outs[q]) = 0 /\ aes_calls[q] = 1 => a[q] = Ivec0(q)
  /\ \A i \in DOMAIN outs[q] :
       \/ outs[q][i] = Output(q, i)
       \/ mode[q].cbc /\ ~mode[q].enc /\ i - 1 \in cuts[q] /\ i > 1
       \/ mode[q].cbc /\ ~mode[q].enc /\ i = 1 /\ aes_calls[q] > 1

LEMMA ByUser == AesInv <=> AesTypes /\ \A q \in Users : UserInv(q)
BY DEF AesInv, InEngine, Begun, Chained, StreamRight, UserInv

LEMMA ByUserNext == AesInv' <=> AesTypes' /\ \A q \in Users : UserInv(q)'
BY DEF AesInv, InEngine, Begun, Chained, StreamRight, UserInv

LEMMA OthersInv ==
  ASSUME AesInv, NEW q \in Users, Aes(q) \/ AesKey(q) \/ AesBlock(q) \/ AesDone(q),
         AesTypes', UserInv(q)'
  PROVE  AesInv'
<1> SUFFICES ASSUME NEW p \in Users, p # q PROVE UserInv(p)'
  BY ByUserNext
<1>1. UserInv(p)
  BY ByUser
<1> QED
  BY <1>1, AesOthers DEF UserInv, Output, Last

LEMMA AesCallInv ==
  ASSUME AesInv, NEW q \in Users, Aes(q)
  PROVE  AesInv'
<1>t. AesTypes /\ UserInv(q)
  BY ByUser
<1>1. PICK n \in Counts, enc \in BOOLEAN, cbc \in BOOLEAN :
        /\ mode[q].set => mode[q].enc = enc /\ mode[q].cbc = cbc
        /\ mode' = [mode EXCEPT ![q] = [enc |-> enc, cbc |-> cbc, set |-> TRUE]]
        /\ todo' = [todo EXCEPT ![q] = n]
  BY DEF Aes
<1>2. /\ apc[q] = "idle" /\ apc'[q] = "lock" /\ apc' = [apc EXCEPT ![q] = "lock"]
      /\ cuts'[q] = cuts[q] \cup {Len(outs[q])}
      /\ cuts' = [cuts EXCEPT ![q] = @ \cup {Len(outs[q])}]
      /\ aes_calls' = [aes_calls EXCEPT ![q] = @ + 1] /\ aes_calls'[q] = aes_calls[q] + 1
      /\ aes_calls[q] \in Nat
      /\ UNCHANGED <<ivec, a, b, outs, aeslock, engkey>>
  BY <1>t DEF Aes, AesTypes
<1>3. Len(outs[q]) \in Nat
  BY <1>t DEF AesTypes
<1>4. AesTypes'
  <2>1. /\ mode' \in [Users -> [enc : BOOLEAN, cbc : BOOLEAN, set : BOOLEAN]]
        /\ PerUser(todo)'
    BY <1>t, <1>1 DEF AesTypes, PerUser
  <2>2. cuts' \in [Users -> SUBSET Nat]
    BY <1>t, <1>2, <1>3 DEF AesTypes
  <2>3. apc' \in [Users -> {"idle", "lock", "blocks"}] /\ aes_calls' \in [Users -> Nat]
    BY <1>t, <1>2 DEF AesTypes
  <2> QED
    BY <1>t, <1>2, <2>1, <2>2, <2>3 DEF AesTypes, PerUser
<1>5. /\ mode'[q].enc = enc /\ mode'[q].cbc = cbc /\ mode'[q].set
      /\ mode[q].set => mode'[q].enc = mode[q].enc /\ mode'[q].cbc = mode[q].cbc
      /\ ~mode[q].set => outs[q] = <<>> /\ ivec[q] = Ivec0(q)
  BY <1>t, <1>1 DEF AesTypes, UserInv
<1>6. UserInv(q)'
  <2>1. mode'[q].cbc /\ mode'[q].enc => ivec[q] = Last(q)
    BY <1>t, <1>2, <1>5 DEF UserInv, Last
  <2>2. \A i \in DOMAIN outs[q] :
          \/ outs[q][i] = Output(q, i)'
          \/ mode'[q].cbc /\ ~mode'[q].enc /\ i - 1 \in cuts'[q] /\ i > 1
          \/ mode'[q].cbc /\ ~mode'[q].enc /\ i = 1 /\ aes_calls'[q] > 1
    <3>1. CASE mode[q].set
      BY <1>t, <1>2, <1>5, <3>1 DEF UserInv, Output
    <3>2. CASE ~mode[q].set
      BY <1>5, <3>2
    <3> QED
      BY <3>1, <3>2
  <2> QED
    BY <1>t, <1>2, <1>5, <2>1, <2>2 DEF UserInv, Last
<1> QED
  BY <1>4, <1>6, OthersInv

LEMMA AesKeyInv ==
  ASSUME AesInv, NEW q \in Users, AesKey(q)
  PROVE  AesInv'
<1>t. AesTypes /\ UserInv(q)
  BY ByUser
<1>1. /\ apc[q] = "lock" /\ apc' = [apc EXCEPT ![q] = "blocks"] /\ aeslock' = q
      /\ engkey' = [engkey EXCEPT ![mode[q].enc] = q]
      /\ a' = [a EXCEPT ![q] = ivec[q]]
      /\ b' = [b EXCEPT ![q] = IF mode[q].enc THEN ivec[q] ELSE Garbage]
      /\ UNCHANGED <<mode, ivec, todo, outs, cuts, aes_calls>>
  BY DEF AesKey
<1>2. AesTypes'
  BY <1>t, <1>1 DEF AesTypes, PerUser
<1>3. /\ apc'[q] = "blocks" /\ a'[q] = ivec[q] /\ (mode[q].enc => b'[q] = ivec[q])
      /\ engkey'[mode[q].enc] = q
  BY <1>t, <1>1 DEF AesTypes, PerUser
<1>4. UserInv(q)'
  BY <1>t, <1>1, <1>3 DEF UserInv, Last, Output
<1> QED
  BY <1>2, <1>4, OthersInv

LEMMA AesDoneInv ==
  ASSUME AesInv, NEW q \in Users, AesDone(q)
  PROVE  AesInv'
<1>t. AesTypes /\ UserInv(q)
  BY ByUser
<1>1. /\ apc[q] = "blocks" /\ apc' = [apc EXCEPT ![q] = "idle"]
      /\ ivec' = [ivec EXCEPT ![q] = IF mode[q].cbc THEN b[q] ELSE @]
      /\ a' = [a EXCEPT ![q] = {}] /\ b' = [b EXCEPT ![q] = {}]
      /\ UNCHANGED <<mode, todo, outs, cuts, aes_calls, engkey>>
  BY DEF AesDone
<1>2. AesTypes'
  BY <1>t, <1>1 DEF AesTypes, PerUser
<1>3. apc'[q] = "idle" /\ ivec'[q] = IF mode[q].cbc THEN b[q] ELSE ivec[q]
  BY <1>t, <1>1 DEF AesTypes, PerUser
<1>4. UserInv(q)'
  BY <1>t, <1>1, <1>3 DEF UserInv, Last, Output
<1> QED
  BY <1>2, <1>4, OthersInv

LEMMA AesBlockInv ==
  ASSUME AesInv, NEW q \in Users, AesBlock(q)
  PROVE  AesInv'
<1> DEFINE enc == mode[q].enc
           cbc == mode[q].cbc
           k == Len(outs[q])
           x == In(q, k + 1)
           y == IF enc /\ cbc THEN Cipher(enc, engkey[enc], XorBlock(x, a[q]))
                              ELSE Cipher(enc, engkey[enc], x)
           z == IF cbc /\ ~enc THEN XorBlock(a[q], y) ELSE y
<1>t. AesTypes /\ UserInv(q)
  BY ByUser
<1>1. /\ apc[q] = "blocks" /\ outs' = [outs EXCEPT ![q] = Append(@, z)]
      /\ todo' = [todo EXCEPT ![q] = @ - 1]
      /\ a' = [a EXCEPT ![q] = IF enc THEN y ELSE x]
      /\ b' = [b EXCEPT ![q] = IF enc THEN y ELSE a[q]]
      /\ UNCHANGED <<apc, mode, ivec, cuts, aes_calls, aeslock, engkey>>
  BY DEF AesBlock
<1>2. PICK S : outs[q] \in Seq(S)
  BY <1>t DEF AesTypes
<1>3. /\ k \in Nat /\ Append(outs[q], z) \in Seq(S \cup {z})
      /\ Len(Append(outs[q], z)) = k + 1
      /\ Append(outs[q], z)[k + 1] = z
      /\ \A i \in 1 .. k : Append(outs[q], z)[i] = outs[q][i]
      /\ DOMAIN outs[q] = 1 .. k /\ DOMAIN Append(outs[q], z) = 1 .. (k + 1)
      /\ Append(outs[q], z) # <<>>
  <2> HIDE DEF z
  <2>1. outs[q] \in Seq(S \cup {z})
    BY <1>2
  <2> QED
    BY <2>1
<1>4. /\ outs'[q] = Append(outs[q], z) /\ a'[q] = (IF enc THEN y ELSE x)
      /\ b'[q] = (IF enc THEN y ELSE a[q]) /\ engkey[enc] = q
  BY <1>t, <1>1 DEF AesTypes, PerUser, UserInv
<1>5. AesTypes'
  <2> HIDE DEF x, y, z
  <2>1. \A p \in Users : p # q => outs'[p] = outs[p]
    BY <1>t, <1>1 DEF AesTypes, PerUser
  <2>2. \A p \in Users : \E T : outs'[p] \in Seq(T)
    BY <1>t, <1>3, <1>4, <2>1 DEF AesTypes
  <2>3. PerUser(outs)' /\ PerUser(todo)' /\ PerUser(a)' /\ PerUser(b)'
    BY <1>t, <1>1 DEF AesTypes, PerUser
  <2> QED
    BY <1>t, <1>1, <2>2, <2>3 DEF AesTypes, PerUser
<1>6. \A i \in 1 .. k : Output(q, i)' = Output(q, i)
  <2> HIDE DEF z
  <2> QED
    BY <1>1, <1>3, <1>4 DEF Output
<1>7. \A i \in DOMAIN outs'[q] :
        \/ outs'[q][i] = Output(q, i)'
        \/ mode[q].cbc /\ ~mode[q].enc /\ i - 1 \in cuts[q] /\ i > 1
        \/ mode[q].cbc /\ ~mode[q].enc /\ i = 1 /\ aes_calls[q] > 1
  <2> SUFFICES ASSUME NEW i \in 1 .. (k + 1)
               PROVE  \/ outs'[q][i] = Output(q, i)'
                      \/ cbc /\ ~enc /\ i - 1 \in cuts[q] /\ i > 1
                      \/ cbc /\ ~enc /\ i = 1 /\ aes_calls[q] > 1
    BY <1>3, <1>4
  <2>1. CASE i \in 1 .. k
    <3> HIDE DEF z
    <3> QED
      BY <1>t, <1>3, <1>4, <1>6, <2>1 DEF UserInv
  <2>2. CASE i = k + 1
    <3>1. outs'[q][i] = z
      BY <1>3, <1>4, <2>2
    <3>2. k # 0 => outs'[q][i - 1] = outs[q][k]
      BY <1>3, <1>4, <2>2
    <3>3. k # 0 <=> outs[q] # <<>>
      BY <1>2
    <3>4. CASE ~cbc
      BY <1>1, <1>4, <3>1, <3>4, <2>2 DEF Output
    <3>5. CASE cbc /\ enc
      <4>1. a[q] = IF k = 0 THEN Ivec0(q) ELSE outs[q][k]
        BY <1>t, <1>1, <3>3, <3>5 DEF UserInv, Last
      <4>e. enc = TRUE /\ cbc = TRUE /\ mode'[q].enc = TRUE /\ mode'[q].cbc = TRUE
        BY <1>t, <1>1, <3>5 DEF AesTypes
      <4>2. Output(q, i)' = Cipher(enc, q, XorBlock(In(q, i),
                              IF i = 1 THEN Ivec0(q) ELSE outs'[q][i - 1]))
        BY <4>e DEF Output
      <4>3. (IF i = 1 THEN Ivec0(q) ELSE outs'[q][i - 1]) = a[q]
        BY <1>3, <2>2, <3>2, <4>1
      <4>4. z = Cipher(enc, q, XorBlock(In(q, i), a[q]))
        BY <1>4, <2>2, <3>5
      <4> QED
        BY <3>1, <4>2, <4>3, <4>4
    <3>6. CASE cbc /\ ~enc
      <4>1. k # 0 /\ k \notin cuts[q] => a[q] = In(q, k)
        BY <1>t, <1>1, <3>6 DEF UserInv
      <4>2. k = 0 /\ aes_calls[q] = 1 => a[q] = Ivec0(q)
        BY <1>t, <1>1, <3>6 DEF UserInv
      <4>3. aes_calls[q] \in Nat \ {0}
        BY <1>t, <1>1 DEF UserInv, AesTypes
      <4>4. \A u, v : XorBlock(u, v) = XorBlock(v, u)
        BY DEF XorBlock
      <4> QED
        BY <1>1, <1>3, <1>4, <3>1, <3>6, <2>2, <4>1, <4>2, <4>3, <4>4 DEF Output
    <3> QED
      BY <3>4, <3>5, <3>6
  <2> QED
    BY <1>3, <2>1, <2>2
<1>8. UserInv(q)'
  <2>1. /\ Len(outs'[q]) = k + 1 /\ outs'[q] # <<>> /\ outs'[q][k + 1] = z
        /\ a'[q] = (IF enc THEN y ELSE x) /\ b'[q] = (IF enc THEN y ELSE a[q])
        /\ enc => z = y
    BY <1>3, <1>4
  <2>2. apc[q] = "blocks" /\ UNCHANGED <<apc, mode, ivec, cuts, aes_calls, aeslock, engkey>>
    BY <1>1
  <2> HIDE DEF x, y, z
  <2>3. enc => a'[q] = Last(q)' /\ b'[q] = Last(q)'
    BY <2>1 DEF Last
  <2>4. ~enc => a'[q] = In(q, k + 1)
    BY <2>1 DEF x
  <2>5. mode[q].set /\ aes_calls[q] # 0
    BY <1>t, <2>2 DEF UserInv
  <2> QED
    BY <1>t, <1>3, <1>7, <2>1, <2>2, <2>3, <2>4, <2>5 DEF UserInv
<1> QED
  BY <1>5, <1>8, OthersInv

\* cesa.c: cutting a stream into calls changes nothing but the one block after a
\* CBC decryption, whatever other processes do with the engines in between.
THEOREM StreamsRight == AesSpec => []StreamRight
<1>1. AesInv /\ [AesNext]_aesVars => AesInv'
  <2> SUFFICES ASSUME AesInv, [AesNext]_aesVars PROVE AesInv'
    OBVIOUS
  <2>1. CASE UNCHANGED aesVars
    <3>1. AesTypes' /\ \A q \in Users : UserInv(q)'
      BY <2>1, ByUser DEF aesVars, AesTypes, PerUser, UserInv, Last, Output
    <3> QED
      BY <3>1, ByUserNext
  <2> QED
    BY <2>1, AesCallInv, AesKeyInv, AesBlockInv, AesDoneInv DEF AesNext
<1>2. AesInv => StreamRight
  BY DEF AesInv
<1> QED
  BY <1>1, <1>2, AesInitInv, PTL DEF AesSpec

-----------------------------------------------------------------------------
(* cesa.c, the hash engine                                                 *)

\* The bytes of a stream.
Byte == Int

LEMMA BytesSeq ==
  ASSUME NEW f \in Int, NEW n \in Int
  PROVE  /\ Bytes(f, n) \in Seq(Byte)
         /\ n <= 0 => Bytes(f, n) = <<>>
         /\ n >= 0 => Len(Bytes(f, n)) = n /\ \A i \in 1 .. n : Bytes(f, n)[i] = f + i
<1>1. CASE n \in Nat
  <2>1. DOMAIN Bytes(f, n) = 1 .. n /\ (\A i \in 1 .. n : Bytes(f, n)[i] = f + i)
        /\ Bytes(f, n) \in [1 .. n -> Byte]
    BY DEF Bytes, Byte
  <2>2. Bytes(f, n) \in Seq(Byte)
    BY <1>1, <2>1, SeqDef
  <2>3. Len(Bytes(f, n)) = n
    BY <1>1, <2>1, <2>2
  <2>4. n <= 0 => Bytes(f, n) = <<>>
    BY <1>1, <2>2, <2>3
  <2> QED
    BY <2>1, <2>2, <2>3, <2>4
<1>2. CASE n < 0
  <2>1. 1 .. n = 1 .. 0
    BY <1>2
  <2>2. Bytes(f, n) = Bytes(f, 0)
    BY <2>1 DEF Bytes
  <2>3. Bytes(f, 0) = <<>> /\ <<>> \in Seq(Byte)
    BY DEF Bytes
  <2>4. ~(n >= 0)
    BY <1>2
  <2> QED
    BY <2>2, <2>3, <2>4, Zenon
<1> QED
  BY <1>1, <1>2

LEMMA BytesNone == \A f \in Int : Bytes(f, 0) = <<>>
<1>1. 0 \in Int /\ 0 <= 0
  OBVIOUS
<1> QED
  BY <1>1, BytesSeq

\* Two stretches of a stream, one after the other.
LEMMA BytesJoin ==
  ASSUME NEW f \in Int, NEW m \in Nat, NEW n \in Nat
  PROVE  Bytes(f, m) \o Bytes(f + m, n) = Bytes(f, m + n)
<1> DEFINE s == Bytes(f, m)
           t == Bytes(f + m, n)
           u == Bytes(f, m + n)
<1>1. /\ s \in Seq(Byte) /\ Len(s) = m /\ \A i \in 1 .. m : s[i] = f + i
      /\ t \in Seq(Byte) /\ Len(t) = n /\ \A i \in 1 .. n : t[i] = f + m + i
      /\ u \in Seq(Byte) /\ Len(u) = m + n /\ \A i \in 1 .. (m + n) : u[i] = f + i
  <2>1. /\ f + m \in Int /\ m \in Int /\ n \in Int /\ m + n \in Int
        /\ m >= 0 /\ n >= 0 /\ m + n >= 0
    OBVIOUS
  <2> QED
    BY <2>1, BytesSeq
<1> HIDE DEF s, t, u
<1>2. /\ s \o t \in Seq(Byte) /\ Len(s \o t) = m + n
      /\ \A i \in 1 .. (m + n) : (s \o t)[i] = IF i <= m THEN s[i] ELSE t[i - m]
  BY <1>1, ConcatProperties
<1>3. ASSUME NEW i \in 1 .. (m + n) PROVE (s \o t)[i] = u[i]
  <2>1. CASE i <= m
    BY <1>1, <1>2, <2>1
  <2>2. CASE i > m
    <3>1. i - m \in 1 .. n /\ f + m + (i - m) = f + i
      BY <2>2
    <3>2. (s \o t)[i] = t[i - m]
      BY <1>2, <2>2
    <3> QED
      BY <1>1, <3>1, <3>2
  <2>3. i <= m \/ i > m
    OBVIOUS
  <2> QED
    BY <2>1, <2>2, <2>3, Zenon
<1>4. s \o t = u
  BY <1>1, <1>2, <1>3, SeqEqual
<1> QED
  BY <1>4 DEF s, t, u

LEMMA BytesCut ==
  ASSUME NEW f \in Int, NEW m \in Nat, NEW n \in Nat, m <= n
  PROVE  /\ SubSeq(Bytes(f, n), 1, m) = Bytes(f, m)
         /\ SubSeq(Bytes(f, n), m + 1, n) = Bytes(f + m, n - m)
<1> DEFINE s == Bytes(f, n)
<1>1. /\ s \in Seq(Byte) /\ Len(s) = n /\ \A i \in 1 .. n : s[i] = f + i
  BY BytesSeq
<1> HIDE DEF s
<1>2. /\ SubSeq(s, 1, m) \in Seq(Byte) /\ Len(SubSeq(s, 1, m)) = m
      /\ \A i \in 1 .. m : SubSeq(s, 1, m)[i] = s[i]
  BY <1>1
<1>3. /\ SubSeq(s, m + 1, n) \in Seq(Byte) /\ Len(SubSeq(s, m + 1, n)) = n - m
      /\ \A i \in 1 .. (n - m) : SubSeq(s, m + 1, n)[i] = s[m + i]
  BY <1>1
<1>4. /\ Bytes(f, m) \in Seq(Byte) /\ Len(Bytes(f, m)) = m
      /\ \A i \in 1 .. m : Bytes(f, m)[i] = f + i
  BY BytesSeq
<1>5. /\ Bytes(f + m, n - m) \in Seq(Byte) /\ Len(Bytes(f + m, n - m)) = n - m
      /\ \A i \in 1 .. (n - m) : Bytes(f + m, n - m)[i] = f + m + i
  <2>1. f + m \in Int /\ n - m \in Int /\ n - m >= 0
    OBVIOUS
  <2> QED
    BY <2>1, BytesSeq
<1>6. SubSeq(s, 1, m) = Bytes(f, m)
  <2>1. \A i \in 1 .. m : SubSeq(s, 1, m)[i] = Bytes(f, m)[i]
    BY <1>1, <1>2, <1>4
  <2> QED
    BY <1>2, <1>4, <2>1, SeqEqual
<1>7. SubSeq(s, m + 1, n) = Bytes(f + m, n - m)
  <2>1. ASSUME NEW i \in 1 .. (n - m)
        PROVE  SubSeq(s, m + 1, n)[i] = Bytes(f + m, n - m)[i]
    <3>1. m + i \in 1 .. n /\ f + (m + i) = f + m + i
      OBVIOUS
    <3> QED
      BY <1>1, <1>3, <1>5, <3>1
  <2> QED
    BY <1>3, <1>5, <2>1, SeqEqual
<1> QED
  BY <1>6, <1>7 DEF s

LEMMA RepeatSeq ==
  ASSUME NEW x \in Byte, NEW n \in Nat
  PROVE  /\ Repeat(x, n) \in Seq(Byte) /\ Len(Repeat(x, n)) = n
         /\ \A i \in 1 .. n : Repeat(x, n)[i] = x
<1>1. DOMAIN Repeat(x, n) = 1 .. n /\ (\A i \in 1 .. n : Repeat(x, n)[i] = x)
      /\ Repeat(x, n) \in [1 .. n -> Byte]
  BY DEF Repeat
<1>2. Repeat(x, n) \in Seq(Byte)
  BY <1>1, SeqDef
<1> QED
  BY <1>1, <1>2

LEMMA RepeatJoin ==
  ASSUME NEW x \in Byte, NEW m \in Nat, NEW n \in Nat
  PROVE  Repeat(x, m) \o Repeat(x, n) = Repeat(x, m + n)
<1> DEFINE s == Repeat(x, m)
           t == Repeat(x, n)
           u == Repeat(x, m + n)
<1>1. /\ s \in Seq(Byte) /\ Len(s) = m /\ \A i \in 1 .. m : s[i] = x
      /\ t \in Seq(Byte) /\ Len(t) = n /\ \A i \in 1 .. n : t[i] = x
      /\ u \in Seq(Byte) /\ Len(u) = m + n /\ \A i \in 1 .. (m + n) : u[i] = x
  <2>1. m + n \in Nat
    OBVIOUS
  <2> QED
    BY <2>1, RepeatSeq
<1> HIDE DEF s, t, u
<1>2. /\ s \o t \in Seq(Byte) /\ Len(s \o t) = m + n
      /\ \A i \in 1 .. (m + n) : (s \o t)[i] = IF i <= m THEN s[i] ELSE t[i - m]
  BY <1>1, ConcatProperties
<1>3. ASSUME NEW i \in 1 .. (m + n) PROVE (s \o t)[i] = u[i]
  <2>1. i > m => i - m \in 1 .. n
    OBVIOUS
  <2> QED
    BY <1>1, <1>2, <2>1
<1>4. s \o t = u
  BY <1>1, <1>2, <1>3, SeqEqual
<1> QED
  BY <1>4 DEF s, t, u

LEMMA BitCountSeq == ASSUME NEW q PROVE BitCount(q) \in Seq(Byte)
<1>1. /\ Repeat(Hi, 4) \in Seq(Byte) /\ Repeat(Lo, 4) \in Seq(Byte)
  <2>1. Hi \in Byte /\ Lo \in Byte
    BY DEF Hi, Lo, Byte
  <2> QED
    BY <2>1, RepeatSeq
<1>2. Repeat(Hi, 4) \o Repeat(Lo, 4) \in Seq(Byte) /\ Repeat(Lo, 4) \o Repeat(Hi, 4) \in Seq(Byte)
  BY <1>1, ConcatProperties
<1> QED
  BY <1>2 DEF BitCount

LEMMA ConcatBytes == \A s, t, u \in Seq(Byte) : (s \o t) \o u = s \o (t \o u)
BY ConcatAssociative

\* Zeros after zeros.
LEMMA ZerosJoin ==
  \A s \in Seq(Byte) : \A m, n, k \in Nat :
    k = m + n => (s \o Repeat(0, m)) \o Repeat(0, n) = s \o Repeat(0, k)
<1> SUFFICES ASSUME NEW s \in Seq(Byte), NEW m \in Nat, NEW n \in Nat, NEW k \in Nat, k = m + n
             PROVE  (s \o Repeat(0, m)) \o Repeat(0, n) = s \o Repeat(0, k)
  OBVIOUS
<1> DEFINE y == Repeat(0, m)
           z == Repeat(0, n)
<1>1. 0 \in Byte
  BY DEF Byte
<1>2. y \in Seq(Byte) /\ z \in Seq(Byte)
  BY <1>1, RepeatSeq
<1>3. y \o z = Repeat(0, k)
  BY <1>1, RepeatJoin
<1> HIDE DEF y, z
<1>4. (s \o y) \o z = s \o (y \o z)
  BY <1>2, ConcatBytes, Zenon
<1> QED
  BY <1>3, <1>4 DEF y, z

\* hashfinish pads what is left of a stream as the stream is to be padded.
LEMMA Finished ==
  ASSUME NEW q, NEW h \in Nat, NEW r \in 0 .. 63, h % 64 = 0
  PROVE  /\ FinalBlocks(q, Bytes(h, r)) \in Seq(Byte)
         /\ Bytes(0, h) \o FinalBlocks(q, Bytes(h, r)) = Padded(q, h + r)
<1> DEFINE fin == Bytes(h, r)
           one == <<Pad1>>
           count == BitCount(q)
           pad == 3 - (r % 4)
           all == (119 - r) % 64
<1>1. /\ fin \in Seq(Byte) /\ Len(fin) = r
  <2>1. h \in Int /\ r \in Int /\ r >= 0
    OBVIOUS
  <2> QED
    BY <2>1, BytesSeq
<1>2. one \in Seq(Byte) /\ Len(one) = 1
  BY DEF Pad1, Byte
<1>3. count \in Seq(Byte)
  BY BitCountSeq
<1>4. pad \in 0 .. 3 /\ all \in Nat
  OBVIOUS
<1>5. /\ r > 55 /\ r <= 59 => pad + 4 + 56 = all
      /\ r > 59 => pad + 56 = all
      /\ r <= 55 => r + 1 + pad <= 56 /\ pad + (56 - (r + 1 + pad)) = all
  OBVIOUS
<1>6. (119 - ((h + r) % 64)) % 64 = all
  <2>1. (h + r) % 64 = r
    OBVIOUS
  <2> QED
    BY <2>1
<1>7. 0 \in Byte /\ 0 \in Int /\ h \in Int
  BY DEF Byte
<1> HIDE DEF fin, one, count, pad, all
<1> DEFINE A == fin \o one
<1>8. A \in Seq(Byte) /\ Len(A) = r + 1
  <2>1. A \in Seq(Byte) /\ Len(A) = Len(fin) + Len(one)
    BY <1>1, <1>2, ConcatProperties
  <2> QED
    BY <1>1, <1>2, <2>1
<1> HIDE DEF A
<1> DEFINE Z(n) == Repeat(0, n)
<1>9. \A m \in Nat : Z(m) \in Seq(Byte) /\ Len(Z(m)) = m
  BY <1>7, RepeatSeq
<1> DEFINE Cat(n) == A \o Repeat(0, n)
           Nats == Nat
<1>10. \A m, n, k \in Nats : k = m + n => Cat(m) \o Z(n) = Cat(k)
  BY <1>8, ZerosJoin, Zenon
<1> DEFINE words == A \o Z(pad)
<1>w. words \in Seq(Byte) /\ Len(words) = r + 1 + pad
  <2>1. Z(pad) \in Seq(Byte) /\ Len(Z(pad)) = pad
    BY <1>4, <1>9
  <2> HIDE DEF Z
  <2>2. words \in Seq(Byte) /\ Len(words) = Len(A) + Len(Z(pad))
    BY <1>8, <2>1, ConcatProperties
  <2> QED
    BY <1>8, <2>1, <2>2
<1>11. FinalBlocks(q, fin) = (A \o Z(all)) \o count
  <2>1. FinalBlocks(q, fin) =
          IF r + 1 > 56
          THEN ((words \o (IF r + 1 <= 60 THEN Z(4) ELSE <<>>)) \o Z(56)) \o count
          ELSE (words \o Z(56 - Len(words))) \o count
    BY <1>1 DEF FinalBlocks, A, one, pad, count
  <2> DEFINE four == 4
             most == 56
  <2>2. four \in Nats /\ most \in Nats /\ pad \in Nats /\ all \in Nats
    BY <1>4
  <2>3. CASE r > 55 /\ r <= 59
    <3> DEFINE k == pad + four
    <3>1. k \in Nats /\ all = k + most /\ k = pad + four
      BY <1>4, <1>5, <2>3
    <3>2. r + 1 > 56 /\ r + 1 <= 60
      BY <2>3
    <3>3. FinalBlocks(q, fin) = ((words \o Z(four)) \o Z(most)) \o count
      BY <2>1, <3>2
    <3>4. words = Cat(pad)
      OBVIOUS
    <3> HIDE DEF words, Cat, Z, Nats, k, four, most
    <3>5. words \o Z(four) = Cat(k)
      BY <2>2, <3>1, <3>4, <1>10
    <3>6. Cat(k) \o Z(most) = Cat(all)
      BY <2>2, <3>1, <1>10
    <3>7. FinalBlocks(q, fin) = Cat(all) \o count
      BY <3>3, <3>5, <3>6
    <3> QED
      BY <3>7 DEF Cat, Z
  <2>4. CASE r > 59
    <3>1. words \o <<>> = words
      BY <1>w, ConcatEmptySeq
    <3>2. all = pad + most
      BY <1>5, <2>4
    <3>3. r + 1 > 56 /\ ~(r + 1 <= 60)
      BY <2>4
    <3> DEFINE none == <<>>
    <3>4. FinalBlocks(q, fin) = ((words \o none) \o Z(most)) \o count
      BY <2>1, <3>3
    <3>5. words = Cat(pad) /\ words \o none = words
      BY <3>1
    <3> HIDE DEF words, Cat, Z, Nats, most, none
    <3>6. words \o Z(most) = Cat(all)
      BY <2>2, <3>2, <3>5, <1>10
    <3>7. FinalBlocks(q, fin) = Cat(all) \o count
      BY <3>4, <3>5, <3>6
    <3> QED
      BY <3>7 DEF Cat, Z
  <2>5. CASE r <= 55
    <3> DEFINE k == most - Len(words)
    <3>1. k \in Nats /\ all = pad + k
      BY <1>4, <1>5, <1>w, <2>5
    <3>2. ~(r + 1 > 56)
      BY <2>5
    <3>3. FinalBlocks(q, fin) = (words \o Z(k)) \o count
      BY <2>1, <3>2
    <3>4. words = Cat(pad)
      OBVIOUS
    <3> HIDE DEF words, Cat, Z, Nats, k
    <3>5. words \o Z(k) = Cat(all)
      BY <2>2, <3>1, <3>4, <1>10
    <3>6. FinalBlocks(q, fin) = Cat(all) \o count
      BY <3>3, <3>5
    <3> QED
      BY <3>6 DEF Cat, Z
  <2>6. (r > 55 /\ r <= 59) \/ r > 59 \/ r <= 55
    OBVIOUS
  <2> QED
    BY <2>3, <2>4, <2>5, <2>6, Zenon
<1> DEFINE z == Z(all)
           past == Bytes(0, h)
<1>12. past \in Seq(Byte) /\ z \in Seq(Byte)
  <2>1. h >= 0
    OBVIOUS
  <2>2. past \in Seq(Byte)
    BY <1>7, <2>1, BytesSeq
  <2>3. z \in Seq(Byte)
    BY <1>4, <1>9
  <2> QED
    BY <2>2, <2>3
<1>13. Padded(q, h + r) = ((Bytes(0, h + r) \o one) \o z) \o count
  BY <1>6 DEF Padded, one, count
<1>14. past \o fin = Bytes(0, h + r)
  <2>1. 0 + h = h /\ 0 \in Int /\ h \in Nat /\ r \in Nat
    OBVIOUS
  <2>2. Bytes(0, h) \o Bytes(0 + h, r) = Bytes(0, h + r)
    BY <2>1, BytesJoin
  <2> QED
    BY <2>1, <2>2 DEF fin
<1> HIDE DEF z, past
<1> DEFINE Az == A \o z
<1>15. Az \in Seq(Byte) /\ Az \o count \in Seq(Byte)
  <2>1. Az \in Seq(Byte)
    BY <1>8, <1>12, ConcatProperties
  <2> HIDE DEF Az
  <2> QED
    BY <1>3, <2>1, ConcatProperties
<1>16. past \o (Az \o count) = (past \o Az) \o count
  <2> HIDE DEF Az
  <2> QED
    BY <1>3, <1>12, <1>15, ConcatBytes, Zenon
<1>17. past \o (A \o z) = (past \o A) \o z
  BY <1>8, <1>12, ConcatBytes, Zenon
<1>18. past \o A = (past \o fin) \o one
  <2>1. past \o (fin \o one) = (past \o fin) \o one
    BY <1>1, <1>2, <1>12, ConcatBytes, Zenon
  <2> QED
    BY <2>1 DEF A
<1>19. Bytes(0, h) \o FinalBlocks(q, fin) = Padded(q, h + r)
  <2>1. FinalBlocks(q, fin) = Az \o count
    BY <1>11 DEF z
  <2>2. past \o (Az \o count) = (((past \o fin) \o one) \o z) \o count
    BY <1>16, <1>17, <1>18
  <2> HIDE DEF Az
  <2> QED
    BY <1>13, <1>14, <2>1, <2>2 DEF past
<1> QED
  BY <1>11, <1>15, <1>19 DEF fin, z

HashSpec == HashInit /\ [][HashNext]_hashVars

Whole(s) == s = [len |-> s.len, buf |-> s.buf, seeded |-> s.seeded, state |-> s.state]
WholeJob(j) ==
  j = [blocks |-> j.blocks, cont |-> j.cont, fin |-> j.fin, dig |-> j.dig, keep |-> j.keep]

Typed(s, j, past) ==
  /\ Whole(s) /\ s.len \in Nat /\ s.seeded \in BOOLEAN
  /\ WholeJob(j) /\ j.cont \in BOOLEAN /\ j.dig \in BOOLEAN
  /\ past \in BOOLEAN

HashTypes ==
  /\ DOMAIN hpc = Hashers /\ DOMAIN ds = Hashers /\ DOMAIN job = Hashers
  /\ DOMAIN skipped = Hashers /\ DOMAIN digest = Hashers
  /\ \A q \in Hashers : Typed(ds[q], job[q], skipped[q])

\* hashlock is held from the seed to the save.
EngineHeld == \A q \in Hashers : hpc[q] = "blocks" <=> hashlock = q

\* What bytes the blocks of a call are, with h before them: whole blocks, and less
\* than a block is left of the len bytes of the stream.
Cut(j, h, len) ==
  \E m \in 0 .. len :
    /\ m % 64 = 0 /\ len - (h + m) \in 0 .. 63
    /\ j.blocks = Bytes(h, m)
    /\ j.fin = Bytes(h + m, len - (h + m))
    /\ ~j.dig => j.keep = j.fin

\* The state kept is that of the first h bytes.
Saved(s, h) ==
  /\ h % 64 = 0
  /\ IF s.seeded THEN s.state = Bytes(0, h) ELSE h = 0

\* How far a stream is, with what the engine goes on from, at each step of hash().
Streamed(pc, s, j, v, d, q) ==
  /\ pc = "idle" =>
       \E h \in 0 .. s.len :
         /\ Saved(s, h) /\ s.len - h \in 0 .. 63
         /\ s.buf = Bytes(h, s.len - h)
  /\ pc = "lock" =>
       /\ ~j.dig => j.blocks # <<>>
       /\ \E h \in 0 .. s.len : Saved(s, h) /\ Cut(j, h, s.len)
  /\ pc = "blocks" =>
       /\ s.seeded /\ (~j.dig => j.blocks # <<>> \/ j.cont)
       /\ \E h \in 0 .. s.len :
            /\ h % 64 = 0 /\ (IF j.cont THEN v ELSE <<>>) = Bytes(0, h)
            /\ Cut(j, h, s.len)
  /\ pc = "end" /\ ~j.dig =>
       \E h \in 0 .. s.len :
         /\ Saved(s, h) /\ s.len - h \in 0 .. 63
         /\ j.keep = Bytes(h, s.len - h)
  /\ pc = "done" \/ (pc = "end" /\ j.dig) => d = Padded(q, s.len)

Streams ==
  \A q \in Hashers : ~skipped[q] => Streamed(hpc[q], ds[q], job[q], iv, digest[q], q)

HashInv == HashTypes /\ EngineHeld /\ Streams

\* The rest is where hash() reads it from, if no whole blocks are before it.
LEMMA RestRead ==
  ASSUME NEW p \in Int, NEW l \in Nat, ~(l > 64 /\ l % 64 # 0)
  PROVE  /\ l - (l % 64) \in Nat /\ (l - (l % 64)) % 64 = 0 /\ l % 64 \in 0 .. 63
         /\ Bytes(p, l % 64) = Bytes(p + (l - (l % 64)), l % 64)
         /\ l % 64 = 0 <=> Bytes(p, l % 64) = <<>>
         /\ Bytes(p + (l - (l % 64)), 0) = <<>>
<1>1. l - (l % 64) \in Nat /\ (l - (l % 64)) % 64 = 0 /\ l % 64 \in 0 .. 63
  OBVIOUS
<1>2. l % 64 = 0 \/ l - (l % 64) = 0
  OBVIOUS
<1>3. p + (l - (l % 64)) \in Int /\ p + 0 = p
  OBVIOUS
<1> DEFINE r == l % 64
           w == l - r
<1>4. r \in Int /\ r >= 0 /\ 0 \in Int /\ w \in Nat
  BY <1>1
<1>5. r \in 0 .. 63 /\ (r = 0 \/ w = 0) /\ p + w \in Int /\ w % 64 = 0
  BY <1>1, <1>2, <1>3
<1> HIDE DEF r, w
<1>6. r = 0 <=> Bytes(p, r) = <<>>
  <2>1. Len(Bytes(p, r)) = r /\ (r <= 0 => Bytes(p, r) = <<>>)
    BY <1>4, BytesSeq
  <2> QED
    BY <1>4, <2>1
<1>7. Bytes(p + w, 0) = <<>>
  BY <1>4, <1>5, BytesSeq
<1>8. Bytes(p, r) = Bytes(p + w, r)
  <2>1. CASE r = 0
    BY <1>6, <1>7, <2>1
  <2>2. CASE w = 0
    BY <1>3, <2>2
  <2> QED
    BY <1>5, <2>1, <2>2
<1> QED
  BY <1>1, <1>6, <1>7, <1>8 DEF r, w


\* A call cuts what it has into whole blocks and a rest.
LEMMA Cuts ==
  ASSUME NEW s, s.len \in Nat, NEW h \in 0 .. s.len, h % 64 = 0, s.len - h \in 0 .. 63,
         s.buf = Bytes(h, s.len - h), NEW n \in Nat, NEW dig, ~Skips(s, n)
  PROVE  /\ Cut(Bufs(s, n, dig), h, s.len + n)
         /\ Bufs(s, n, dig).dig = dig /\ Bufs(s, n, dig).cont = FALSE
         /\ WholeJob(Bufs(s, n, dig))
<1> DEFINE kept == s.len - h
           j == Bufs(s, n, dig)
           len == s.len + n
           fill == IF s.buf = <<>> THEN 0 ELSE Lesser(64 - Len(s.buf), n)
           buf == s.buf \o Bytes(s.len, fill)
           p == s.len + fill
           l == n - fill
           rest == Bytes(p, l % 64)
<1>0. /\ s.len \in Int /\ h \in Int /\ h \in Nat /\ kept \in Int /\ kept >= 0
      /\ kept \in Nat /\ 0 \in Int /\ h + kept = s.len /\ kept <= 63 /\ kept \in 0 .. 63
  OBVIOUS
<1>1. s.buf = Bytes(h, kept) /\ s.buf \in Seq(Byte) /\ Len(s.buf) = kept
  <2> HIDE DEF kept
  <2>1. s.buf = Bytes(h, kept)
    BY DEF kept
  <2>2. Bytes(h, kept) \in Seq(Byte) /\ Len(Bytes(h, kept)) = kept
    BY <1>0, BytesSeq
  <2> QED
    BY <2>1, <2>2
<1>2. s.buf = <<>> <=> kept = 0
  BY <1>1
<1>3. j.dig = dig /\ j.cont = FALSE /\ WholeJob(j) /\ (~j.dig => j.keep = j.fin)
  BY DEF Bufs, WholeJob
<1>4. /\ j.blocks = (IF kept + fill = 64 THEN buf ELSE <<>>) \o Bytes(p, l - (l % 64))
      /\ j.fin = IF rest # <<>> THEN rest ELSE IF kept + fill = 64 THEN <<>> ELSE buf
  <2>1. /\ j.blocks = (IF Len(s.buf) + fill = 64 THEN buf ELSE <<>>) \o Bytes(p, l - (l % 64))
        /\ j.fin = IF rest # <<>> THEN rest ELSE IF Len(s.buf) + fill = 64 THEN <<>> ELSE buf
    BY DEF Bufs
  <2> HIDE DEF j, fill, kept
  <2> QED
    BY <1>1, <2>1
<1>5. fill = IF kept = 0 THEN 0 ELSE IF 64 - kept < n THEN 64 - kept ELSE n
  <2>1. Len(s.buf) = kept
    BY <1>1
  <2> HIDE DEF kept
  <2> QED
    BY <1>2, <2>1 DEF Lesser
<1>6. ~(l > 64 /\ l % 64 # 0) /\ fill \in Nat /\ l \in Nat /\ p \in Int
  <2>1. fill \in Nat /\ n - fill \in Nat /\ s.len + fill \in Int
    <3> HIDE DEF fill, kept
    <3> QED
      BY <1>0, <1>5
  <2>2. l = IF s.buf = <<>> THEN n ELSE n - Lesser(64 - Len(s.buf), n)
    OBVIOUS
  <2>3. ~(l > 64 /\ l % 64 # 0)
    BY <2>2 DEF Skips
  <2> QED
    BY <2>1, <2>3
<1> DEFINE r == l % 64
           w == l - (l % 64)
<1>7. /\ w \in Nat /\ w % 64 = 0 /\ r \in 0 .. 63
      /\ Bytes(p, r) = Bytes(p + w, r)
      /\ r = 0 <=> rest = <<>>
      /\ Bytes(p + w, 0) = <<>>
  <2> HIDE DEF l, p
  <2> QED
    BY <1>6, RestRead
<1>8. l = w + r
  <2> HIDE DEF l
  <2> QED
    BY <1>6
<1>9. Bytes(s.len, 0) = <<>>
  BY <1>0, BytesNone
<1>10. buf = Bytes(h, kept + fill)
  <2> HIDE DEF kept, fill
  <2>1. Bytes(h, kept) \o Bytes(h + kept, fill) = Bytes(h, kept + fill)
    BY <1>0, <1>6, BytesJoin
  <2>2. buf = Bytes(h, kept) \o Bytes(h + kept, fill)
    BY <1>0, <1>1
  <2> QED
    BY <2>1, <2>2
<1>11. ASSUME NEW m \in 0 .. len, m % 64 = 0, len - (h + m) \in 0 .. 63,
              j.blocks = Bytes(h, m), j.fin = Bytes(h + m, len - (h + m))
       PROVE  Cut(j, h, len)
  <2> HIDE DEF j, len
  <2> QED
    BY <1>3, <1>11 DEF Cut
<1>12. j.fin = IF r # 0 THEN Bytes(p + w, r) ELSE IF kept + fill = 64 THEN <<>> ELSE buf
  <2>1. rest = Bytes(p, r)
    OBVIOUS
  <2> HIDE DEF j, fill, buf, w, r, rest, p, kept
  <2> QED
    BY <1>4, <1>7, <2>1
<1>15. p = s.len + fill /\ l = n - fill /\ w = l - r
  OBVIOUS
<1>16. len = s.len + n /\ s.len = h + kept /\ n \in Nat
  BY <1>0
<1>17. j.blocks = (IF kept + fill = 64 THEN buf ELSE <<>>) \o Bytes(p, w)
  BY <1>4
<1>18. Bufs(s, n, dig) = j /\ s.len + n = len
  OBVIOUS
<1> HIDE DEF j, fill, buf, w, r, rest, kept, p, l, len
<1>13. ASSUME kept + fill = 64 PROVE Cut(j, h, len)
  <2>1. p = h + 64 /\ 64 \in Nat
    BY <1>0, <1>6, <1>13, <1>15, <1>16
  <2>2. Bytes(h, 64) \o Bytes(h + 64, w) = Bytes(h, 64 + w)
    BY <1>0, <1>7, <2>1, BytesJoin
  <2>3. j.blocks = Bytes(h, 64 + w)
    BY <1>10, <1>13, <1>17, <2>1, <2>2
  <2>4. /\ 64 + w \in 0 .. len /\ (64 + w) % 64 = 0
        /\ len - (h + (64 + w)) = r /\ h + (64 + w) = p + w
    BY <1>0, <1>6, <1>7, <1>8, <1>13, <1>15, <1>16, <2>1
  <2>5. j.fin = Bytes(p + w, r)
    BY <1>7, <1>12, <1>13
  <2> QED
    BY <1>7, <1>11, <2>3, <2>4, <2>5
<1>14. ASSUME kept + fill # 64 PROVE Cut(j, h, len)
  <2>1. (fill = 0 /\ kept = 0) \/ (fill = n /\ kept + n < 64)
    BY <1>0, <1>5, <1>14
  <2>2. j.blocks = Bytes(p, w)
    <3>1. <<>> \o Bytes(p, w) = Bytes(p, w)
      <4>1. w \in Int
        BY <1>7
      <4>2. Bytes(p, w) \in Seq(Byte)
        BY <1>6, <4>1, BytesSeq
      <4> QED
        BY <4>2, ConcatEmptySeq
    <3> QED
      BY <1>14, <1>17, <3>1
  <2>3. CASE fill = 0 /\ kept = 0
    <3>1. p = h /\ w \in 0 .. len /\ len - (h + w) = r
      BY <1>0, <1>6, <1>7, <1>8, <1>15, <1>16, <2>3
    <3>2. buf = Bytes(p + w, 0)
      <4>1. kept + fill = 0 /\ h = s.len
        BY <1>0, <2>3
      <4> QED
        BY <1>7, <1>9, <1>10, <4>1
    <3>3. j.fin = Bytes(h + w, r)
      BY <1>12, <1>14, <3>1, <3>2
    <3> QED
      BY <1>7, <1>11, <2>2, <3>1, <3>3
  <2>4. CASE fill = n /\ kept + n < 64
    <3>1. l = 0 /\ w = 0 /\ r = 0
      BY <1>15, <2>4 DEF r
    <3>2. /\ len - (h + 0) = kept + n /\ 0 \in 0 .. len /\ 0 % 64 = 0
          /\ kept + n \in 0 .. 63 /\ h + 0 = h
      BY <1>0, <1>16, <2>4
    <3>3. j.fin = Bytes(h, kept + n)
      BY <1>10, <1>12, <1>14, <2>4, <3>1
    <3>4. j.blocks = Bytes(h, 0)
      <4>1. Bytes(p, 0) = <<>> /\ Bytes(h, 0) = <<>>
        BY <1>0, <1>6, BytesNone
      <4> QED
        BY <2>2, <3>1, <4>1
    <3> QED
      BY <1>11, <3>2, <3>3, <3>4
  <2> QED
    BY <2>1, <2>3, <2>4
<1>19. Cut(j, h, len)
  BY <1>13, <1>14
<1> QED
  BY <1>3, <1>18, <1>19

LEMMA HashInitInv == HashInit => HashInv
<1> SUFFICES ASSUME HashInit PROVE HashInv
  OBVIOUS
<1>1. HashTypes
  BY DEF HashInit, HashTypes, Typed, Whole, WholeJob, NoJob
<1>2. EngineHeld
  BY HashersAssumption DEF HashInit, EngineHeld
<1>3. ASSUME NEW q \in Hashers PROVE Streamed(hpc[q], ds[q], job[q], iv, digest[q], q)
  <2>1. /\ hpc[q] = "idle" /\ ds[q].len = 0 /\ ds[q].buf = <<>> /\ ~ds[q].seeded
    BY DEF HashInit
  <2>2. Bytes(0, 0) = <<>>
    BY BytesNone
  <2>3. 0 \in 0 .. ds[q].len /\ ds[q].len - 0 = 0 /\ 0 \in 0 .. 63 /\ 0 % 64 = 0
    BY <2>1
  <2>4. Saved(ds[q], 0)
    BY <2>1, <2>3 DEF Saved
  <2> QED
    BY <2>1, <2>2, <2>3, <2>4 DEF Streamed
<1> QED
  BY <1>1, <1>2, <1>3 DEF HashInv, Streams

\* The engine of a process that is not at its blocks is no matter to it.
LEMMA Elsewhere ==
  ASSUME NEW pc, NEW s, NEW j, NEW v, NEW w, NEW d, NEW q,
         Streamed(pc, s, j, v, d, q), pc = "blocks" => w = v
  PROVE  Streamed(pc, s, j, w, d, q)
BY DEF Streamed

LEMMA HashNextInv == HashInv /\ [HashNext]_hashVars => HashInv'
<1> SUFFICES ASSUME HashInv, [HashNext]_hashVars PROVE HashInv'
  OBVIOUS
<1>1. HashTypes /\ EngineHeld /\ Streams
  BY DEF HashInv
<1>2. ASSUME NEW q \in Hashers, EngineHeld',
             DOMAIN hpc' = Hashers, DOMAIN ds' = Hashers, DOMAIN job' = Hashers,
             DOMAIN skipped' = Hashers, DOMAIN digest' = Hashers,
             Typed(ds'[q], job'[q], skipped'[q]),
             \A p \in Hashers \ {q} :
               /\ hpc'[p] = hpc[p] /\ ds'[p] = ds[p] /\ job'[p] = job[p]
               /\ skipped'[p] = skipped[p] /\ digest'[p] = digest[p]
               /\ hpc[p] = "blocks" => iv' = iv,
             ~skipped'[q] => Streamed(hpc'[q], ds'[q], job'[q], iv', digest'[q], q)
      PROVE  HashInv'
  <2>1. ASSUME NEW p \in Hashers, p # q, ~skipped'[p]
        PROVE  Streamed(hpc'[p], ds'[p], job'[p], iv', digest'[p], p)
    <3>1. /\ hpc'[p] = hpc[p] /\ ds'[p] = ds[p] /\ job'[p] = job[p]
          /\ skipped'[p] = skipped[p] /\ digest'[p] = digest[p]
          /\ hpc[p] = "blocks" => iv' = iv
      BY <1>2, <2>1
    <3>2. Streamed(hpc[p], ds[p], job[p], iv, digest[p], p)
      BY <1>1, <2>1, <3>1 DEF Streams
    <3>3. Streamed(hpc[p], ds[p], job[p], iv', digest[p], p)
      BY <3>1, <3>2, Elsewhere
    <3> QED
      BY <3>1, <3>3
  <2>2. Streams'
    BY <1>2, <2>1 DEF Streams
  <2>3. ASSUME NEW p \in Hashers PROVE Typed(ds'[p], job'[p], skipped'[p])
    <3>1. Typed(ds[p], job[p], skipped[p])
      BY <1>1 DEF HashTypes
    <3> QED
      BY <1>2, <3>1
  <2>4. HashTypes'
    BY <1>2, <2>3 DEF HashTypes
  <2> QED
    BY <1>2, <2>2, <2>4 DEF HashInv
<1>3. ASSUME NEW q \in Hashers, Hash(q) PROVE HashInv'
  <2>1. PICK n \in Lens, dig \in BOOLEAN :
          LET j == Bufs(ds[q], n, dig) IN
          /\ job' = [job EXCEPT ![q] = j]
          /\ hpc' = [hpc EXCEPT ![q] = IF j.blocks # <<>> \/ dig THEN "lock" ELSE "end"]
          /\ skipped' = [skipped EXCEPT ![q] = @ \/ Skips(ds[q], n)]
          /\ ds' = [ds EXCEPT ![q].len = @ + n]
    BY <1>3 DEF Hash
  <2> DEFINE s == ds[q]
             j == Bufs(s, n, dig)
             len == s.len + n
  <2>2. hpc[q] = "idle" /\ UNCHANGED <<digest, hashlock, iv>>
    BY <1>3 DEF Hash
  <2>3. n \in Nat /\ s.len \in Nat /\ s.seeded \in BOOLEAN /\ Whole(s) /\ skipped[q] \in BOOLEAN
    BY <1>1, HashAssumption DEF HashTypes, Typed
  <2>4. /\ job'[q] = j /\ hpc'[q] = (IF j.blocks # <<>> \/ dig THEN "lock" ELSE "end")
        /\ ds'[q] = [len |-> len, buf |-> s.buf, seeded |-> s.seeded, state |-> s.state]
        /\ ~skipped'[q] => ~skipped[q] /\ ~Skips(s, n)
        /\ skipped'[q] \in BOOLEAN
    <3>1. job'[q] = j /\ hpc'[q] = (IF j.blocks # <<>> \/ dig THEN "lock" ELSE "end")
      BY <1>1, <2>1 DEF HashTypes
    <3>2. ds'[q] = [s EXCEPT !.len = @ + n]
      BY <1>1, <2>1 DEF HashTypes
    <3>3. ds'[q] = [len |-> len, buf |-> s.buf, seeded |-> s.seeded, state |-> s.state]
      BY <2>3, <3>2 DEF Whole
    <3>4. skipped'[q] = (skipped[q] \/ Skips(s, n))
      BY <1>1, <2>1 DEF HashTypes
    <3> QED
      BY <3>1, <3>3, <3>4
  <2>5. j.dig = dig /\ j.cont = FALSE /\ WholeJob(j)
    BY DEF Bufs, WholeJob
  <2>6. /\ DOMAIN hpc' = Hashers /\ DOMAIN ds' = Hashers /\ DOMAIN job' = Hashers
        /\ DOMAIN skipped' = Hashers /\ DOMAIN digest' = Hashers
        /\ \A p \in Hashers \ {q} :
             /\ hpc'[p] = hpc[p] /\ ds'[p] = ds[p] /\ job'[p] = job[p]
             /\ skipped'[p] = skipped[p] /\ digest'[p] = digest[p] /\ iv' = iv
    BY <1>1, <2>1, <2>2 DEF HashTypes
  <2>7. Typed(ds'[q], job'[q], skipped'[q])
    <3>1. len \in Nat
      BY <2>3
    <3> HIDE DEF j, len, s
    <3>2. ds'[q].len = len /\ ds'[q].seeded = s.seeded /\ Whole(ds'[q])
      BY <2>4 DEF Whole
    <3> QED
      BY <2>3, <2>4, <2>5, <3>1, <3>2 DEF Typed
  <2>8. EngineHeld'
    <3> HIDE DEF j, len, s
    <3> QED
      BY <1>1, <2>2, <2>4, <2>6 DEF EngineHeld
  <2>9. ASSUME ~skipped'[q] PROVE Streamed(hpc'[q], ds'[q], job'[q], iv', digest'[q], q)
    <3>1. ~Skips(s, n) /\ Streamed(hpc[q], s, job[q], iv, digest[q], q)
      BY <1>1, <2>4, <2>9 DEF Streams
    <3>2. PICK h \in 0 .. s.len :
            /\ Saved(s, h) /\ s.len - h \in 0 .. 63
            /\ s.buf = Bytes(h, s.len - h)
      BY <2>2, <3>1 DEF Streamed
    <3>3. h % 64 = 0 /\ h \in 0 .. len
      BY <2>3, <3>2 DEF Saved
    <3>4. Cut(j, h, len)
      <4> HIDE DEF s
      <4> QED
        BY <2>3, <3>1, <3>2, <3>3, Cuts
    <3>5. Saved(ds'[q], h) /\ ds'[q].len = len
      BY <2>4, <3>2 DEF Saved
    <3>6. PICK m \in 0 .. len :
            /\ m % 64 = 0 /\ len - (h + m) \in 0 .. 63
            /\ j.blocks = Bytes(h, m)
            /\ j.fin = Bytes(h + m, len - (h + m))
            /\ ~j.dig => j.keep = j.fin
      BY <3>4 DEF Cut
    <3> HIDE DEF j, len, s
    <3>7. CASE j.blocks # <<>> \/ dig
      BY <2>4, <2>5, <3>3, <3>4, <3>5, <3>7 DEF Streamed
    <3>8. CASE j.blocks = <<>> /\ ~dig
      <4>1. m = 0
        <5>1. Len(Bytes(h, m)) = m
          <6>1. h \in Int /\ m \in Int /\ m >= 0
            BY <2>3, <3>3, <3>6
          <6> QED
            BY <6>1, BytesSeq
        <5> QED
          BY <3>6, <3>8, <5>1
      <4>2. h + m = h
        BY <3>3, <4>1
      <4>3. j.keep = Bytes(h, len - h) /\ len - h \in 0 .. 63
        BY <2>5, <3>6, <3>8, <4>2
      <4> QED
        BY <2>4, <2>5, <3>3, <3>5, <3>8, <4>3 DEF Streamed
    <3> QED
      BY <3>7, <3>8
  <2> QED
    BY <1>2, <2>6, <2>7, <2>8, <2>9
<1>h. \A q \in Hashers : hpc[q] = "blocks" => \A p \in Hashers \ {q} : hpc[p] # "blocks"
  BY <1>1 DEF EngineHeld
<1>c. ASSUME NEW j, NEW k, NEW h, NEW len, Cut(j, h, len), k.dig = j.dig,
             k.blocks = j.blocks, k.fin = j.fin, k.keep = j.keep
      PROVE  Cut(k, h, len)
  BY <1>c DEF Cut
<1>w. ASSUME NEW j, NEW len \in Nat, NEW h \in 0 .. len, Cut(j, h, len), j.blocks = <<>>
      PROVE  /\ len - h \in 0 .. 63 /\ j.fin = Bytes(h, len - h)
             /\ ~j.dig => j.keep = j.fin
  <2>1. PICK m \in 0 .. len :
          /\ len - (h + m) \in 0 .. 63 /\ j.blocks = Bytes(h, m)
          /\ j.fin = Bytes(h + m, len - (h + m))
          /\ ~j.dig => j.keep = j.fin
    BY <1>w DEF Cut
  <2>2. h \in Int /\ m \in Int /\ m >= 0
    OBVIOUS
  <2>3. m = 0
    <3>1. Len(Bytes(h, m)) = m
      BY <2>2, BytesSeq
    <3> QED
      BY <1>w, <2>1, <3>1
  <2>4. h + m = h
    BY <2>3
  <2> QED
    BY <2>1, <2>4
<1>4. ASSUME NEW q \in Hashers, HashSeed(q) PROVE HashInv'
  <2> DEFINE s == ds[q]
             j == job[q]
  <2>1. /\ hpc[q] = "lock" /\ hashlock = Nobody /\ hashlock' = q
        /\ iv' = IF s.seeded THEN s.state ELSE iv
        /\ UNCHANGED <<skipped, digest>>
    BY <1>4 DEF HashSeed
  <2>2. Typed(s, j, skipped[q])
    BY <1>1 DEF HashTypes
  <2>3. /\ hpc'[q] = "blocks"
        /\ ds'[q] = [len |-> s.len, buf |-> s.buf, seeded |-> TRUE, state |-> s.state]
        /\ job'[q] = [blocks |-> j.blocks, cont |-> s.seeded, fin |-> j.fin, dig |-> j.dig,
                      keep |-> j.keep]
    <3>1. /\ hpc'[q] = "blocks" /\ ds'[q] = [s EXCEPT !.seeded = TRUE]
          /\ job'[q] = [j EXCEPT !.cont = s.seeded]
      BY <1>1, <1>4 DEF HashTypes, HashSeed
    <3> HIDE DEF s, j
    <3>2. Whole(s) /\ WholeJob(j)
      BY <2>2 DEF Typed
    <3>3. ds'[q] = [len |-> s.len, buf |-> s.buf, seeded |-> TRUE, state |-> s.state]
      BY <3>1, <3>2 DEF Whole
    <3>4. job'[q] = [blocks |-> j.blocks, cont |-> s.seeded, fin |-> j.fin, dig |-> j.dig,
                     keep |-> j.keep]
      BY <3>1, <3>2 DEF WholeJob
    <3> QED
      BY <3>1, <3>3, <3>4
  <2>4. \A p \in Hashers : hpc[p] # "blocks"
    BY <1>1, <2>1, HashersAssumption DEF EngineHeld
  <2>5. /\ DOMAIN hpc' = Hashers /\ DOMAIN ds' = Hashers /\ DOMAIN job' = Hashers
        /\ DOMAIN skipped' = Hashers /\ DOMAIN digest' = Hashers
        /\ \A p \in Hashers \ {q} :
             /\ hpc'[p] = hpc[p] /\ ds'[p] = ds[p] /\ job'[p] = job[p]
             /\ skipped'[p] = skipped[p] /\ digest'[p] = digest[p]
             /\ hpc[p] = "blocks" => iv' = iv
    BY <1>1, <1>4, <2>4 DEF HashTypes, HashSeed
  <2>6. EngineHeld'
    BY <2>1, <2>3, <2>4, <2>5 DEF EngineHeld
  <2> HIDE DEF s, j
  <2>7. Typed(ds'[q], job'[q], skipped'[q])
    BY <2>1, <2>2, <2>3 DEF Typed, Whole, WholeJob
  <2>8. ASSUME ~skipped'[q] PROVE Streamed(hpc'[q], ds'[q], job'[q], iv', digest'[q], q)
    <3>1. Streamed(hpc[q], s, j, iv, digest[q], q)
      BY <1>1, <2>1, <2>8 DEF Streams, s, j
    <3>2. ~j.dig => j.blocks # <<>>
      BY <2>1, <3>1 DEF Streamed
    <3>3. PICK h \in 0 .. s.len : Saved(s, h) /\ Cut(j, h, s.len)
      BY <2>1, <3>1 DEF Streamed
    <3>4. h % 64 = 0 /\ (IF s.seeded THEN s.state ELSE <<>>) = Bytes(0, h)
      <4>1. Bytes(0, 0) = <<>>
        BY BytesNone
      <4> QED
        BY <3>3, <4>1 DEF Saved
    <3>5. Cut(job'[q], h, s.len)
      BY <2>3, <3>3, <1>c
    <3>6. /\ job'[q].cont = s.seeded /\ job'[q].dig = j.dig /\ job'[q].blocks = j.blocks
          /\ ds'[q].seeded /\ ds'[q].len = s.len
      BY <2>3
    <3>7. (IF job'[q].cont THEN iv' ELSE <<>>) = Bytes(0, h)
      BY <2>1, <3>4, <3>6
    <3> QED
      BY <2>3, <3>2, <3>4, <3>5, <3>6, <3>7 DEF Streamed
  <2> QED
    BY <1>2, <2>5, <2>6, <2>7, <2>8
<1>5. ASSUME NEW q \in Hashers, HashBlock(q) PROVE HashInv'
  <2> DEFINE s == ds[q]
             j == job[q]
  <2>1. /\ hpc[q] = "blocks" /\ j.blocks # <<>>
        /\ iv' = Absorb(j.cont, SubSeq(j.blocks, 1, 64))
        /\ UNCHANGED <<hpc, ds, skipped, digest, hashlock>>
    BY <1>5 DEF HashBlock
  <2>2. Typed(s, j, skipped[q])
    BY <1>1 DEF HashTypes
  <2>3. job'[q] = [blocks |-> SubSeq(j.blocks, 65, Len(j.blocks)), cont |-> TRUE,
                   fin |-> j.fin, dig |-> j.dig, keep |-> j.keep]
    <3>1. job'[q] = [j EXCEPT !.blocks = SubSeq(@, 65, Len(@)), !.cont = TRUE]
      BY <1>1, <1>5 DEF HashTypes, HashBlock
    <3> HIDE DEF j
    <3> QED
      BY <2>2, <3>1 DEF Typed, WholeJob
  <2>4. \A p \in Hashers \ {q} : hpc[p] # "blocks"
    BY <1>h, <2>1
  <2>5. /\ DOMAIN hpc' = Hashers /\ DOMAIN ds' = Hashers /\ DOMAIN job' = Hashers
        /\ DOMAIN skipped' = Hashers /\ DOMAIN digest' = Hashers
        /\ \A p \in Hashers \ {q} :
             /\ hpc'[p] = hpc[p] /\ ds'[p] = ds[p] /\ job'[p] = job[p]
             /\ skipped'[p] = skipped[p] /\ digest'[p] = digest[p]
             /\ hpc[p] = "blocks" => iv' = iv
    BY <1>1, <1>5, <2>4 DEF HashTypes, HashBlock
  <2>6. EngineHeld'
    BY <1>1, <2>1 DEF EngineHeld
  <2>s. ds'[q] = s
    BY <2>1
  <2> HIDE DEF s, j
  <2>7. Typed(ds'[q], job'[q], skipped'[q])
    BY <2>1, <2>2, <2>3, <2>s DEF Typed, WholeJob
  <2>8. ASSUME ~skipped'[q] PROVE Streamed(hpc'[q], ds'[q], job'[q], iv', digest'[q], q)
    <3>1. Streamed(hpc[q], s, j, iv, digest[q], q)
      BY <1>1, <2>1, <2>8 DEF Streams, s, j
    <3>2. s.seeded /\ s.len \in Nat
      BY <2>1, <2>2, <3>1 DEF Streamed, Typed
    <3>3. PICK h \in 0 .. s.len :
            h % 64 = 0 /\ (IF j.cont THEN iv ELSE <<>>) = Bytes(0, h) /\ Cut(j, h, s.len)
      BY <2>1, <3>1 DEF Streamed
    <3>4. PICK m \in 0 .. s.len :
            /\ m % 64 = 0 /\ s.len - (h + m) \in 0 .. 63
            /\ j.blocks = Bytes(h, m)
            /\ j.fin = Bytes(h + m, s.len - (h + m))
            /\ ~j.dig => j.keep = j.fin
      BY <3>3 DEF Cut
    <3>5. h \in Nat /\ h \in Int /\ m \in Nat /\ m \in Int /\ m >= 0
      BY <3>2, <3>3, <3>4
    <3>6. m >= 64
      <4>1. Len(Bytes(h, m)) = m /\ (m <= 0 => Bytes(h, m) = <<>>)
        BY <3>5, BytesSeq
      <4>2. m # 0
        BY <2>1, <3>4, <4>1
      <4> QED
        BY <3>4, <3>5, <4>2
    <3> DEFINE g == h + 64
               k == m - 64
    <3> DEFINE len == s.len
    <3>e. len \in Nat /\ h % 64 = 0 /\ m % 64 = 0 /\ len - (h + m) \in 0 .. 63
      BY <3>2, <3>3, <3>4
    <3> HIDE DEF len
    <3>7. g % 64 = 0 /\ k % 64 = 0 /\ k \in 0 .. len /\ g \in 0 .. len /\ g + k = h + m
      BY <3>5, <3>6, <3>e
    <3>v. /\ g \in Int /\ k \in Int /\ 64 \in Nat /\ 64 <= m /\ 0 + h = h /\ 64 + 1 = 65
          /\ 0 \in Int /\ g = h + 64
      BY <3>5, <3>6
    <3>8. SubSeq(Bytes(h, m), 1, 64) = Bytes(h, 64) /\ SubSeq(Bytes(h, m), 65, m) = Bytes(g, k)
      <4>1. /\ SubSeq(Bytes(h, m), 1, 64) = Bytes(h, 64)
            /\ SubSeq(Bytes(h, m), 64 + 1, m) = Bytes(h + 64, m - 64)
        <5> DEFINE size == 64
        <5>1. h \in Int /\ size \in Nat /\ m \in Nat /\ size <= m
          BY <3>5, <3>v
        <5> HIDE DEF size
        <5>2. /\ SubSeq(Bytes(h, m), 1, size) = Bytes(h, size)
              /\ SubSeq(Bytes(h, m), size + 1, m) = Bytes(h + size, m - size)
          BY <5>1, BytesCut
        <5> QED
          BY <5>2 DEF size
      <4> QED
        BY <3>v, <4>1
    <3>9. Len(Bytes(h, m)) = m
      BY <3>5, BytesSeq
    <3>j. /\ job'[q].blocks = SubSeq(j.blocks, 65, Len(j.blocks)) /\ job'[q].cont
          /\ job'[q].fin = j.fin /\ job'[q].dig = j.dig /\ job'[q].keep = j.keep
      BY <2>3
    <3>11. iv' = Bytes(0, g)
      <4>1. iv' = Bytes(0, h) \o Bytes(h, 64)
        BY <2>1, <3>3, <3>4, <3>8 DEF Absorb
      <4>2. Bytes(0, h) \o Bytes(0 + h, 64) = Bytes(0, h + 64)
        <5> DEFINE size == 64
                   none == 0
        <5>1. none \in Int /\ size \in Nat /\ h \in Nat
          BY <3>5, <3>v
        <5> HIDE DEF size, none
        <5>2. Bytes(none, h) \o Bytes(none + h, size) = Bytes(none, h + size)
          BY <5>1, BytesJoin
        <5> QED
          BY <5>2 DEF size, none
      <4> QED
        BY <3>v, <4>1, <4>2
    <3> HIDE DEF g, k
    <3>10. job'[q].blocks = Bytes(g, k)
      BY <3>4, <3>8, <3>9, <3>j
    <3>12. Cut(job'[q], g, len)
      <4>2. len - (g + k) \in 0 .. 63 /\ j.fin = Bytes(g + k, len - (g + k))
        BY <3>4, <3>7, <3>e DEF len
      <4> QED
        BY <3>4, <3>7, <3>10, <3>j, <4>2 DEF Cut
    <3>13. ds'[q].len = len /\ ds'[q].seeded
      BY <2>s, <3>2 DEF len
    <3> QED
      BY <2>1, <3>7, <3>11, <3>12, <3>13, <3>j DEF Streamed
  <2> QED
    BY <1>2, <2>5, <2>6, <2>7, <2>8
<1>6. ASSUME NEW q \in Hashers, HashFinish(q) PROVE HashInv'
  <2> DEFINE s == ds[q]
             j == job[q]
  <2>1. /\ hpc[q] = "blocks" /\ j.blocks = <<>> /\ j.dig /\ hashlock' = Nobody
        /\ iv' = Absorb(j.cont, FinalBlocks(q, j.fin))
        /\ UNCHANGED <<ds, job, skipped>>
    BY <1>6 DEF HashFinish
  <2>2. Typed(s, j, skipped[q])
    BY <1>1 DEF HashTypes
  <2>3. hpc'[q] = "end" /\ digest'[q] = iv'
    BY <1>1, <1>6 DEF HashTypes, HashFinish
  <2>4. \A p \in Hashers \ {q} : hpc[p] # "blocks"
    BY <1>h, <2>1
  <2>5. /\ DOMAIN hpc' = Hashers /\ DOMAIN ds' = Hashers /\ DOMAIN job' = Hashers
        /\ DOMAIN skipped' = Hashers /\ DOMAIN digest' = Hashers
        /\ \A p \in Hashers \ {q} :
             /\ hpc'[p] = hpc[p] /\ ds'[p] = ds[p] /\ job'[p] = job[p]
             /\ skipped'[p] = skipped[p] /\ digest'[p] = digest[p]
             /\ hpc[p] = "blocks" => iv' = iv
    BY <1>1, <1>6, <2>4 DEF HashTypes, HashFinish
  <2>6. EngineHeld'
    BY <2>1, <2>3, <2>4, <2>5, HashersAssumption DEF EngineHeld
  <2>s. ds'[q] = s /\ job'[q] = j
    BY <2>1
  <2> HIDE DEF s, j
  <2>7. Typed(ds'[q], job'[q], skipped'[q])
    BY <2>1, <2>2, <2>s
  <2>8. ASSUME ~skipped'[q] PROVE Streamed(hpc'[q], ds'[q], job'[q], iv', digest'[q], q)
    <3>1. Streamed(hpc[q], s, j, iv, digest[q], q)
      BY <1>1, <2>1, <2>8 DEF Streams, s, j
    <3>2. s.len \in Nat
      BY <2>2 DEF Typed
    <3>3. PICK h \in 0 .. s.len :
            h % 64 = 0 /\ (IF j.cont THEN iv ELSE <<>>) = Bytes(0, h) /\ Cut(j, h, s.len)
      BY <2>1, <3>1 DEF Streamed
    <3>4. s.len - h \in 0 .. 63 /\ j.fin = Bytes(h, s.len - h)
      BY <2>1, <3>2, <3>3, <1>w
    <3> DEFINE r == s.len - h
    <3>5. h \in Nat /\ r \in 0 .. 63 /\ h + r = s.len
      BY <3>2, <3>3, <3>4
    <3>6. j.fin = Bytes(h, r)
      BY <3>4
    <3> HIDE DEF r
    <3>7. iv' = Bytes(0, h) \o FinalBlocks(q, Bytes(h, r))
      BY <2>1, <3>3, <3>6 DEF Absorb
    <3>8. digest'[q] = Padded(q, s.len)
      BY <2>3, <3>3, <3>5, <3>7, Finished
    <3> QED
      BY <2>1, <2>3, <2>s, <3>8 DEF Streamed
  <2> QED
    BY <1>2, <2>5, <2>6, <2>7, <2>8
<1>7. ASSUME NEW q \in Hashers, HashSave(q) PROVE HashInv'
  <2> DEFINE s == ds[q]
             j == job[q]
  <2>1. /\ hpc[q] = "blocks" /\ j.blocks = <<>> /\ ~j.dig /\ hashlock' = Nobody
        /\ UNCHANGED <<job, skipped, digest, iv>>
    BY <1>7 DEF HashSave
  <2>2. Typed(s, j, skipped[q])
    BY <1>1 DEF HashTypes
  <2>3. /\ hpc'[q] = "end"
        /\ ds'[q] = [len |-> s.len, buf |-> s.buf, seeded |-> s.seeded, state |-> iv]
    <3>1. hpc'[q] = "end" /\ ds'[q] = [s EXCEPT !.state = iv]
      BY <1>1, <1>7 DEF HashTypes, HashSave
    <3> HIDE DEF s
    <3> QED
      BY <2>2, <3>1 DEF Typed, Whole
  <2>4. \A p \in Hashers \ {q} : hpc[p] # "blocks"
    BY <1>h, <2>1
  <2>5. /\ DOMAIN hpc' = Hashers /\ DOMAIN ds' = Hashers /\ DOMAIN job' = Hashers
        /\ DOMAIN skipped' = Hashers /\ DOMAIN digest' = Hashers
        /\ \A p \in Hashers \ {q} :
             /\ hpc'[p] = hpc[p] /\ ds'[p] = ds[p] /\ job'[p] = job[p]
             /\ skipped'[p] = skipped[p] /\ digest'[p] = digest[p]
             /\ hpc[p] = "blocks" => iv' = iv
    BY <1>1, <1>7 DEF HashTypes, HashSave
  <2>6. EngineHeld'
    BY <2>1, <2>3, <2>4, <2>5, HashersAssumption DEF EngineHeld
  <2>s. job'[q] = j
    BY <2>1
  <2> HIDE DEF s, j
  <2>7. Typed(ds'[q], job'[q], skipped'[q])
    BY <2>1, <2>2, <2>3, <2>s DEF Typed, Whole
  <2>8. ASSUME ~skipped'[q] PROVE Streamed(hpc'[q], ds'[q], job'[q], iv', digest'[q], q)
    <3>1. Streamed(hpc[q], s, j, iv, digest[q], q)
      BY <1>1, <2>1, <2>8 DEF Streams, s, j
    <3>2. s.len \in Nat /\ s.seeded /\ j.cont
      BY <2>1, <2>2, <3>1 DEF Typed, Streamed
    <3>3. PICK h \in 0 .. s.len :
            h % 64 = 0 /\ (IF j.cont THEN iv ELSE <<>>) = Bytes(0, h) /\ Cut(j, h, s.len)
      BY <2>1, <3>1 DEF Streamed
    <3>4. s.len - h \in 0 .. 63 /\ j.keep = Bytes(h, s.len - h)
      BY <2>1, <3>2, <3>3, <1>w
    <3>5. Saved(ds'[q], h) /\ ds'[q].len = s.len
      BY <2>3, <3>2, <3>3 DEF Saved
    <3> QED
      BY <2>1, <2>3, <2>s, <3>4, <3>5 DEF Streamed
  <2> QED
    BY <1>2, <2>5, <2>6, <2>7, <2>8
<1>8. ASSUME NEW q \in Hashers, HashEnd(q) PROVE HashInv'
  <2> DEFINE s == ds[q]
             j == job[q]
  <2>1. hpc[q] = "end" /\ UNCHANGED <<skipped, digest, hashlock, iv>>
    BY <1>8 DEF HashEnd
  <2>2. Typed(s, j, skipped[q])
    BY <1>1 DEF HashTypes
  <2>3. /\ hpc'[q] = IF j.dig THEN "done" ELSE "idle"
        /\ job'[q] = NoJob
        /\ ds'[q] = [len |-> s.len, buf |-> j.keep, seeded |-> s.seeded, state |-> s.state]
    <3>1. /\ hpc'[q] = (IF j.dig THEN "done" ELSE "idle") /\ job'[q] = NoJob
          /\ ds'[q] = [s EXCEPT !.buf = j.keep]
      BY <1>1, <1>8 DEF HashTypes, HashEnd
    <3> HIDE DEF s, j
    <3> QED
      BY <2>2, <3>1 DEF Typed, Whole
  <2>5. /\ DOMAIN hpc' = Hashers /\ DOMAIN ds' = Hashers /\ DOMAIN job' = Hashers
        /\ DOMAIN skipped' = Hashers /\ DOMAIN digest' = Hashers
        /\ \A p \in Hashers \ {q} :
             /\ hpc'[p] = hpc[p] /\ ds'[p] = ds[p] /\ job'[p] = job[p]
             /\ skipped'[p] = skipped[p] /\ digest'[p] = digest[p]
             /\ hpc[p] = "blocks" => iv' = iv
    BY <1>1, <1>8 DEF HashTypes, HashEnd
  <2>6. EngineHeld'
    BY <1>1, <2>1, <2>3, <2>5 DEF EngineHeld
  <2> HIDE DEF s, j
  <2>7. Typed(ds'[q], job'[q], skipped'[q])
    <3>1. WholeJob(NoJob) /\ NoJob.cont \in BOOLEAN /\ NoJob.dig \in BOOLEAN
      BY DEF NoJob, WholeJob
    <3> QED
      BY <2>1, <2>2, <2>3, <3>1 DEF Typed, Whole
  <2>8. ASSUME ~skipped'[q] PROVE Streamed(hpc'[q], ds'[q], job'[q], iv', digest'[q], q)
    <3>1. Streamed(hpc[q], s, j, iv, digest[q], q)
      BY <1>1, <2>1, <2>8 DEF Streams, s, j
    <3>2. CASE j.dig
      BY <2>1, <2>3, <3>1, <3>2 DEF Streamed
    <3>3. CASE ~j.dig
      <4>1. PICK h \in 0 .. s.len :
              /\ Saved(s, h) /\ s.len - h \in 0 .. 63
              /\ j.keep = Bytes(h, s.len - h)
        BY <2>1, <3>1, <3>3 DEF Streamed
      <4>2. Saved(ds'[q], h) /\ ds'[q].len = s.len /\ ds'[q].buf = j.keep
        BY <2>3, <4>1 DEF Saved
      <4> QED
        BY <2>3, <3>3, <4>1, <4>2 DEF Streamed
    <3> QED
      BY <3>2, <3>3
  <2> QED
    BY <1>2, <2>5, <2>6, <2>7, <2>8
<1>9. ASSUME UNCHANGED hashVars PROVE HashInv'
  BY <1>1, <1>9 DEF hashVars, HashInv, HashTypes, EngineHeld, Streams
<1> QED
  BY <1>3, <1>4, <1>5, <1>6, <1>7, <1>8, <1>9 DEF HashNext

\* cesa.c: the digest of a stream is that of its bytes in order, padded, however
\* hash() is called, unless a call had whole blocks and a rest.
THEOREM DigestsRight == HashSpec => []DigestRight
<1>1. HashInv => DigestRight
  BY DEF HashInv, Streams, Streamed, DigestRight
<1> QED
  BY HashInitInv, HashNextInv, <1>1, PTL DEF HashSpec

-----------------------------------------------------------------------------
(* sdcard.c                                                                *)

RegsSpec == RegsInit /\ [][RegsNext]_regsVars

\* A field is taken in one turn from the low word, in the second turn from the
\* high one, or in two parts.  The second part must have more than one bit, as the
\* loop ends before it takes a single one; no field of the registers is like that.
LEMMA BitsRight ==
  ASSUME NEW r \in SUBSET (0 .. 127), NEW h \in 0 .. 127, NEW l \in 0 .. 127, h > l,
         ~(h = 64 /\ l < 64)
  PROVE  bits(r, h, l) = FieldRef(r, h, l)
<1> DEFINE s0 == [w |-> 2, h |-> h, l |-> l, o |-> 0, v |-> {}]
<1>1. CASE l >= 64
  <2> DEFINE s1 == [w |-> 1, h |-> h - 64, l |-> l - 64, o |-> 0, v |-> {}]
             n == h - l + 1
             s2 == [w |-> 0, h |-> h - 128, l |-> l - 64 + n - 64, o |-> n,
                    v |-> Take64(r, 1, l - 64, n, 0)]
  <2>1. Turn(r, s0) = s1
    <3>1. Take64(r, 2, l, 0, 0) = {}
      BY DEF Take64
    <3> QED
      BY <1>1, <3>1 DEF Turn
  <2>2. Turn(r, s1) = s2
    BY <1>1 DEF Turn
  <2>3. Take64(r, 1, l - 64, n, 0) = FieldRef(r, h, l)
    <3>1. Take64(r, 1, l - 64, n, 0) = {i \in 0 .. n - 1 : l + i \in r}
      BY <1>1 DEF Take64
    <3>2. FieldRef(r, h, l) = {i \in 0 .. n - 1 : l + i \in r}
      <4>1. \A i \in 0 .. n - 1 : l + i \in l .. h /\ i = (l + i) - l
        OBVIOUS
      <4>2. \A i \in l .. h : i - l \in 0 .. n - 1 /\ i = l + (i - l)
        OBVIOUS
      <4> QED
        BY <4>1, <4>2 DEF FieldRef
    <3> QED
      BY <3>1, <3>2
  <2>4. bits(r, h, l) = s2.v
    <3>1. bits(r, h, l) = Turn(r, Turn(r, s0)).v
      BY DEF bits
    <3> HIDE DEF s0, s1, s2
    <3> QED
      BY <3>1, <2>1, <2>2
  <2> QED
    BY <2>3, <2>4
<1>2. CASE h < 64
  <2> DEFINE n == h - l + 1
             s1 == [w |-> 1, h |-> h - 64, l |-> l + n - 64, o |-> n,
                    v |-> Take64(r, 2, l, n, 0)]
  <2>1. Turn(r, s0) = s1
    BY <1>2 DEF Turn
  <2>2. Turn(r, s1) = s1
    BY <1>2 DEF Turn
  <2>3. Take64(r, 2, l, n, 0) = FieldRef(r, h, l)
    <3>1. Take64(r, 2, l, n, 0) = {i \in 0 .. n - 1 : l + i \in r}
      BY <1>2 DEF Take64
    <3>2. FieldRef(r, h, l) = {i \in 0 .. n - 1 : l + i \in r}
      <4>1. \A i \in 0 .. n - 1 : l + i \in l .. h /\ i = (l + i) - l
        OBVIOUS
      <4>2. \A i \in l .. h : i - l \in 0 .. n - 1 /\ i = l + (i - l)
        OBVIOUS
      <4> QED
        BY <4>1, <4>2 DEF FieldRef
    <3> QED
      BY <3>1, <3>2
  <2>4. bits(r, h, l) = s1.v
    <3>1. bits(r, h, l) = Turn(r, Turn(r, s0)).v
      BY DEF bits
    <3> HIDE DEF s0, s1
    <3> QED
      BY <3>1, <2>1, <2>2
  <2> QED
    BY <2>3, <2>4
<1>3. CASE l < 64 /\ h >= 64
  <2> DEFINE n == 64 - l
             low == Take64(r, 2, l, n, 0)
             s1 == [w |-> 1, h |-> h - 64, l |-> 0, o |-> n, v |-> low]
             s2 == [w |-> 0, h |-> h - 128, l |-> h - 127, o |-> n + h - 63,
                    v |-> low \cup Take64(r, 1, 0, h - 63, n)]
  <2>1. Turn(r, s0) = s1
    BY <1>3 DEF Turn
  <2>2. bits(r, h, l) = low \cup Take64(r, 1, 0, h - 63, n)
    BY <1>3, <2>1 DEF bits, Turn
  <2>3. low = {i - l : i \in r \cap (l .. 63)}
    BY <1>3 DEF Take64
  <2>4. Take64(r, 1, 0, h - 63, n) = {i - l : i \in r \cap (64 .. h)}
    BY <1>3 DEF Take64
  <2> QED
    BY <1>3, <2>2, <2>3, <2>4 DEF FieldRef
<1> QED
  BY <1>1, <1>2, <1>3

Positions == {at \in (0 .. 127) \X (0 .. 127) : at[2] <= at[1] /\ ~(at[1] = 64 /\ at[2] < 64)}

LEMMA LayoutsRight ==
  /\ CidFields \in [DOMAIN CidFields -> Positions]
  /\ ScrFields \in [DOMAIN ScrFields -> Positions]
  /\ Join(CsdCommon, Csd0) \in [DOMAIN CsdCommon \cup DOMAIN Csd0 -> Positions]
  /\ Join(CsdCommon, Csd1) \in [DOMAIN CsdCommon \cup DOMAIN Csd1 -> Positions]
<1>1. CidFields \in [DOMAIN CidFields -> Positions]
  BY DEF CidFields, Positions
<1>2. ScrFields \in [DOMAIN ScrFields -> Positions]
  BY DEF ScrFields, Positions
<1>3. CsdCommon \in [DOMAIN CsdCommon -> Positions]
  BY DEF CsdCommon, Positions
<1>4. Csd0 \in [DOMAIN Csd0 -> Positions] /\ Csd1 \in [DOMAIN Csd1 -> Positions]
  BY DEF Csd0, Csd1, Positions
<1> QED
  BY <1>1, <1>2, <1>3, <1>4 DEF Join

\* The fields are those of the register last read.
Parsed ==
  /\ reg \in [name : {"none", "cid", "csd", "scr"}, bits : SUBSET (0 .. 127)]
  /\ fields = IF reg.name = "none" THEN None ELSE Parse(reg.name, reg.bits)

LEMMA LayoutFits ==
  ASSUME NEW name, NEW r, Layout(name, r) # None
  PROVE  Layout(name, r) \in [DOMAIN Layout(name, r) -> Positions]
<1>1. Layout(name, r) \in {CidFields, ScrFields, Join(CsdCommon, Csd0), Join(CsdCommon, Csd1)}
  BY DEF Layout
<1>2. /\ DOMAIN Join(CsdCommon, Csd0) = DOMAIN CsdCommon \cup DOMAIN Csd0
      /\ DOMAIN Join(CsdCommon, Csd1) = DOMAIN CsdCommon \cup DOMAIN Csd1
  BY DEF Join
<1> QED
  BY <1>1, <1>2, LayoutsRight

LEMMA ParsedRight == Parsed => FieldsRight
<1> SUFFICES ASSUME Parsed PROVE FieldsRight
  OBVIOUS
<1> DEFINE r == reg.bits
           lay == Layout(reg.name, r)
<1>r. r \in SUBSET (0 .. 127)
  BY DEF Parsed
<1>b. \A h, l \in 0 .. 127 :
        h > l /\ ~(h = 64 /\ l < 64) => bits(r, h, l) = FieldRef(r, h, l)
  <2> HIDE DEF r
  <2> QED
    BY <1>r, BitsRight
<1>1. ASSUME NEW f \in DOMAIN fields, lay[f][1] > lay[f][2]
      PROVE  fields[f] = FieldRef(r, lay[f][1], lay[f][2])
  <2>1. fields = [g \in DOMAIN lay |-> bits(r, lay[g][1], lay[g][2])]
    BY <1>1 DEF Parsed, Parse, None
  <2>2. f \in DOMAIN lay /\ lay # None
    BY <1>1, <2>1 DEF None
  <2>3. lay[f] \in Positions
    BY <2>2, LayoutFits
  <2>4. bits(r, lay[f][1], lay[f][2]) = FieldRef(r, lay[f][1], lay[f][2])
    <3> HIDE DEF r, lay
    <3>1. /\ lay[f][1] \in 0 .. 127 /\ lay[f][2] \in 0 .. 127
          /\ ~(lay[f][1] = 64 /\ lay[f][2] < 64)
      BY <2>3 DEF Positions
    <3> QED
      BY <1>1, <1>b, <3>1
  <2> QED
    BY <2>1, <2>2, <2>4
<1>2. ASSUME reg.name = "csd", DOMAIN fields # {} PROVE capacity(fields) = CapacityRef
  <2>1. fields = [g \in DOMAIN lay |-> bits(r, lay[g][1], lay[g][2])]
    BY <1>2 DEF Parsed, Parse
  <2>2. bits(r, 127, 126) = FieldRef(r, 127, 126)
    <3> HIDE DEF r
    <3> QED
      BY <1>b
  <2>3. CASE bits(r, 127, 126) = {}
    <3>1. lay = Join(CsdCommon, Csd0)
      BY <1>2, <2>3 DEF Layout
    <3>2. /\ {"vers", "size", "sizemult", "rbl"} \subseteq DOMAIN lay
          /\ lay["vers"] = <<127, 126>> /\ lay["size"] = <<75, 62>>
          /\ lay["sizemult"] = <<49, 47>> /\ lay["rbl"] = <<83, 80>>
      BY <3>1 DEF Join, CsdCommon, Csd0
    <3>3. /\ fields.vers = FieldRef(r, 127, 126) /\ fields.size = FieldRef(r, 75, 62)
          /\ fields.sizemult = FieldRef(r, 49, 47) /\ fields.rbl = FieldRef(r, 83, 80)
      <4> HIDE DEF lay, r
      <4>1. /\ fields.vers = bits(r, 127, 126) /\ fields.size = bits(r, 75, 62)
            /\ fields.sizemult = bits(r, 49, 47) /\ fields.rbl = bits(r, 83, 80)
        BY <2>1, <3>2
      <4> QED
        BY <4>1, <1>b
    <3> QED
      BY <2>2, <2>3, <3>3 DEF capacity, CapacityRef
  <2>4. CASE bits(r, 127, 126) # {}
    <3>1. lay = Join(CsdCommon, Csd1)
      BY <1>2, <2>1, <2>4 DEF Layout, None
    <3>2. /\ {"vers", "size"} \subseteq DOMAIN lay
          /\ lay["vers"] = <<127, 126>> /\ lay["size"] = <<69, 48>>
      BY <3>1 DEF Join, CsdCommon, Csd1
    <3>3. fields.vers = FieldRef(r, 127, 126) /\ fields.size = FieldRef(r, 69, 48)
      <4> HIDE DEF lay, r
      <4>1. fields.vers = bits(r, 127, 126) /\ fields.size = bits(r, 69, 48)
        BY <2>1, <3>2
      <4> QED
        BY <4>1, <1>b
    <3> QED
      BY <2>2, <2>4, <3>3 DEF capacity, CapacityRef
  <2> QED
    BY <2>3, <2>4
<1> QED
  BY <1>1, <1>2 DEF FieldsRight

\* sdcard.c: whatever the card sends, every field of more than one bit of its cid, csd
\* and scr is taken from the bits it has there, also one that lies in both words, and
\* the capacity follows from them.
THEOREM FieldsTaken == RegsSpec => []FieldsRight
<1>1. RegsInit => Parsed
  BY DEF RegsInit, Parsed
<1>2. Parsed /\ [RegsNext]_regsVars => Parsed'
  <2> SUFFICES ASSUME Parsed, [RegsNext]_regsVars PROVE Parsed'
    OBVIOUS
  <2>1. CASE UNCHANGED regsVars
    BY <2>1 DEF regsVars, Parsed
  <2>2. CASE RegsNext
    <3>1. PICK name \in {"cid", "csd", "scr"}, r \in Contents :
            reg' = [name |-> name, bits |-> r] /\ fields' = Parse(name, r)
      BY <2>2 DEF RegsNext, ReadReg
    <3> QED
      BY <3>1, ContentsAssumption DEF Parsed
  <2> QED
    BY <2>1, <2>2
<1> QED
  BY <1>1, <1>2, ParsedRight, PTL DEF RegsSpec

-----------------------------------------------------------------------------
(* devrtc.c                                                                *)

RtcSpec == RtcInit /\ [][RtcNext]_rtcVars

\* The days before a year, in a closed form.
YearRef(y) == IF y <= 1970 THEN 0 ELSE 365 * (y - 1970) + ((y - 1969) \div 4)

LEMMA YearDays == \A y \in Nat : y >= 1970 => yrdays(y) = YearRef(y + 1) - YearRef(y)
<1>1. dmsize # ldmsize
  BY DEF dmsize, ldmsize
<1>2. \A y \in Nat : yrdays(y) = IF y % 4 = 0 THEN 366 ELSE 365
  BY <1>1 DEF yrdays, yrsize
<1> QED
  BY <1>2 DEF YearRef

\* The recursion has a solution, and no other.
LEMMA YearStartRec ==
  /\ DOMAIN YearStart = Nat
  /\ \A y \in Nat :
       YearStart[y] = IF y <= 1970 THEN 0 ELSE YearStart[y - 1] + yrdays(y - 1)
<1> DEFINE Sol(f) == f = [y \in Nat |-> IF y <= 1970 THEN 0 ELSE f[y - 1] + yrdays(y - 1)]
           ref == [y \in Nat |-> YearRef(y)]
<1>1. Sol(ref)
  <2>1. \A y \in Nat : ~(y <= 1970) => y - 1 \in Nat /\ y - 1 >= 1970 /\ (y - 1) + 1 = y
    OBVIOUS
  <2>2. \A y \in Nat : ~(y <= 1970) => ref[y] = ref[y - 1] + yrdays(y - 1)
    <3>1. \A y \in Nat : YearRef(y) \in Nat
      BY DEF YearRef
    <3> QED
      BY <2>1, <3>1, YearDays
  <2>3. \A y \in Nat : y <= 1970 => ref[y] = 0
    BY DEF YearRef
  <2> QED
    BY <2>2, <2>3
<1>2. YearStart = CHOOSE f : Sol(f)
  BY DEF YearStart
<1>3. Sol(YearStart)
  BY <1>1, <1>2
<1> QED
  BY <1>3

\* A finite set of numbers has a least one, by the well-foundedness of the sets of
\* smaller elements.
LEMMA Least ==
  ASSUME NEW S, S \subseteq Nat, S # {}, IsFiniteSet(S)
  PROVE  \E x \in S : \A y \in S : x <= y
<1> DEFINE D(x) == {y \in S : y < x}
           R == StrictSubsetOrdering(S)
           T == {D(x) : x \in S}
<1>1. \A x \in S : D(x) \in SUBSET S /\ IsFiniteSet(D(x))
  BY FS_Subset
<1>2. T \subseteq FiniteSubsetsOf(S) /\ T # {}
  BY <1>1 DEF FiniteSubsetsOf
<1>3. PICK d \in T : \A e \in T : ~ (<<e, d>> \in R)
  <2> HIDE DEF T, R
  <2>1. IsWellFoundedOn(StrictSubsetOrdering(S), FiniteSubsetsOf(S))
    BY FS_StrictSubsetOrderingWellFounded
  <2> QED
    BY <2>1, <1>2, WFMin DEF R
<1>4. PICK x \in S : d = D(x)
  BY <1>3
<1>5. \A y \in S : x <= y
  <2> SUFFICES ASSUME NEW y \in S, y < x PROVE FALSE
    OBVIOUS
  <2>1. D(y) \subseteq D(x) /\ y \in D(x) /\ y \notin D(y)
    <3> HIDE DEF T, R
    <3>1. x \in Nat /\ y \in Nat
      OBVIOUS
    <3>2. \A z \in S : z < y => z < x
      BY <3>1
    <3>3. ~(y < y)
      BY <3>1
    <3> QED
      BY <3>2, <3>3, Zenon
  <2>2. <<D(y), d>> \in R
    BY <2>1, <1>1, <1>4 DEF StrictSubsetOrdering
  <2> QED
    BY <2>2, <1>3
<1> QED
  BY <1>5

\* Two functions agree where the value at each number follows from the one before.
LEMMA Agree ==
  ASSUME NEW q \in Nat, NEW f, NEW g,
         \A i \in 0 .. q : (i > 0 => f[i - 1] = g[i - 1]) => f[i] = g[i]
  PROVE  \A i \in 0 .. q : f[i] = g[i]
<1> SUFFICES ASSUME NEW k \in 0 .. q, f[k] # g[k] PROVE FALSE
  OBVIOUS
<1> DEFINE bad == {z \in 0 .. q : f[z] # g[z]}
<1>1. PICK x \in bad : \A z \in bad : x <= z
  <2>1. bad \subseteq Nat /\ bad # {}
    OBVIOUS
  <2>2. IsFiniteSet(bad)
    <3>1. IsFiniteSet(0 .. q)
      <4>1. PICK p \in Int : p = 0
        OBVIOUS
      <4>2. IsFiniteSet(p .. q)
        BY FS_Interval
      <4> QED
        BY <4>1, <4>2
    <3>2. bad \subseteq 0 .. q
      OBVIOUS
    <3> QED
      BY <3>1, <3>2, FS_Subset
  <2> HIDE DEF bad
  <2> QED
    BY <2>1, <2>2, Least
<1>2. x > 0 => f[x - 1] = g[x - 1]
  BY <1>1
<1> QED
  BY <1>1, <1>2

LEMMA YearStartIs == \A y \in Nat : YearStart[y] = YearRef(y)
<1> SUFFICES ASSUME NEW y \in Nat PROVE YearStart[y] = YearRef(y)
  OBVIOUS
<1> DEFINE ref == [z \in Nat |-> YearRef(z)]
<1>1. ASSUME NEW x \in 0 .. y, x > 0 => YearStart[x - 1] = ref[x - 1]
      PROVE  YearStart[x] = ref[x]
  <2>1. CASE x <= 1970
    BY <2>1, YearStartRec DEF YearRef
  <2>2. CASE x > 1970
    <3>1. /\ x \in Nat /\ x - 1 \in Nat /\ x - 1 >= 1970 /\ (x - 1) + 1 = x
          /\ YearRef(x) \in Int /\ YearRef(x - 1) \in Int
      BY <2>2 DEF YearRef
    <3>2. YearStart[x] = YearRef(x - 1) + yrdays(x - 1)
      BY <1>1, <2>2, <3>1, YearStartRec
    <3> QED
      BY <3>1, <3>2, YearDays
  <2> QED
    BY <2>1, <2>2
<1> HIDE DEF ref
<1>2. \A x \in 0 .. y : YearStart[x] = ref[x]
  <2>1. \A x \in 0 .. y : (x > 0 => YearStart[x - 1] = ref[x - 1]) => YearStart[x] = ref[x]
    BY <1>1
  <2> QED
    BY <2>1, Agree, Zenon
<1> QED
  BY <1>2 DEF ref

\* The days before a month, for a table of either kind.
MonthRef(y, m) ==
  IF m = 13 THEN yrdays(y) ELSE Before[m] + (IF y % 4 = 0 /\ m > 2 THEN 1 ELSE 0)

LEMMA MonthDays ==
  ASSUME NEW y \in Nat, NEW m \in 1 .. 12
  PROVE  yrsize(y)[m] = MonthRef(y, m + 1) - MonthRef(y, m)
<1>1. dmsize # ldmsize
  BY DEF dmsize, ldmsize
<1>2. yrdays(y) = IF y % 4 = 0 THEN 366 ELSE 365
  BY <1>1 DEF yrdays, yrsize
<1>3. m \in {1, 2, 3, 4, 5, 6, 7, 8, 9, 10, 11, 12}
  OBVIOUS
<1> QED
  BY <1>2, <1>3 DEF yrsize, dmsize, ldmsize, MonthRef, Before

LEMMA MonthStartIs ==
  ASSUME NEW y \in Nat
  PROVE  \A m \in 1 .. 13 : MonthStart(y, m) = MonthRef(y, m)
<1> DEFINE Sol(f) ==
             f = [i \in 0 .. 13 |-> IF i <= 1 THEN 0 ELSE f[i - 1] + yrsize(y)[i - 1]]
           ref == [i \in 0 .. 13 |-> IF i = 0 THEN 0 ELSE MonthRef(y, i)]
           sol == CHOOSE f : Sol(f)
<1>1. MonthRef(y, 1) = 0
  BY DEF MonthRef, Before
<1>2. Sol(ref)
  <2>1. \A i \in 2 .. 13 : i - 1 \in 1 .. 12 /\ (i - 1) + 1 = i
    OBVIOUS
  <2>2. \A i \in 1 .. 13 : MonthRef(y, i) \in Int
    <3>1. \A i \in 1 .. 12 : Before[i] \in Int
      BY DEF Before
    <3>2. yrdays(y) \in Int
      BY DEF yrdays
    <3> QED
      BY <3>1, <3>2 DEF MonthRef
  <2>3. \A i \in 2 .. 13 : ref[i] = ref[i - 1] + yrsize(y)[i - 1]
    BY <2>1, <2>2, MonthDays
  <2> QED
    BY <1>1, <2>3
<1>3. Sol(sol)
  BY <1>2
<1>4. \A m \in 1 .. 13 : MonthStart(y, m) = sol[m]
  BY DEF MonthStart
<1> HIDE DEF sol
<1>5. sol[0] = 0 /\ sol[1] = 0 /\ \A i \in 2 .. 13 : sol[i] = sol[i - 1] + yrsize(y)[i - 1]
  BY <1>3
<1>6. ref[0] = 0 /\ ref[1] = 0 /\ \A i \in 2 .. 13 : ref[i] = ref[i - 1] + yrsize(y)[i - 1]
  BY <1>2
<1>7. \A i \in 2 .. 13 : sol[i - 1] = ref[i - 1] => sol[i] = ref[i]
  BY <1>5, <1>6
<1> HIDE DEF ref
<1>8. \A i \in 0 .. 13 : sol[i] = ref[i]
  <2>1. PICK q \in Nat : q = 13
    OBVIOUS
  <2>2. \A i \in 0 .. q : (i > 0 => sol[i - 1] = ref[i - 1]) => sol[i] = ref[i]
    <3> SUFFICES ASSUME NEW i \in 0 .. q, i > 0 => sol[i - 1] = ref[i - 1]
                 PROVE  sol[i] = ref[i]
      OBVIOUS
    <3>1. i = 0 \/ i = 1 \/ i \in 2 .. 13
      BY <2>1
    <3> QED
      BY <1>5, <1>6, <1>7, <3>1
  <2>3. \A i \in 0 .. q : sol[i] = ref[i]
    <3>1. ASSUME NEW f, NEW g, \A i \in 0 .. q : (i > 0 => f[i - 1] = g[i - 1]) => f[i] = g[i]
          PROVE  \A i \in 0 .. q : f[i] = g[i]
      BY <3>1, Agree
    <3> QED
      BY <2>2, <3>1, Zenon
  <2> QED
    BY <2>1, <2>3
<1> QED
  BY <1>4, <1>8 DEF ref

\* Every day has its year and month, so that the loops of sec2rtc end with them.
LEMMA YearOfIs ==
  ASSUME NEW day \in Nat, 10957 <= day, day <= 47481
  PROVE  /\ YearOf(day) \in Nat /\ 2000 <= YearOf(day) /\ YearOf(day) <= 2099
         /\ YearRef(YearOf(day)) <= day /\ day < YearRef(YearOf(day) + 1)
<1> DEFINE k == (4 * day + 2) \div 1461
           years == 1970 .. 1970 + day \div 365
<1>1. 1970 + k \in years /\ YearRef(1970 + k) <= day /\ day < YearRef(1970 + k + 1)
  <2>1. k \in Nat /\ 1461 * k <= 4 * day + 2 /\ 4 * day + 2 < 1461 * (k + 1)
    OBVIOUS
  <2> HIDE DEF k
  <2> QED
    BY <2>1 DEF YearRef
<1> HIDE DEF k
<1>2. \A y \in years : y \in Nat /\ y + 1 \in Nat
  OBVIOUS
<1>3. \E y \in years : YearStart[y] <= day /\ day < YearStart[y + 1]
  BY <1>1, <1>2, YearStartIs
<1>4. PICK y : y = YearOf(day) /\ y \in years /\ YearStart[y] <= day /\ day < YearStart[y + 1]
  BY <1>3 DEF YearOf
<1>5. y \in Nat /\ YearRef(y) <= day /\ day < YearRef(y + 1)
  BY <1>2, <1>4, YearStartIs
<1>6. \A z \in Nat : z <= 2000 => YearRef(z) <= 10957
  BY DEF YearRef
<1>7. \A z \in Nat : 2100 <= z => 47482 <= YearRef(z)
  BY DEF YearRef
<1>8. 2000 <= y /\ y <= 2099
  <2>1. YearRef(y) \in Int /\ YearRef(y + 1) \in Int /\ y + 1 \in Nat
    BY <1>5 DEF YearRef
  <2>2. y + 1 > 2000
    BY <1>5, <1>6, <2>1
  <2>3. y < 2100
    BY <1>5, <1>7, <2>1
  <2> QED
    BY <1>5, <2>2, <2>3
<1> QED
  BY <1>4, <1>5, <1>8

LEMMA MonthOfIs ==
  ASSUME NEW y \in Nat, 2000 <= y, y <= 2099, NEW day \in Nat, day < yrdays(y)
  PROVE  /\ MonthOf(y, day) \in 1 .. 12
         /\ MonthRef(y, MonthOf(y, day)) <= day /\ day < MonthRef(y, MonthOf(y, day) + 1)
         /\ day - MonthRef(y, MonthOf(y, day)) + 1 \in 1 .. 31
<1>1. dmsize # ldmsize
  BY DEF dmsize, ldmsize
<1>2. yrdays(y) = IF y % 4 = 0 THEN 366 ELSE 365
  BY <1>1 DEF yrdays, yrsize
<1>3. \E m \in 1 .. 12 : MonthRef(y, m) <= day /\ day < MonthRef(y, m + 1)
  <2> DEFINE leap == IF y % 4 = 0 THEN 1 ELSE 0
  <2>1. /\ MonthRef(y, 1) = 0 /\ MonthRef(y, 2) = 31 /\ MonthRef(y, 3) = 59 + leap
        /\ MonthRef(y, 4) = 90 + leap /\ MonthRef(y, 5) = 120 + leap
        /\ MonthRef(y, 6) = 151 + leap /\ MonthRef(y, 7) = 181 + leap
        /\ MonthRef(y, 8) = 212 + leap /\ MonthRef(y, 9) = 243 + leap
        /\ MonthRef(y, 10) = 273 + leap /\ MonthRef(y, 11) = 304 + leap
        /\ MonthRef(y, 12) = 334 + leap /\ MonthRef(y, 13) = 365 + leap
    BY <1>2 DEF MonthRef, Before
  <2>2. leap \in {0, 1} /\ day < 365 + leap
    BY <1>2
  <2> HIDE DEF leap
  <2> SUFFICES ASSUME \A m \in 1 .. 12 : MonthRef(y, m) <= day => ~(day < MonthRef(y, m + 1))
               PROVE  FALSE
    OBVIOUS
  <2>3. \A m \in 1 .. 12 : MonthRef(y, m) <= day => MonthRef(y, m + 1) <= day
    <3>1. \A m \in 1 .. 13 : MonthRef(y, m) \in Int
      <4>1. \A m \in 1 .. 12 : Before[m] \in Int
        BY DEF Before
      <4> QED
        BY <1>2, <4>1 DEF MonthRef
    <3> QED
      BY <3>1
  <2>4. /\ MonthRef(y, 1) <= day => MonthRef(y, 2) <= day
        /\ MonthRef(y, 2) <= day => MonthRef(y, 3) <= day
        /\ MonthRef(y, 3) <= day => MonthRef(y, 4) <= day
        /\ MonthRef(y, 4) <= day => MonthRef(y, 5) <= day
        /\ MonthRef(y, 5) <= day => MonthRef(y, 6) <= day
        /\ MonthRef(y, 6) <= day => MonthRef(y, 7) <= day
        /\ MonthRef(y, 7) <= day => MonthRef(y, 8) <= day
        /\ MonthRef(y, 8) <= day => MonthRef(y, 9) <= day
        /\ MonthRef(y, 9) <= day => MonthRef(y, 10) <= day
        /\ MonthRef(y, 10) <= day => MonthRef(y, 11) <= day
        /\ MonthRef(y, 11) <= day => MonthRef(y, 12) <= day
        /\ MonthRef(y, 12) <= day => MonthRef(y, 13) <= day
    BY <2>3
  <2> QED
    BY <2>1, <2>2, <2>4
<1>4. \A m \in 1 .. 12 : MonthStart(y, m) = MonthRef(y, m) /\ MonthStart(y, m + 1) = MonthRef(y, m + 1)
  BY MonthStartIs
<1> DEFINE m == MonthOf(y, day)
<1>5. m \in 1 .. 12 /\ MonthStart(y, m) <= day /\ day < MonthStart(y, m + 1)
  BY <1>3, <1>4 DEF MonthOf
<1> HIDE DEF m
<1>6. MonthRef(y, m) <= day /\ day < MonthRef(y, m + 1)
  BY <1>4, <1>5
<1>7. MonthRef(y, m + 1) - MonthRef(y, m) <= 31 /\ MonthRef(y, m) \in Int /\ MonthRef(y, m + 1) \in Int
  <2>1. m \in {1, 2, 3, 4, 5, 6, 7, 8, 9, 10, 11, 12}
    BY <1>5
  <2> QED
    BY <2>1, <1>2 DEF MonthRef, Before
<1> QED
  BY <1>5, <1>6, <1>7 DEF m

\* What the registers of the clock can show.
Sixties == 0 .. 59
Hours == 0 .. 23
Days == 1 .. 31
Months == 1 .. 12
Years == 2000 .. 2099
Clock ==
  [sec : Sixties, min : Sixties, hour : Hours, mday : Days, mon : Months, year : Years]

LEMMA Powers == 2^8 = 256 /\ 2^16 = 65536 /\ 2^20 = 1048576
BY SMT

LEMMA Bcd ==
  ASSUME NEW x \in Nat, x <= 99
  PROVE  /\ dec2bcd(x) \in Nat /\ dec2bcd(x) < 160
         /\ x <= 59 => dec2bcd(x) < 90
         /\ x <= 31 => dec2bcd(x) < 50
         /\ bcd2dec(dec2bcd(x)) = x
         /\ bcd2dec(dec2bcd(x) - (dec2bcd(x) % 2)) = x - (x % 2)
<1>1. PICK t \in Nat, u \in Nat : x = 10 * t + u /\ u < 10 /\ t < 10 /\ t = x \div 10 /\ u = x % 10
  OBVIOUS
<1>2. dec2bcd(x) = t * 16 + u
  BY <1>1 DEF dec2bcd
<1>3. \A w \in Nat : w < 10 => bcd2dec(t * 16 + w) = 10 * t + w
  BY <1>1 DEF bcd2dec
<1>4. (t * 16 + u) - ((t * 16 + u) % 2) = t * 16 + (u - (u % 2)) /\ x % 2 = u % 2
  <2>1. (t * 16 + u) % 2 = u % 2 /\ (10 * t + u) % 2 = u % 2
    BY <1>1
  <2> QED
    BY <1>1, <2>1
<1>5. u - (u % 2) \in Nat /\ u - (u % 2) < 10
  BY <1>1
<1>6. PICK w \in Nat : w = u - (u % 2) /\ w < 10
  BY <1>5
<1>7. bcd2dec(t * 16 + w) = 10 * t + w /\ bcd2dec(t * 16 + u) = 10 * t + u
  BY <1>1, <1>3, <1>6
<1>8. dec2bcd(x) - (dec2bcd(x) % 2) = t * 16 + w /\ x - (x % 2) = 10 * t + w
  BY <1>1, <1>2, <1>4, <1>6
<1>9. /\ dec2bcd(x) \in Nat /\ dec2bcd(x) < 160
      /\ x <= 59 => dec2bcd(x) < 90
      /\ x <= 31 => dec2bcd(x) < 50
  BY <1>1, <1>2
<1>10. bcd2dec(dec2bcd(x)) = x
  BY <1>1, <1>2, <1>7
<1>11. bcd2dec(dec2bcd(x) - (dec2bcd(x) % 2)) = x - (x % 2)
  BY <1>7, <1>8
<1> QED
  BY <1>9, <1>10, <1>11

\* bcd2dec looks at a byte.
LEMMA ByteOnly ==
  ASSUME NEW p \in Nat, NEW q \in Nat, q < 256
  PROVE  bcd2dec(p * 256 + q) = bcd2dec(q)
<1>1. PICK c \in Nat, d \in Nat : q = 16 * c + d /\ c < 16 /\ d < 16 /\ c = q \div 16 /\ d = q % 16
  BY SMT
<1>2. p * 256 + q = 16 * (16 * p + c) + d /\ c < 16 /\ d < 16
  BY <1>1
<1>3. /\ (16 * (16 * p + c) + d) \div 16 = 16 * p + c /\ (16 * (16 * p + c) + d) % 16 = d
      /\ (16 * p + c) % 16 = c /\ c % 16 = c
  BY <1>2
<1> QED
  BY <1>1, <1>2, <1>3 DEF bcd2dec


LEMMA ClockFacts ==
  ASSUME NEW f \in Clock
  PROVE  /\ f.sec \in Nat /\ f.sec <= 59 /\ f.min \in Nat /\ f.min <= 59
         /\ f.hour \in Nat /\ f.hour <= 23 /\ f.mday \in Nat /\ f.mday <= 31
         /\ f.mon \in Nat /\ f.mon <= 12 /\ f.year - 2000 \in Nat /\ f.year - 2000 <= 99
         /\ f.year \in Nat /\ 1 <= f.mday /\ 1 <= f.mon /\ f.year <= 2099
         /\ f = [sec |-> f.sec, min |-> f.min, hour |-> f.hour, mday |-> f.mday,
                 mon |-> f.mon, year |-> f.year]
<1>1. /\ f.sec \in Sixties /\ f.min \in Sixties /\ f.hour \in Hours
      /\ f.mday \in Days /\ f.mon \in Months /\ f.year \in Years
      /\ f = [sec |-> f.sec, min |-> f.min, hour |-> f.hour, mday |-> f.mday,
              mon |-> f.mon, year |-> f.year]
  BY DEF Clock
<1> QED
  BY <1>1 DEF Sixties, Hours, Days, Months, Years

LEMMA RegsAre ==
  ASSUME NEW f \in Clock
  PROVE  /\ TimeReg(f) = dec2bcd(f.hour) * 65536 + dec2bcd(f.min) * 256 + dec2bcd(f.sec)
         /\ DateReg(f) = dec2bcd(f.year - 2000) * 65536 + dec2bcd(f.mon) * 256 + dec2bcd(f.mday)
<1> DEFINE h == f.hour
           m == dec2bcd(f.min)
           s == dec2bcd(f.sec)
<1>1. m \in Nat /\ s \in Nat /\ h \in Nat /\ h <= 23
  BY ClockFacts, Bcd
<1>2. TimeReg(f) = dec2bcd(h \div 10) * 1048576 + dec2bcd(h % 10) * 65536 + m * 256 + s
  BY Powers, SMT DEF TimeReg
<1> HIDE DEF m, s, h
<1>3. PICK t \in Nat, u \in Nat : h = 10 * t + u /\ t <= 2 /\ u < 10 /\ t = h \div 10 /\ u = h % 10
  BY <1>1
<1>4. dec2bcd(h \div 10) = t /\ dec2bcd(h % 10) = u /\ dec2bcd(h) = t * 16 + u
  BY <1>3 DEF dec2bcd
<1>5. TimeReg(f) = dec2bcd(h) * 65536 + m * 256 + s
  <2>1. TimeReg(f) = t * 1048576 + u * 65536 + m * 256 + s
    BY <1>2, <1>4, SMT
  <2>2. TimeReg(f) = (t * 16 + u) * 65536 + m * 256 + s
    BY <1>1, <2>1, SMT
  <2> QED
    BY <1>4, <2>2, SMT
<1>6. DateReg(f) = dec2bcd(f.year - 2000) * 65536 + dec2bcd(f.mon) * 256 + dec2bcd(f.mday)
  BY Powers, SMT DEF DateReg
<1> QED
  BY <1>5, <1>6 DEF h, m, s

\* The bits of a number that a mask of rtctime keeps.
LEMMA MaskMid ==
  ASSUME NEW v \in Nat, NEW h \in Nat, NEW m \in Nat, v = h * 256 + m, m < 128
  PROVE  /\ h < 128 => bcd2dec(Masked(v, 8, 14)) = bcd2dec(m)
         /\ m < 32 => bcd2dec(Masked(v, 8, 12)) = bcd2dec(m)
<1>1. PICK k \in Nat, q \in Nat : h = 32 * k + q /\ q < 32 /\ k = h \div 32 /\ q = h % 32
  BY SMT
<1>2. PICK e \in Nat, r \in Nat : q = 2 * e + r /\ r < 2 /\ e = q \div 2 /\ r = q % 2
  BY SMT
<1>3. (v \div 256) % 2 = r
  <2>1. v \div 256 = h /\ h = 2 * (16 * k + e) + r
    BY <1>1, <1>2, SMT
  <2> QED
    BY <1>2, <2>1, SMT
<1>4. h < 128 => bcd2dec(Masked(v, 8, 14)) = bcd2dec(m)
  <2> SUFFICES ASSUME h < 128 PROVE bcd2dec(Masked(v, 8, 14)) = bcd2dec(m)
    OBVIOUS
  <2>1. Masked(v, 8, 14) = (v % 32768) - ((v \div 256) % 2) * 256
    BY SMT DEF Masked
  <2>2. v % 32768 = v
    BY SMT
  <2>3. Masked(v, 8, 14) = (32 * k + 2 * e) * 256 + m
    BY <1>1, <1>2, <1>3, <2>1, <2>2, SMT
  <2>4. PICK p \in Nat : p = 32 * k + 2 * e
    OBVIOUS
  <2>5. bcd2dec(p * 256 + m) = bcd2dec(m)
    BY ByteOnly
  <2> QED
    BY <2>3, <2>4, <2>5
<1>5. m < 32 => bcd2dec(Masked(v, 8, 12)) = bcd2dec(m)
  <2> SUFFICES ASSUME m < 32 PROVE bcd2dec(Masked(v, 8, 12)) = bcd2dec(m)
    OBVIOUS
  <2>1. Masked(v, 8, 12) = (v % 8192) - ((v \div 256) % 2) * 256
    BY SMT DEF Masked
  <2>2. v = 8192 * k + (q * 256 + m) /\ q * 256 + m < 8192
    BY <1>1, SMT
  <2>3. v % 8192 = q * 256 + m
    BY <2>2, SMT
  <2>4. Masked(v, 8, 12) = (2 * e) * 256 + m
    BY <1>2, <1>3, <2>1, <2>3, SMT
  <2>5. PICK p \in Nat : p = 2 * e
    OBVIOUS
  <2>6. bcd2dec(p * 256 + m) = bcd2dec(m)
    BY ByteOnly
  <2> QED
    BY <2>4, <2>5, <2>6
<1> QED
  BY <1>4, <1>5

LEMMA MaskHigh ==
  ASSUME NEW v \in Nat, v < 256
  PROVE  (v < 64 => Masked(v, 16, 21) = v) /\ Masked(v, 16, 23) = v
BY SMT DEF Masked

\* The registers of a time, read as the clock reads them and as rtctime does.
LEMMA TimeIs ==
  ASSUME NEW f \in Clock, NEW t, t = TimeReg(f)
  PROVE  /\ bcd2dec(t % 2^7) = f.sec /\ bcd2dec((t \div 2^8) % 2^7) = f.min
         /\ bcd2dec((t \div 2^16) % 2^6) = f.hour
         /\ bcd2dec(Masked(t, 0, 6)) = f.sec - (f.sec % 2)
         /\ bcd2dec(Masked(t \div 2^8, 8, 14)) = f.min
         /\ bcd2dec(Masked(t \div 2^16, 16, 21)) = f.hour
         /\ ~RTCHour12(t)
<1>1. PICK h \in Nat, m \in Nat, s \in Nat :
        /\ h = dec2bcd(f.hour) /\ m = dec2bcd(f.min) /\ s = dec2bcd(f.sec)
        /\ h < 50 /\ m < 90 /\ s < 90
        /\ bcd2dec(h) = f.hour /\ bcd2dec(m) = f.min /\ bcd2dec(s) = f.sec
        /\ bcd2dec(s - (s % 2)) = f.sec - (f.sec % 2)
  <2>1. /\ dec2bcd(f.hour) \in Nat /\ dec2bcd(f.hour) < 50
        /\ bcd2dec(dec2bcd(f.hour)) = f.hour
    <3>1. f.hour \in Nat /\ f.hour <= 31 /\ f.hour <= 99
      BY ClockFacts
    <3> QED
      BY <3>1, Bcd
  <2>2. /\ dec2bcd(f.min) \in Nat /\ dec2bcd(f.min) < 90
        /\ bcd2dec(dec2bcd(f.min)) = f.min
    <3>1. f.min \in Nat /\ f.min <= 59 /\ f.min <= 99
      BY ClockFacts
    <3> QED
      BY <3>1, Bcd
  <2>3. /\ dec2bcd(f.sec) \in Nat /\ dec2bcd(f.sec) < 90
        /\ bcd2dec(dec2bcd(f.sec)) = f.sec
        /\ bcd2dec(dec2bcd(f.sec) - (dec2bcd(f.sec) % 2)) = f.sec - (f.sec % 2)
    <3>1. f.sec \in Nat /\ f.sec <= 59 /\ f.sec <= 99
      BY ClockFacts
    <3> QED
      BY <3>1, Bcd
  <2> QED
    BY <2>1, <2>2, <2>3
<1>2. PICK v \in Nat : v = h * 65536 + m * 256 + s
  OBVIOUS
<1>3. t = v
  BY <1>1, <1>2, RegsAre
<1>4. h < 50 /\ m < 90 /\ s < 90
  BY <1>1
<1>5. /\ v % 128 = s /\ (v \div 256) % 128 = m /\ v \div 65536 = h /\ h % 64 = h
      /\ v \div 256 = h * 256 + m
  BY <1>2, <1>4
<1>6. Masked(v, 0, 6) = s - (s % 2)
  <2>1. v % 128 = s /\ v % 2 = s % 2
    BY <1>2, <1>4
  <2> QED
    BY <2>1, SMT DEF Masked
<1>7. bcd2dec(Masked(v \div 256, 8, 14)) = bcd2dec(m)
  <2>1. PICK w \in Nat : w = h * 256 + m
    OBVIOUS
  <2>2. bcd2dec(Masked(w, 8, 14)) = bcd2dec(m)
    BY <1>4, <2>1, MaskMid
  <2> QED
    BY <1>5, <2>1, <2>2
<1>8. Masked(h, 16, 21) = h
  BY <1>4, MaskHigh
<1>9. ~RTCHour12(v)
  BY <1>2, <1>4, SMT DEF RTCHour12
<1>10. 2^6 = 64 /\ 2^7 = 128 /\ 2^8 = 256 /\ 2^16 = 65536
  BY SMT
<1>11. /\ t % 2^7 = s /\ (t \div 2^8) % 2^7 = m /\ (t \div 2^16) % 2^6 = h
       /\ t \div 2^8 = v \div 256 /\ t \div 2^16 = h
  BY <1>3, <1>5, <1>10, SMT
<1> QED
  BY <1>1, <1>3, <1>6, <1>7, <1>8, <1>9, <1>11, SMT

LEMMA DateIs ==
  ASSUME NEW f \in Clock, NEW d, d = DateReg(f)
  PROVE  /\ bcd2dec(d % 2^6) = f.mday /\ bcd2dec((d \div 2^8) % 2^5) = f.mon
         /\ bcd2dec((d \div 2^16) % 2^8) = f.year - 2000
         /\ bcd2dec(Masked(d, 0, 5)) = f.mday - (f.mday % 2)
         /\ bcd2dec(Masked(d \div 2^8, 8, 12)) = f.mon
         /\ bcd2dec(Masked(d \div 2^16, 16, 23)) = f.year - 2000
<1>1. PICK y \in Nat, m \in Nat, p \in Nat :
        /\ y = dec2bcd(f.year - 2000) /\ m = dec2bcd(f.mon) /\ p = dec2bcd(f.mday)
        /\ y < 160 /\ m < 32 /\ p < 64
        /\ bcd2dec(y) = f.year - 2000 /\ bcd2dec(m) = f.mon /\ bcd2dec(p) = f.mday
        /\ bcd2dec(p - (p % 2)) = f.mday - (f.mday % 2)
  <2>1. /\ dec2bcd(f.year - 2000) \in Nat /\ dec2bcd(f.year - 2000) < 160
        /\ bcd2dec(dec2bcd(f.year - 2000)) = f.year - 2000
    <3>1. PICK z \in Nat : z = f.year - 2000 /\ z <= 99
      BY ClockFacts
    <3>2. /\ dec2bcd(z) \in Nat /\ dec2bcd(z) < 160
          /\ bcd2dec(dec2bcd(z)) = z
      BY <3>1, Bcd
    <3> QED
      BY <3>1, <3>2
  <2>2. /\ dec2bcd(f.mon) \in Nat /\ dec2bcd(f.mon) < 32
        /\ bcd2dec(dec2bcd(f.mon)) = f.mon
    <3>1. f.mon \in Nat /\ f.mon <= 12 /\ f.mon <= 99
      BY ClockFacts
    <3>2. dec2bcd(f.mon) < 32
      BY <3>1 DEF dec2bcd
    <3> QED
      BY <3>1, <3>2, Bcd
  <2>3. /\ dec2bcd(f.mday) \in Nat /\ dec2bcd(f.mday) < 64
        /\ bcd2dec(dec2bcd(f.mday)) = f.mday
        /\ bcd2dec(dec2bcd(f.mday) - (dec2bcd(f.mday) % 2)) = f.mday - (f.mday % 2)
    <3>1. f.mday \in Nat /\ f.mday <= 31 /\ f.mday <= 99
      BY ClockFacts
    <3> QED
      BY <3>1, Bcd
  <2> QED
    BY <2>1, <2>2, <2>3
<1>2. PICK v \in Nat : v = y * 65536 + m * 256 + p
  OBVIOUS
<1>3. d = v
  BY <1>1, <1>2, RegsAre
<1>4. y < 160 /\ m < 32 /\ p < 64
  BY <1>1
<1>5. /\ v % 64 = p /\ (v \div 256) % 32 = m /\ v \div 65536 = y /\ y % 256 = y
      /\ v \div 256 = y * 256 + m
  BY <1>2, <1>4
<1>6. Masked(v, 0, 5) = p - (p % 2)
  <2>1. v = 2 * (y * 32768 + m * 128) + p
    BY <1>2
  <2>2. v % 2 = p % 2
    <3>1. PICK c \in Nat : c = y * 32768 + m * 128
      OBVIOUS
    <3>2. v = 2 * c + p
      BY <2>1, <3>1
    <3> QED
      BY <3>2
  <2> QED
    BY <1>5, <2>2, SMT DEF Masked
<1>7. bcd2dec(Masked(v \div 256, 8, 12)) = bcd2dec(m)
  <2>1. PICK w \in Nat : w = y * 256 + m
    OBVIOUS
  <2>2. bcd2dec(Masked(w, 8, 12)) = bcd2dec(m)
    BY <1>4, <2>1, MaskMid
  <2> QED
    BY <1>5, <2>1, <2>2
<1>8. Masked(y, 16, 23) = y
  BY <1>4, MaskHigh
<1>9. 2^5 = 32 /\ 2^6 = 64 /\ 2^8 = 256 /\ 2^16 = 65536
  BY SMT
<1>10. /\ d % 2^6 = p /\ (d \div 2^8) % 2^5 = m /\ (d \div 2^16) % 2^8 = y
      /\ d \div 2^8 = v \div 256 /\ d \div 2^16 = y
  BY <1>3, <1>5, <1>9, SMT
<1> QED
  BY <1>1, <1>3, <1>6, <1>7, <1>8, <1>10, SMT

LEMMA ShownIs ==
  ASSUME NEW f \in Clock
  PROVE  Shown(Registers(f)) = f
<1>1. /\ bcd2dec(TimeReg(f) % 2^7) = f.sec /\ bcd2dec((TimeReg(f) \div 2^8) % 2^7) = f.min
      /\ bcd2dec((TimeReg(f) \div 2^16) % 2^6) = f.hour
  BY TimeIs
<1>2. /\ bcd2dec(DateReg(f) % 2^6) = f.mday /\ bcd2dec((DateReg(f) \div 2^8) % 2^5) = f.mon
      /\ 2000 + bcd2dec((DateReg(f) \div 2^16) % 2^8) = f.year
  BY DateIs, ClockFacts
<1>3. Registers(f).time = TimeReg(f) /\ Registers(f).date = DateReg(f)
  BY DEF Registers
<1>4. Shown(Registers(f)) = [sec |-> f.sec, min |-> f.min, hour |-> f.hour, mday |-> f.mday,
                             mon |-> f.mon, year |-> f.year]
  BY <1>1, <1>2, <1>3 DEF Shown
<1> QED
  BY <1>4, ClockFacts

LEMMA FieldsAre ==
  ASSUME NEW f \in Clock
  PROVE  Fields(TimeReg(f), DateReg(f)) =
           [sec |-> f.sec - (f.sec % 2), min |-> f.min, hour |-> f.hour,
            mday |-> f.mday - (f.mday % 2), mon |-> f.mon, year |-> f.year]
<1>1. /\ bcd2dec(Masked(TimeReg(f), 0, 6)) = f.sec - (f.sec % 2)
      /\ bcd2dec(Masked(TimeReg(f) \div 2^8, 8, 14)) = f.min
      /\ bcd2dec(Masked(TimeReg(f) \div 2^16, 16, 21)) = f.hour
      /\ ~RTCHour12(TimeReg(f))
  BY TimeIs
<1>2. /\ bcd2dec(Masked(DateReg(f), 0, 5)) = f.mday - (f.mday % 2)
      /\ bcd2dec(Masked(DateReg(f) \div 2^8, 8, 12)) = f.mon
      /\ bcd2dec(Masked(DateReg(f) \div 2^16, 16, 23)) + 2000 = f.year
  BY DateIs, ClockFacts
<1> QED
  BY <1>1, <1>2 DEF Fields

LEMMA DayNumberIs ==
  ASSUME NEW y \in Nat, 2000 <= y, y <= 2099, NEW m \in Nat, 1 <= m, m <= 12, NEW d \in Int
  PROVE  /\ DayNumber(y, m, d) = YearRef(y) + MonthRef(y, m) + d - 1
         /\ YearRef(y) \in Int /\ MonthRef(y, m) \in Int
<1>1. Before[m] \in Int
  <2>1. m \in {1, 2, 3, 4, 5, 6, 7, 8, 9, 10, 11, 12}
    OBVIOUS
  <2> QED
    BY <2>1 DEF Before
<1>2. y > 1970 /\ m # 13
  OBVIOUS
<1>3. YearRef(y) = 365 * (y - 1970) + ((y - 1969) \div 4)
  BY <1>2 DEF YearRef
<1>4. MonthRef(y, m) = Before[m] + (IF y % 4 = 0 /\ m > 2 THEN 1 ELSE 0)
  BY <1>2 DEF MonthRef
<1>5. DayNumber(y, m, d) = 365 * (y - 1970) + ((y - 1969) \div 4) + Before[m]
                              + (IF y % 4 = 0 /\ m > 2 THEN 1 ELSE 0) + d - 1
  BY DEF DayNumber
<1> HIDE DEF Before
<1> QED
  BY <1>1, <1>3, <1>4, <1>5

\* The seconds that rtctime makes of the registers of a time.
LEMMA ReadIs ==
  ASSUME NEW f \in Clock
  PROVE  rtc2sec(Fields(TimeReg(f), DateReg(f))) =
           <<Now(Registers(f))[1] - (f.mday % 2), Now(Registers(f))[2] - (f.sec % 2)>>
<1> DEFINE g == Fields(TimeReg(f), DateReg(f))
<1>1. /\ g.sec = f.sec - (f.sec % 2) /\ g.min = f.min /\ g.hour = f.hour
      /\ g.mday = f.mday - (f.mday % 2) /\ g.mon = f.mon /\ g.year = f.year
  BY FieldsAre
<1>2. /\ f.sec \in Nat /\ f.min \in Nat /\ f.hour \in Nat /\ f.mday \in Nat
      /\ f.year \in Nat /\ f.mon \in 1 .. 13
  BY ClockFacts
<1>3. 2000 <= f.year /\ f.year <= 2099 /\ f.mon \in 1 .. 12
  BY ClockFacts
<1>4. YearStart[f.year] = YearRef(f.year) /\ MonthStart(f.year, f.mon) = MonthRef(f.year, f.mon)
  BY <1>2, YearStartIs, MonthStartIs
<1>5. Now(Registers(f)) = <<DayNumber(f.year, f.mon, f.mday), f.hour * 3600 + f.min * 60 + f.sec>>
  BY ShownIs DEF Now
<1>6. /\ DayNumber(f.year, f.mon, f.mday) = YearRef(f.year) + MonthRef(f.year, f.mon) + f.mday - 1
      /\ YearRef(f.year) \in Int /\ MonthRef(f.year, f.mon) \in Int
  <2>1. PICK y \in Nat : y = f.year /\ 2000 <= y /\ y <= 2099
    BY <1>2, <1>3
  <2>2. PICK m \in Nat : m = f.mon /\ 1 <= m /\ m <= 12
    BY ClockFacts
  <2>3. PICK p \in Nat : p = f.mday
    BY <1>2
  <2>4. 2000 <= y /\ y <= 2099 /\ 1 <= m /\ m <= 12
    BY <2>1, <2>2
  <2>5. /\ DayNumber(y, m, p) = YearRef(y) + MonthRef(y, m) + p - 1
        /\ YearRef(y) \in Int /\ MonthRef(y, m) \in Int
    BY <2>4, DayNumberIs
  <2> QED
    BY <1>2, <2>1, <2>2, <2>3, <2>5
<1>7. rtc2sec(g) = <<YearRef(f.year) + MonthRef(f.year, f.mon) + (f.mday - (f.mday % 2)) - 1,
                     f.hour * 3600 + f.min * 60 + (f.sec - (f.sec % 2))>>
  BY <1>1, <1>4 DEF rtc2sec
<1>8. /\ YearRef(f.year) + MonthRef(f.year, f.mon) + (f.mday - (f.mday % 2)) - 1
           = (YearRef(f.year) + MonthRef(f.year, f.mon) + f.mday - 1) - (f.mday % 2)
      /\ f.hour * 3600 + f.min * 60 + (f.sec - (f.sec % 2))
           = (f.hour * 3600 + f.min * 60 + f.sec) - (f.sec % 2)
  BY <1>2, <1>6
<1> QED
  BY <1>5, <1>6, <1>7, <1>8

\* The registers that setrtc writes show the time that was written.
LEMMA WriteIs ==
  ASSUME NEW n \in Nat, 10957 <= n, n <= 47481, NEW s \in Nat, s <= 86399
  PROVE  /\ sec2rtc(<<n, s>>) \in Clock
         /\ Now(Registers(sec2rtc(<<n, s>>))) = <<n, s>>
<1>1. /\ YearOf(n) \in Nat /\ 2000 <= YearOf(n) /\ YearOf(n) <= 2099
      /\ YearRef(YearOf(n)) <= n /\ n < YearRef(YearOf(n) + 1)
  BY YearOfIs
<1>2. PICK y \in Nat : y = YearOf(n)
  BY <1>1
<1>3. YearRef(y) <= n /\ n < YearRef(y + 1)
  BY <1>1, <1>2
<1>4. 2000 <= y /\ y <= 2099
  BY <1>1, <1>2
<1>5. y >= 1970 /\ YearRef(y) \in Int /\ YearRef(y + 1) \in Int
  BY <1>4 DEF YearRef
<1>6. PICK day \in Nat : day = n - YearRef(y)
  BY <1>3, <1>5
<1>7. day < yrdays(y)
  BY <1>3, <1>5, <1>6, YearDays
<1>8. /\ MonthOf(y, day) \in 1 .. 12
       /\ day - MonthRef(y, MonthOf(y, day)) + 1 \in 1 .. 31
  BY <1>4, <1>7, MonthOfIs
<1>9. PICK m \in Nat : m = MonthOf(y, day) /\ 1 <= m /\ m <= 12
  BY <1>8
<1>10. PICK p \in Nat : p = day - MonthRef(y, m) + 1 /\ 1 <= p /\ p <= 31
  BY <1>8, <1>9
<1>11. 1 <= m /\ m <= 12
  BY <1>9
<1>12. 1 <= p /\ p <= 31
  BY <1>10
<1>13. MonthStart(y, m) = MonthRef(y, m) /\ YearStart[y] = YearRef(y)
  BY <1>11, <1>5, MonthStartIs, YearStartIs
<1>14. /\ s % 60 \in 0 .. 59 /\ (s \div 60) % 60 \in 0 .. 59 /\ s \div 3600 \in 0 .. 23
      /\ (s \div 3600) * 3600 + ((s \div 60) % 60) * 60 + (s % 60) = s
  OBVIOUS
<1> DEFINE f == [sec |-> s % 60, min |-> (s \div 60) % 60, hour |-> s \div 3600,
                 mday |-> p, mon |-> m, year |-> y]
<1>15. sec2rtc(<<n, s>>) = f
  <2>1. YearOf(<<n, s>>[1]) = y /\ <<n, s>>[1] - YearStart[y] = day /\ <<n, s>>[2] = s
    BY <1>2, <1>6, <1>13
  <2>2. day - MonthStart(y, m) + 1 = p
    BY <1>10, <1>13
  <2> QED
    BY <1>9, <2>1, <2>2 DEF sec2rtc
<1>16. f \in Clock
  BY <1>14, <1>4, <1>11, <1>12 DEF Clock, Sixties, Hours, Days, Months, Years
<1>17. Now(Registers(f)) = <<DayNumber(y, m, p), s>>
  <2>1. f.hour * 3600 + f.min * 60 + f.sec = s /\ f.year = y /\ f.mon = m /\ f.mday = p
    BY <1>14
  <2> HIDE DEF f
  <2> QED
    BY <1>16, <2>1, ShownIs DEF Now
<1> HIDE DEF f
<1>18. DayNumber(y, m, p) = YearRef(y) + MonthRef(y, m) + p - 1 /\ MonthRef(y, m) \in Int
  BY <1>4, <1>11, DayNumberIs
<1>19. YearRef(y) + MonthRef(y, m) + p - 1 = n
  BY <1>5, <1>6, <1>10, <1>18
<1> QED
  BY <1>15, <1>16, <1>17, <1>18, <1>19

\* The clock shows a time after every tick.
LEMMA NextIs ==
  ASSUME NEW f \in Clock
  PROVE  NextSecond(f) \in Clock
<1>1. \A g \in Clock :
        /\ \A n \in Sixties : [g EXCEPT !.sec = n] \in Clock
        /\ \A n \in Sixties : [g EXCEPT !.min = n] \in Clock
        /\ \A n \in Hours : [g EXCEPT !.hour = n] \in Clock
        /\ \A n \in Days : [g EXCEPT !.mday = n] \in Clock
        /\ \A n \in Months : [g EXCEPT !.mon = n] \in Clock
        /\ \A n \in Years : [g EXCEPT !.year = n] \in Clock
  BY DEF Clock
<1>2. \A g \in Clock : NextDay(g) \in Clock
  <2> SUFFICES ASSUME NEW g \in Clock PROVE NextDay(g) \in Clock
    OBVIOUS
  <2>1. g.mday < MonthLen(g.year, g.mon) => g.mday + 1 \in Days
    <3>1. /\ g.mon \in {1, 2, 3, 4, 5, 6, 7, 8, 9, 10, 11, 12}
          /\ g.mday \in Nat /\ 1 <= g.mday /\ g.mday <= 31
      BY ClockFacts
    <3>2. MonthLen(g.year, g.mon) \in Int /\ MonthLen(g.year, g.mon) <= 31
      BY <3>1 DEF MonthLen, Before
    <3> QED
      BY <3>1, <3>2 DEF Days
  <2>2. g.mon < 12 => g.mon + 1 \in Months
    BY ClockFacts DEF Months
  <2>3. (IF g.year = 2099 THEN 2000 ELSE g.year + 1) \in Years
    BY ClockFacts DEF Years
  <2>4. 1 \in Days /\ 1 \in Months
    BY DEF Days, Months
  <2>5. CASE g.mday < MonthLen(g.year, g.mon)
    BY <1>1, <2>1, <2>5 DEF NextDay
  <2>6. CASE ~(g.mday < MonthLen(g.year, g.mon)) /\ g.mon < 12
    <3>1. NextDay(g) = [g EXCEPT !.mday = 1, !.mon = g.mon + 1]
      BY <2>6 DEF NextDay
    <3> QED
      BY <2>2, <2>4, <2>6, <3>1 DEF Clock
  <2>7. CASE ~(g.mday < MonthLen(g.year, g.mon)) /\ ~(g.mon < 12)
    <3>1. NextDay(g) = [g EXCEPT !.mday = 1, !.mon = 1,
                                 !.year = IF g.year = 2099 THEN 2000 ELSE g.year + 1]
      BY <2>7 DEF NextDay
    <3> DEFINE g1 == [g EXCEPT !.mday = 1, !.mon = 1]
               n == IF g.year = 2099 THEN 2000 ELSE g.year + 1
    <3>2. g1 \in Clock
      BY <2>4 DEF Clock
    <3>3. NextDay(g) = [g1 EXCEPT !.year = n]
      BY <3>1
    <3> HIDE DEF g1, n
    <3>4. n \in Years
      BY <2>3 DEF n
    <3> QED
      BY <1>1, <3>2, <3>3, <3>4, Zenon
  <2> QED
    BY <2>5, <2>6, <2>7
<1>3. PICK s \in Nat : s = (f.hour * 3600 + f.min * 60 + f.sec + 1) % 86400
  <2>1. f.hour * 3600 + f.min * 60 + f.sec + 1 \in Nat
    BY ClockFacts
  <2> QED
    BY <2>1
<1>4. s <= 86399
  <2>1. PICK n \in Nat : n = f.hour * 3600 + f.min * 60 + f.sec + 1
    BY ClockFacts
  <2>2. n % 86400 <= 86399
    OBVIOUS
  <2> QED
    BY <1>3, <2>1, <2>2
<1>5. s \div 3600 \in Hours /\ (s \div 60) % 60 \in Sixties /\ s % 60 \in Sixties
  BY <1>4 DEF Hours, Sixties
<1>6. \A p \in Hours, q \in Sixties, c \in Sixties :
        [f EXCEPT !.hour = p, !.min = q, !.sec = c] \in Clock
  <2> SUFFICES ASSUME NEW p \in Hours, NEW q \in Sixties, NEW c \in Sixties
               PROVE  [f EXCEPT !.hour = p, !.min = q, !.sec = c] \in Clock
    OBVIOUS
  <2> DEFINE g1 == [f EXCEPT !.hour = p, !.min = q]
  <2>1. g1 \in Clock
    BY DEF Clock
  <2>2. [f EXCEPT !.hour = p, !.min = q, !.sec = c] = [g1 EXCEPT !.sec = c]
    OBVIOUS
  <2> HIDE DEF g1
  <2> QED
    BY <1>1, <2>1, <2>2, Zenon
<1> DEFINE at(z) == [f EXCEPT !.hour = z \div 3600, !.min = (z \div 60) % 60, !.sec = z % 60]
<1>7. at(s) \in Clock
  <2>1. PICK p \in Hours, q \in Sixties, c \in Sixties :
          p = s \div 3600 /\ q = (s \div 60) % 60 /\ c = s % 60
    BY <1>5
  <2>2. at(s) = [f EXCEPT !.hour = p, !.min = q, !.sec = c]
    BY <2>1
  <2>3. [f EXCEPT !.hour = p, !.min = q, !.sec = c] \in Clock
    BY <1>6, Zenon
  <2> HIDE DEF at
  <2> QED
    BY <2>2, <2>3
<1> DEFINE next(z) == IF z = 0 THEN NextDay(at(z)) ELSE at(z)
<1>8. NextSecond(f) = next((f.hour * 3600 + f.min * 60 + f.sec + 1) % 86400)
  BY SMT DEF NextSecond
<1> HIDE DEF at
<1>9. next(s) \in Clock
  BY <1>2, <1>7
<1> HIDE DEF next
<1> QED
  BY <1>3, <1>8, <1>9

\* The times are those that a two-digit year can say: 2000 to 2099.
Century == \A t \in Times : 10957 <= t[1] /\ t[1] <= 47481

LEMMA TimesAre ==
  ASSUME Century, NEW t \in Times
  PROVE  sec2rtc(t) \in Clock /\ Now(Registers(sec2rtc(t))) = t
<1>1. PICK n \in Nat, s \in Nat : t = <<n, s>>
  BY RtcAssumption
<1>2. t[1] = n /\ t[2] = s
  BY <1>1
<1>3. 10957 <= t[1] /\ t[1] <= 47481 /\ t[2] < 86400
  BY RtcAssumption DEF Century
<1>4. 10957 <= n /\ n <= 47481 /\ s <= 86399
  BY <1>2, <1>3
<1>5. sec2rtc(<<n, s>>) \in Clock /\ Now(Registers(sec2rtc(<<n, s>>))) = <<n, s>>
  BY <1>4, WriteIs
<1> QED
  BY <1>1, <1>5, Zenon

\* Registers of which each is one of a time are those of a time.
LEMMA MixIs ==
  ASSUME NEW f \in Clock, NEW g \in Clock
  PROVE  \E e \in Clock : [time |-> TimeReg(f), date |-> DateReg(g)] = Registers(e)
<1> DEFINE e == [sec |-> f.sec, min |-> f.min, hour |-> f.hour, mday |-> g.mday,
                 mon |-> g.mon, year |-> g.year]
<1>1. e \in Clock
  BY DEF Clock
<1>2. TimeReg(e) = TimeReg(f) /\ DateReg(e) = DateReg(g)
  <2>1. e.sec = f.sec /\ e.min = f.min /\ e.hour = f.hour /\ e.mday = g.mday /\ e.mon = g.mon
        /\ e.year = g.year
    OBVIOUS
  <2> HIDE DEF e
  <2> QED
    BY <2>1 DEF TimeReg, DateReg
<1>3. [time |-> TimeReg(f), date |-> DateReg(g)] = Registers(e)
  BY <1>2 DEF Registers
<1> HIDE DEF e
<1> QED
  BY <1>1, <1>3

\* Every register is one of a time; the writer's fields are those of its time; and as
\* long as the read is not torn the date is the one there was when it read the time.
RtcInv ==
  /\ \E f \in Clock : rtc = Registers(f)
  /\ \E f \in Clock : rtcAt = Registers(f)
  /\ wr = Idle \/ \E t \in Times : wr = [pc |-> "date", secs |-> t, f |-> sec2rtc(t)]
  /\ torn \in BOOLEAN
  /\ rd.pc = "date" => rd.t = rtcAt.time
  /\ rd.pc = "date" /\ ~torn => rtcAt.date = rtc.date
  /\ rd.pc = "done" /\ ~torn => rd.t = rtc2sec(Fields(rtcAt.time, rtcAt.date))

LEMMA RtcStart ==
  ASSUME Century
  PROVE  RtcInit => RtcInv
<1> SUFFICES ASSUME RtcInit PROVE RtcInv
  OBVIOUS
<1>1. PICK t \in Times : rtc = Registers(sec2rtc(t))
  BY DEF RtcInit
<1>2. sec2rtc(t) \in Clock
  BY TimesAre
<1>3. rd = Idle /\ wr = Idle /\ rtcAt = rtc /\ torn = FALSE
  BY DEF RtcInit
<1> QED
  BY <1>1, <1>2, <1>3 DEF RtcInv, Idle

LEMMA RtcStep ==
  ASSUME Century, RtcInv, [RtcNext]_rtcVars
  PROVE  RtcInv'
<1>1. PICK f \in Clock : rtc = Registers(f)
  BY DEF RtcInv
<1>2. PICK g \in Clock : rtcAt = Registers(g)
  BY DEF RtcInv
<1>3. /\ wr = Idle \/ \E t \in Times : wr = [pc |-> "date", secs |-> t, f |-> sec2rtc(t)]
      /\ torn \in BOOLEAN
      /\ rd.pc = "date" => rd.t = rtcAt.time
      /\ rd.pc = "date" /\ ~torn => rtcAt.date = rtc.date
      /\ rd.pc = "done" /\ ~torn => rd.t = rtc2sec(Fields(rtcAt.time, rtcAt.date))
  BY DEF RtcInv
<1>4. CASE Tick
  <2>1. rtc' = Registers(NextSecond(f)) /\ NextSecond(f) \in Clock
    BY <1>1, <1>4, ShownIs, NextIs DEF Tick
  <2>2. /\ torn' = (torn \/ rtc'.date # rtc.date)
        /\ rd' = rd /\ wr' = wr /\ rtcAt' = rtcAt
    BY <1>4 DEF Tick
  <2> QED
    BY <1>2, <1>3, <2>1, <2>2 DEF RtcInv
<1>5. CASE ReadTime
  BY <1>1, <1>3, <1>5 DEF ReadTime, RtcInv
<1>6. CASE ReadDate
  <2>1. /\ rd.pc = "date" /\ rd' = [pc |-> "done", t |-> rtc2sec(Fields(rd.t, rtc.date))]
        /\ rtc' = rtc /\ wr' = wr /\ rtcAt' = rtcAt /\ torn' = torn
    BY <1>6 DEF ReadDate
  <2>2. rd'.pc = "done" /\ rd'.t = rtc2sec(Fields(rd.t, rtc.date))
    BY <2>1
  <2>3. ~torn => rd'.t = rtc2sec(Fields(rtcAt.time, rtcAt.date))
    BY <1>3, <2>1, <2>2
  <2> QED
    BY <1>1, <1>2, <1>3, <2>1, <2>2, <2>3 DEF RtcInv
<1>7. CASE ReadEnd
  BY <1>1, <1>3, <1>7 DEF ReadEnd, RtcInv, Idle
<1>8. CASE WriteTime
  <2>1. PICK t \in Times :
          /\ wr' = [pc |-> "date", secs |-> t, f |-> sec2rtc(t)]
          /\ rtc' = [rtc EXCEPT !.time = TimeReg(sec2rtc(t))]
    BY <1>8 DEF WriteTime
  <2>2. torn' = TRUE /\ rd' = rd /\ rtcAt' = rtcAt
    BY <1>8 DEF WriteTime
  <2>3. rtc' = [time |-> TimeReg(sec2rtc(t)), date |-> DateReg(f)]
    BY <1>1, <2>1 DEF Registers
  <2>4. \E e \in Clock : rtc' = Registers(e)
    <3>1. sec2rtc(t) \in Clock
      BY TimesAre
    <3> QED
      BY <2>3, <3>1, MixIs
  <2> QED
    BY <1>2, <1>3, <2>1, <2>2, <2>4 DEF RtcInv
<1>9. CASE WriteDate
  <2>1. /\ wr.pc = "date" /\ rtc' = [rtc EXCEPT !.date = DateReg(wr.f)] /\ wr' = Idle
        /\ torn' = TRUE /\ rd' = rd /\ rtcAt' = rtcAt
    BY <1>9 DEF WriteDate
  <2>2. PICK t \in Times : wr = [pc |-> "date", secs |-> t, f |-> sec2rtc(t)]
    BY <1>3, <2>1 DEF Idle
  <2>3. rtc' = [time |-> TimeReg(f), date |-> DateReg(sec2rtc(t))]
    BY <1>1, <2>1, <2>2 DEF Registers
  <2>4. \E e \in Clock : rtc' = Registers(e)
    <3>1. sec2rtc(t) \in Clock
      BY TimesAre
    <3> QED
      BY <2>3, <3>1, MixIs
  <2> QED
    BY <1>2, <1>3, <2>1, <2>4 DEF RtcInv
<1>10. CASE UNCHANGED rtcVars
  BY <1>1, <1>2, <1>3, <1>10 DEF rtcVars, RtcInv
<1> QED
  BY <1>4, <1>5, <1>6, <1>7, <1>8, <1>9, <1>10 DEF RtcNext

\* ReadShown, devrtc.c:128: a read returns the time the clock showed when it began, but
\* for the lowest bit of the second and of the day, unless the day changed or a time was
\* written during it.
THEOREM TimeRead ==
  ASSUME Century
  PROVE  RtcSpec => []ReadShown
<1>1. RtcInv => ReadShown
  <2> SUFFICES ASSUME RtcInv, rd.pc = "done", ~torn
               PROVE  LET n == Now(rtcAt)
                          f == Shown(rtcAt)
                      IN rd.t = <<n[1] - (f.mday % 2), n[2] - (f.sec % 2)>>
    BY DEF ReadShown
  <2>1. PICK f \in Clock : rtcAt = Registers(f)
    BY DEF RtcInv
  <2>2. rtcAt.time = TimeReg(f) /\ rtcAt.date = DateReg(f) /\ Shown(rtcAt) = f
    BY <2>1, ShownIs DEF Registers
  <2>3. rd.t = rtc2sec(Fields(TimeReg(f), DateReg(f)))
    BY <2>2 DEF RtcInv
  <2>4. rd.t = <<Now(rtcAt)[1] - (f.mday % 2), Now(rtcAt)[2] - (f.sec % 2)>>
    BY <2>1, <2>3, ReadIs
  <2> QED
    BY <2>2, <2>4
<1> QED
  BY <1>1, RtcStart, RtcStep, PTL DEF RtcSpec

\* WriteShown, devrtc.c:159: a time that is written is the one the clock shows when both
\* registers are, unless it ticked or was written by another in between.
THEOREM TimeWritten ==
  ASSUME Century
  PROVE  RtcSpec => WriteShown
<1>1. RtcInv /\ [RtcNext]_rtcVars
        => [WriteDate /\ rtc.time = TimeReg(wr.f) => Now(rtc') = wr.secs]_rtcVars
  <2> SUFFICES ASSUME RtcInv, WriteDate, rtc.time = TimeReg(wr.f)
               PROVE  Now(rtc') = wr.secs
    OBVIOUS
  <2>1. wr.pc = "date" /\ rtc' = [rtc EXCEPT !.date = DateReg(wr.f)]
    BY DEF WriteDate
  <2>2. PICK t \in Times : wr = [pc |-> "date", secs |-> t, f |-> sec2rtc(t)]
    BY <2>1 DEF RtcInv, Idle
  <2>3. PICK f \in Clock : rtc = Registers(f)
    BY DEF RtcInv
  <2>4. rtc' = Registers(sec2rtc(t))
    BY <2>1, <2>2, <2>3 DEF Registers
  <2>5. Now(rtc') = t /\ wr.secs = t
    BY <2>2, <2>4, TimesAre
  <2> QED
    BY <2>5
<1> QED
  BY <1>1, RtcStart, RtcStep, PTL DEF RtcSpec, WriteShown

=============================================================================
