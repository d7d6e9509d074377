-------------------------------- MODULE Nand --------------------------------
(***************************************************************************)
(* kwnand.c: erasezone, write and read of the NAND flash.  Each polls the  *)
(* chip's status a bounded number of times; the chip may take longer, fail *)
(* a page, and lose bits.  The caller (the flash device) makes one call at *)
(* a time.  A page is 2048 bytes in Chunks parts, each with its own error- *)
(* correcting code in the spare bytes; a block is 64 pages.                *)
(***************************************************************************)
EXTENDS Integers, FiniteSets

CONSTANTS
  Offsets,     \* offsets a caller may pass
  Sizes,       \* sizes a caller may pass
  Writes,      \* contents a caller may write
  Chunks,      \* parts of a page (8 of 256 bytes)
  MaxStatus,   \* status polls (100)
  MaxFlips,    \* bits that get lost (bound)
  MaxOps       \* calls (bound)

ASSUME NandAssumption == Offsets \subseteq Nat /\ Sizes \subseteq Nat /\ MaxStatus \in Nat
ASSUME NandBounds == MaxFlips \in Nat /\ MaxOps \in Nat /\ Chunks \in Nat

PageSize == 2048
BlockSize == 128 * 1024
Erased == "erased"
Mixed == "mixed"       \* programmed twice, or erase or program failed
PageOf(off) == off \div PageSize
BlockOf(page) == page \div 64
Pages == {PageOf(off) : off \in Offsets}

VARIABLES
  npc,         \* "idle", "status", "poll", "read" or "done"
  op,          \* the call: kind, page and contents
  nres,        \* what it returned: 0 or -1, and for a read the page read
  npolls,
  chip,        \* "ready" or the operation it is busy with
  sfail,       \* SFail
  page,        \* the contents of each page
  flips,       \* bits lost in each part of each page, data and code together
  good,        \* history: what each page must hold, or Mixed when not known
  before,      \* history: the same when the last command was sent
  nflips, nops

nandVars == <<npc, op, nres, npolls, chip, sfail, page, flips, good, before, nflips, nops>>

NoOp == [kind |-> "none", page |-> 0, v |-> Erased]
NoRes == [r |-> 0, v |-> Erased, busy |-> FALSE]
Clean == [c \in 1 .. Chunks |-> 0]

\* The chip may come with any contents; what was written before is erased here.
NandInit ==
  /\ npc = "idle" /\ op = NoOp /\ nres = NoRes /\ npolls = 0
  /\ chip = NoOp /\ sfail = FALSE
  /\ page = [p \in Pages |-> Erased]
  /\ flips = [p \in Pages |-> Clean]
  /\ good = [p \in Pages |-> Erased] /\ before = good
  /\ nflips = 0 /\ nops = 0

Return(r, v, busy) ==
  /\ npc' = "done"
  /\ nres' = [r |-> r, v |-> v, busy |-> busy]

\* Only whole blocks are erased, and whole pages written and read.
Aligned(kind, off, n) ==
  IF kind = "erase" THEN off % BlockSize = 0 ELSE off % PageSize = 0 /\ n = PageSize

\* A call: a bad offset or size is refused; an erase and a write look at the
\* status first, a read does not.
Op ==
  /\ npc = "idle" /\ nops < MaxOps
  /\ nops' = nops + 1
  /\ \E kind \in {"erase", "write", "read"}, off \in Offsets, n \in Sizes :
       /\ \E v \in IF kind = "write" THEN Writes ELSE {Erased} :
            op' = [kind |-> kind, page |-> PageOf(off), v |-> v]
       /\ IF Aligned(kind, off, n)
          THEN npc' = (IF kind = "read" THEN "read" ELSE "status") /\ UNCHANGED nres
          ELSE Return(-1, Erased, FALSE)
  /\ UNCHANGED <<npolls, chip, sfail, page, flips, good, before, nflips>>

\* The pages a command changes.
Target(o) ==
  IF o.kind = "write" THEN {o.page} \cap Pages
  ELSE {p \in Pages : BlockOf(p) = BlockOf(o.page)}

\* What the pages must hold once o has been done, if they held g: a page is
\* written once after an erase.
Holds(o, g) ==
  [p \in Pages |->
     IF p \notin Target(o) THEN g[p]
     ELSE IF o.kind = "erase" THEN Erased
     ELSE IF g[p] = Erased THEN o.v ELSE Mixed]

\* Until that is known the pages are in doubt.
Doubt(o) == [p \in Pages |-> IF p \in Target(o) THEN Mixed ELSE good[p]]

\* Readstatus: a chip that is not idle and ready is left alone; else the command
\* and the address are sent.
Status ==
  /\ npc = "status"
  /\ IF chip # NoOp
     THEN Return(-1, Erased, FALSE) /\ UNCHANGED <<chip, sfail, npolls, good, before>>
     ELSE /\ chip' = op /\ sfail' = FALSE /\ npolls' = 0 /\ npc' = "poll"
          /\ good' = Doubt(op) /\ before' = good /\ UNCHANGED nres
  /\ UNCHANGED <<op, page, flips, nflips, nops>>

\* Mutant: SFail is not looked at.
PollReady_nofail ==
  /\ npc = "poll" /\ chip = NoOp
  /\ Return(0, Erased, FALSE) /\ good' = Holds(op, before)
  /\ UNCHANGED <<op, npolls, chip, sfail, page, flips, before, nflips, nops>>

\* Ready: done, or failed.
PollReady ==
  /\ npc = "poll" /\ chip = NoOp
  /\ IF sfail THEN Return(-1, Erased, FALSE) /\ UNCHANGED good
              ELSE Return(0, Erased, FALSE) /\ good' = Holds(op, before)
  /\ UNCHANGED <<op, npolls, chip, sfail, page, flips, before, nflips, nops>>

\* Not ready: another turn, or a timeout with the chip still at work.
PollBusy ==
  /\ npc = "poll" /\ chip # NoOp
  /\ IF npolls + 1 >= MaxStatus THEN Return(-1, Erased, FALSE) /\ UNCHANGED npolls
                                ELSE npolls' = npolls + 1 /\ UNCHANGED <<npc, nres>>
  /\ UNCHANGED <<op, chip, sfail, page, flips, good, before, nflips, nops>>

\* nandecccorrect: one lost bit in a part is put right, two are bad.
Correctable(fl) == \A c \in 1 .. Chunks : fl[c] <= 1

\* What the caller's buffer holds after the correction.
Corrected(p) == IF \A c \in 1 .. Chunks : flips[p][c] <= 1 THEN page[p] ELSE Mixed

\* The page and its spare bytes are read and corrected.  The code of a page that
\* was programmed twice may fit or not, and a busy chip answers anything.
Read ==
  /\ npc = "read"
  /\ \/ /\ chip = NoOp
        /\ Correctable(flips[op.page]) \/ page[op.page] = Mixed
        /\ Return(0, Corrected(op.page), FALSE)
     \/ /\ chip = NoOp
        /\ ~Correctable(flips[op.page]) \/ page[op.page] = Mixed
        /\ Return(-1, Mixed, FALSE)
     \/ /\ chip # NoOp
        /\ \E v \in Writes, r \in {0, -1} : Return(r, v, TRUE)
  /\ UNCHANGED <<op, npolls, chip, sfail, page, flips, good, before, nflips, nops>>

NandDone ==
  /\ npc = "done"
  /\ npc' = "idle" /\ op' = NoOp /\ nres' = NoRes
  /\ UNCHANGED <<npolls, chip, sfail, page, flips, good, before, nflips, nops>>

-----------------------------------------------------------------------------
(* The chip                                                                *)

\* A command ends, well or badly; a page can be programmed once.
ChipDone ==
  /\ chip # NoOp
  /\ \E ok \in BOOLEAN :
       /\ page' = [p \in Pages |->
            IF p \notin Target(chip) THEN page[p]
            ELSE IF ~ok THEN Mixed
            ELSE IF chip.kind = "erase" THEN Erased
            ELSE IF page[p] = Erased \/ page[p] = chip.v THEN chip.v ELSE Mixed]
       /\ flips' = [p \in Pages |-> IF p \in Target(chip) THEN Clean ELSE flips[p]]
       /\ sfail' = ~ok
  /\ chip' = NoOp
  /\ UNCHANGED <<npc, op, nres, npolls, good, before, nflips, nops>>

\* A bit is lost, at most two in one part of a page.
Flip ==
  /\ nflips < MaxFlips
  /\ \E p \in Pages, c \in 1 .. Chunks :
       /\ flips[p][c] < 2
       /\ flips' = [flips EXCEPT ![p][c] = @ + 1]
  /\ nflips' = nflips + 1
  /\ UNCHANGED <<npc, op, nres, npolls, chip, sfail, page, good, before, nops>>

NandNext ==
  \/ Op \/ Status \/ PollReady \/ PollBusy \/ Read \/ NandDone
  \/ ChipDone \/ Flip

-----------------------------------------------------------------------------
(* Properties                                                              *)

\* A page that was written once after an erase, both with success, holds what was
\* written until a call is made that may change it, whatever calls failed or
\* timed out since; and a read that returns 0 returns it, with lost bits put
\* right, unless the chip is still busy with a call that timed out.
FlashRight ==
  /\ \A p \in Pages : good[p] # Mixed => page[p] = good[p]
  /\ npc = "done" /\ op.kind = "read" /\ nres.r = 0 /\ ~nres.busy =>
       good[op.page] \in {Mixed, nres.v}

=============================================================================
