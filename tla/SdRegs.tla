------------------------------- MODULE SdRegs -------------------------------
(***************************************************************************)
(* sdcard.c: the fields of the 128-bit registers of an SD card, and the    *)
(* capacity sdinit of kwsdio.c computes from them.  A register is the set  *)
(* of the positions of its bits that are set, and so is a number; r[3] of  *)
(* bits() holds the register in 64-bit words, the low one last.            *)
(***************************************************************************)
EXTENDS Integers, FiniteSetsExt

CONSTANT Contents   \* contents of a register the card may send

ASSUME ContentsAssumption == Contents \subseteq SUBSET (0 .. 127)

VARIABLES reg,      \* the register last read: its name and contents
          fields    \* what was made of it: no fields before the first, or if refused

regsVars == <<reg, fields>>

Number(s) == MapThenSumSet(LAMBDA i : 2^i, s)
None == [f \in {} |-> {}]

\* Bits l .. l+n-1 of word w of r, moved to bit o.
Take64(r, w, l, n, o) == {o + i : i \in {i \in 0 .. n - 1 : 64 * (2 - w) + l + i \in r}}

\* A turn of the loop of bits(): it ends when h is not more than l, also when one
\* bit is left to take.
Turn(r, s) ==
  IF ~(s.h > s.l /\ s.l >= 0) THEN s
  ELSE LET n == IF s.l < 64 THEN (IF s.h < 63 THEN s.h ELSE 63) - s.l + 1 ELSE 0
       IN [w |-> s.w - 1, h |-> s.h - 64, l |-> s.l + n - 64, o |-> s.o + n,
           v |-> s.v \cup Take64(r, s.w, s.l, n, s.o)]

\* Mutant: the part of a field in the next word is not moved up.
bits_noshift(r, h, l) ==
  LET one == Turn(r, [w |-> 2, h |-> h, l |-> l, o |-> 0, v |-> {}])
  IN Turn(r, [one EXCEPT !.o = 0]).v

\* After two turns h is negative, as the registers have 128 bits.
bits(r, h, l) == Turn(r, Turn(r, [w |-> 2, h |-> h, l |-> l, o |-> 0, v |-> {}])).v

\* parsecid, parsecsd and parsescr: the high and low bit of each field.
CidFields ==
  [mon |-> <<11, 8>>, year10 |-> <<19, 16>>, year1 |-> <<15, 12>>, serial |-> <<55, 24>>,
   rev |-> <<63, 56>>, prod0 |-> <<103, 96>>, prod1 |-> <<95, 88>>, prod2 |-> <<87, 80>>,
   prod3 |-> <<79, 72>>, prod4 |-> <<71, 64>>, oid0 |-> <<119, 112>>,
   oid1 |-> <<111, 104>>, mid |-> <<127, 120>>]

CsdCommon ==
  [vers |-> <<127, 126>>, taac |-> <<119, 112>>, nsac |-> <<111, 104>>,
   speed |-> <<103, 96>>, ccc |-> <<95, 84>>, rbl |-> <<83, 80>>, rbpart |-> <<79, 79>>,
   wbmalign |-> <<78, 78>>, rbmalign |-> <<77, 77>>, dsr |-> <<76, 76>>,
   eraseblk |-> <<46, 46>>, erasesecsz |-> <<45, 39>>, wpgrpsize |-> <<38, 32>>,
   wpgrp |-> <<31, 31>>, speedfactor |-> <<28, 26>>, wbl |-> <<25, 22>>,
   wbpart |-> <<21, 21>>, ffgrp |-> <<15, 15>>, copy |-> <<14, 14>>,
   permwp |-> <<13, 13>>, tmpwp |-> <<12, 12>>, ff |-> <<11, 10>>]

Csd0 ==
  [size |-> <<75, 62>>, vddrmin |-> <<61, 59>>, vddrmax |-> <<58, 56>>,
   vddwmin |-> <<55, 53>>, vddwmax |-> <<52, 50>>, sizemult |-> <<49, 47>>]

Csd1 == [size |-> <<69, 48>>]

ScrFields ==
  [vers |-> <<63, 60>>, spec |-> <<59, 56>>, dataerased |-> <<55, 55>>,
   sec |-> <<54, 52>>, buswidth |-> <<51, 48>>]

Join(f, g) == [x \in DOMAIN f \cup DOMAIN g |-> IF x \in DOMAIN f THEN f[x] ELSE g[x]]

\* The version of a csd decides which fields it has; others than 0 and 1 are refused.
Layout(name, r) ==
  CASE name = "cid" -> CidFields
    [] name = "scr" -> ScrFields
    [] name = "csd" /\ bits(r, 127, 126) = {} -> Join(CsdCommon, Csd0)
    [] name = "csd" /\ bits(r, 127, 126) = {0} -> Join(CsdCommon, Csd1)
    [] OTHER -> None

Parse(name, r) ==
  LET lay == Layout(name, r) IN [f \in DOMAIN lay |-> bits(r, lay[f][1], lay[f][2])]

\* sdinit: Card.size as a mantissa and a power of 2.
capacity(f) ==
  IF f.vers = {} THEN <<Number(f.size) + 1, Number(f.sizemult) + 2 + Number(f.rbl)>>
                 ELSE <<Number(f.size) + 1, 9 + 10>>

RegsInit == reg = [name |-> "none", bits |-> {}] /\ fields = None

\* sdcmd 2 or 9 answered (nothing reads the scr yet).  The registers do not depend
\* on each other, so one of them is followed.
ReadReg ==
  /\ reg.name = "none"
  /\ \E name \in {"cid", "csd", "scr"}, r \in Contents :
       /\ reg' = [name |-> name, bits |-> r]
       /\ fields' = Parse(name, r)

RegsNext == ReadReg

-----------------------------------------------------------------------------
(* Properties                                                              *)

\* Bits h to l of a register, inclusive, as a number.
FieldRef(r, h, l) == {i - l : i \in r \cap (l .. h)}

\* The capacity of the physical layer specification: the device size is in bits
\* 73 to 62 of the csd, with two more that are 0 above it, or in 69 to 48.
CapacityRef ==
  LET N(h, l) == Number(FieldRef(reg.bits, h, l)) IN
  IF FieldRef(reg.bits, 127, 126) = {}
  THEN <<N(75, 62) + 1, N(49, 47) + 2 + N(83, 80)>>
  ELSE <<N(69, 48) + 1, 19>>

\* Every field of more than one bit is what the card sent, also one that lies
\* in two words, and the capacity of the disk follows from them.  A field of one
\* bit is not: the loop of bits ends before it has taken any.
FieldsRight ==
  /\ \A f \in DOMAIN fields :
       LET at == Layout(reg.name, reg.bits)[f] IN
       at[1] > at[2] => fields[f] = FieldRef(reg.bits, at[1], at[2])
  /\ reg.name = "csd" /\ DOMAIN fields # {} => capacity(fields) = CapacityRef

=============================================================================
