---------------------------- MODULE StorageProofs ----------------------------
(***************************************************************************)
(* Theorems about a Store on an SD card: sdinit (SdInit), sdioio (SdIo),   *)
(* partinit (Partition) and the io of devbs.c on what partinit found       *)
(* (Disk).  They run one at a time (BlockStore), and each theorem is about *)
(* one of the specifications.                                              *)
(***************************************************************************)
EXTENDS SdInit, SdIo, Disk, TLAPS

-----------------------------------------------------------------------------
(* sdinit                                                                  *)

CardStates == {"idle", "ready", "ident", "stby", "tran"}

\* What the steps after CMD3 and ACMD41 rely on: the host has the address the card
\* has, and knows how it is addressed.
CardInv ==
  /\ card \in [kind : Cards, state : CardStates, power : Nat, rca : BOOLEAN]
  /\ step \in {"cmd9", "cmd7", "acmd6", "cmd16"} => rca = card.rca
  /\ step \in {"cmd2", "cmd3", "cmd9", "cmd7", "acmd6", "cmd16"} =>
       sdhc = (card.kind = "sdhc")

LEMMA CardInitInv == CardInit => CardInv
BY PowerAssumption DEF CardInit, CardInv, NewCard, CardStates

LEMMA CardNextInv == CardInv /\ [CardNext]_cardVars => CardInv'
<1> SUFFICES ASSUME CardInv, [CardNext]_cardVars PROVE CardInv'
  OBVIOUS
<1>t. card \in [kind : Cards, state : CardStates, power : Nat, rca : BOOLEAN]
  BY DEF CardInv
<1> USE DEF At, Then, Ok, Failed, NoAnswer, Error, host, line
<1>a. ASSUME NEW c, Abort(c) PROVE CardInv'
  BY <1>a DEF Abort, CardInv
<1>1. CASE Start
  BY <1>1 DEF Start, CardInv
<1>2. CASE Cmd0 \/ Cmd0b
  <2>1. Reset => card' \in [kind : Cards, state : CardStates, power : Nat, rca : BOOLEAN]
    BY <1>t DEF Reset, CardStates
  <2> QED
    BY <1>2, <2>1, <1>a DEF Cmd0, Cmd0b, CardInv
<1>3. CASE Cmd8
  BY <1>3, <1>t DEF Cmd8, CardInv
<1>4. CASE Acmd41
  <2>1. CASE Ok("acmd41") /\ CardReady /\ card' = [card EXCEPT !.state = "ready"]
             /\ sdhc' = HighCapacity /\ Then("cmd2")
    BY <2>1, <1>t DEF HighCapacity, CardInv, CardStates
  <2>2. CASE card' = [card EXCEPT !.power = IF @ = 0 THEN 0 ELSE @ - 1]
             /\ NotReady /\ At("acmd41")
    <3>1. card' \in [kind : Cards, state : CardStates, power : Nat, rca : BOOLEAN]
      BY <2>2, <1>t
    <3> QED
      BY <2>2, <3>1 DEF NotReady, CardInv
  <2>3. CASE Then("off") /\ UNCHANGED card
    BY <2>3 DEF CardInv
  <2> QED
    BY <1>4, <2>1, <2>2, <2>3 DEF Acmd41
<1>5. CASE Cmd2
  BY <1>5, <1>t, <1>a DEF Cmd2, CardInv, CardStates
<1>6. CASE Cmd3
  <2>1. CASE Abort("cmd3")
    BY <2>1, <1>a
  <2>2. CASE Ok("cmd3") /\ ~Abort("cmd3")
    <3>1. PICK r \in IF ZeroRca THEN BOOLEAN ELSE {TRUE} :
            /\ card' = [card EXCEPT !.state = "stby", !.rca = r]
            /\ rca' = r
            /\ r => step' = "cmd9"
            /\ ~r => step' \in {"off", "cmd3"}
      BY <1>6, <2>2 DEF Cmd3
    <3>2. r \in BOOLEAN
      OBVIOUS
    <3>3. /\ card' \in [kind : Cards, state : CardStates, power : Nat, rca : BOOLEAN]
          /\ card'.rca = rca' /\ card'.kind = card.kind
      BY <3>1, <3>2, <1>t DEF CardStates
    <3>4. step = "cmd3" /\ sdhc' = sdhc
      BY <1>6 DEF Cmd3, Abort
    <3> QED
      BY <3>1, <3>3, <3>4 DEF CardInv
  <2> QED
    BY <1>6, <2>1, <2>2 DEF Cmd3
<1>7. CASE Cmd9 \/ Acmd6 \/ Cmd16
  BY <1>7, <1>a DEF Cmd9, Acmd6, Cmd16, CardInv
<1>8. CASE Cmd7
  BY <1>8, <1>t, <1>a DEF Cmd7, CardInv, CardStates
<1>9. CASE Swap
  BY <1>9, PowerAssumption DEF Swap, NewCard, CardInv, CardStates
<1>10. CASE UNCHANGED cardVars
  BY <1>10 DEF cardVars, CardInv
<1> QED
  BY <1>1, <1>2, <1>3, <1>4, <1>5, <1>6, <1>7, <1>8, <1>9, <1>10 DEF CardNext, Command

\* kwsdio.c: whatever card was there before, whatever failed and however often
\* CMD3 had to be sent again, a card that sdinit declares valid is selected, has
\* the address the host uses, and is addressed in its own unit.
THEOREM CardsValid == CardSpec => ValidRight
<1>1. CardInv /\ [CardNext]_cardVars =>
        [~valid /\ valid' => /\ card.state = "tran"
                             /\ rca = card.rca
                             /\ sdhc = (card.kind = "sdhc")]_cardVars
  <2> SUFFICES ASSUME CardInv, CardNext, ~valid, valid'
               PROVE  card.state = "tran" /\ rca = card.rca /\ sdhc = (card.kind = "sdhc")
    BY DEF cardVars
  <2>1. Cmd16 /\ ~Abort("cmd16")
    BY DEF CardNext, Start, Command, Cmd0, Cmd8, Cmd0b, Acmd41, Cmd2, Cmd3, Cmd9, Cmd7,
           Acmd6, Cmd16, Swap, Abort, host
  <2>2. step = "cmd16" /\ card.state = "tran"
    BY <2>1 DEF Cmd16, At, Ok, Answers
  <2> QED
    BY <2>2 DEF CardInv
<1> QED
  BY <1>1, CardInitInv, CardNextInv, PTL DEF CardSpec, ValidRight

-----------------------------------------------------------------------------
(* partinit                                                                *)

PartTypes ==
  /\ \E S : parts \in Seq(S)
  /\ \A i \in 1 .. Len(parts) : parts[i].s \in Nat /\ parts[i].size \in Nat
  /\ cur \in Nat /\ cur >= 2 /\ end \in Nat
  /\ phase \in {"plan9", "line"} => end <= Len(parts)
  /\ phase = "line" => cur <= end

\* Only the partitions of the MBR are in the whole disk itself; they end where they
\* should.
MbrEnds == \A i \in 2 .. Len(parts) : parts[i].up = 1 => parts[i].e = parts[i].s + parts[i].size

\* They passed the check against those before them: p does not have the start of
\* an earlier o, nor its end.
Passed(o, p) == o.s \notin p.s .. (p.e - 1) /\ o.e \notin (p.s + 1) .. p.e

MbrPassed ==
  \A i, j \in 2 .. Len(parts) :
    i < j /\ parts[i].up = 1 /\ parts[j].up = 1 => Passed(parts[i], parts[j])

PartInv == PartTypes /\ MbrEnds /\ MbrPassed

\* A partition is added at the end.
LEMMA PartAdded ==
  ASSUME PartInv, NEW p, parts' = Append(parts, p), UNCHANGED <<phase, cur, end>>,
         p.s \in Nat, p.size \in Nat,
         p.up = 1 => /\ p.e = p.s + p.size
                     /\ \A i \in 2 .. Len(parts) : Passed(parts[i], p)
  PROVE  PartInv'
<1>1. PICK S : parts \in Seq(S)
  BY DEF PartInv, PartTypes
<1>2. /\ parts' \in Seq(S \cup {p}) /\ Len(parts) \in Nat
      /\ Len(parts') = Len(parts) + 1 /\ parts'[Len(parts) + 1] = p
      /\ \A i \in 1 .. Len(parts) : parts'[i] = parts[i]
  <2>1. parts \in Seq(S \cup {p})
    BY <1>1
  <2> QED
    BY <2>1
<1>3. PartTypes'
  <2>1. \A i \in 1 .. Len(parts') : parts'[i].s \in Nat /\ parts'[i].size \in Nat
    BY <1>2 DEF PartInv, PartTypes
  <2>2. phase \in {"plan9", "line"} => end <= Len(parts')
    BY <1>2 DEF PartInv, PartTypes
  <2> QED
    BY <1>2, <2>1, <2>2 DEF PartInv, PartTypes
<1>4. MbrEnds'
  BY <1>2 DEF PartInv, MbrEnds
<1>5. MbrPassed'
  <2> SUFFICES ASSUME NEW i \in 2 .. Len(parts'), NEW j \in 2 .. Len(parts'), i < j,
                      parts'[i].up = 1, parts'[j].up = 1
               PROVE  Passed(parts'[i], parts'[j])
    BY DEF MbrPassed, Passed
  <2>1. i \in 2 .. Len(parts) /\ parts'[i] = parts[i]
    BY <1>2
  <2>2. CASE j = Len(parts) + 1
    BY <1>2, <2>1, <2>2
  <2>3. CASE j \in 2 .. Len(parts)
    <3>1. parts'[j] = parts[j]
      BY <1>2, <2>3
    <3> QED
      BY <2>1, <2>3, <3>1 DEF PartInv, MbrPassed
  <2> QED
    BY <1>2, <2>2, <2>3
<1> QED
  BY <1>3, <1>4, <1>5 DEF PartInv

LEMMA ErrorInv ==
  ASSUME PartInv, TableError
  PROVE  PartInv'
<1>0. parts' = <<Data>> /\ phase' = "error" /\ cur' = cur /\ end' = end
  BY DEF TableError
<1>1. parts' \in Seq({Data}) /\ Len(parts') = 1 /\ parts'[1] = Data
  BY <1>0
<1>2. \E S : parts' \in Seq(S)
  BY <1>1
<1>3. Data.s \in Nat /\ Data.size \in Nat
  BY SizeAssumption DEF Data
<1>4. PartTypes'
  BY <1>0, <1>1, <1>2, <1>3 DEF PartInv, PartTypes
<1> QED
  BY <1>1, <1>4 DEF PartInv, MbrEnds, MbrPassed

LEMMA PartInitInv == PartInit => PartInv
<1> SUFFICES ASSUME PartInit PROVE PartInv
  OBVIOUS
<1>1. parts \in Seq({Data}) /\ Len(parts) = 1 /\ parts[1] = Data
  BY DEF PartInit
<1>2. \E S : parts \in Seq(S)
  BY <1>1
<1>3. Data.s \in Nat /\ Data.size \in Nat
  BY SizeAssumption DEF Data
<1>4. PartTypes
  BY <1>1, <1>2, <1>3 DEF PartInit, PartTypes
<1> QED
  BY <1>1, <1>4 DEF PartInv, MbrEnds, MbrPassed

LEMMA PartNextInv == PartInv /\ [PartNext]_partVars => PartInv'
<1> SUFFICES ASSUME PartInv, [PartNext]_partVars PROVE PartInv'
  OBVIOUS
<1>t. PartTypes
  BY DEF PartInv
<1>l. Len(parts) \in Nat
  BY <1>t DEF PartTypes
<1>s. ASSUME parts' = parts, PartTypes' PROVE PartInv'
  BY <1>s DEF PartInv, MbrEnds, MbrPassed
<1>1. CASE MbrEntry
  <2>1. PICK typ \in Types, s0 \in Numbers, size \in Numbers :
          IF typ = "none" THEN UNCHANGED <<parts, phase, cur, end>>
          ELSE IF ~partcheck(s0, s0 + size, 1, DiskSize) THEN TableError
          ELSE /\ \E nm \in partname(typ, slot) :
                    parts' = Append(parts, [name |-> nm, typ |-> typ, s |-> s0,
                                            e |-> s0 + size, size |-> size, up |-> 1])
               /\ UNCHANGED <<phase, cur, end>>
    BY <1>1 DEF MbrEntry
  <2>2. CASE typ # "none" /\ partcheck(s0, s0 + size, 1, DiskSize)
    <3>1. PICK nm : parts' = Append(parts, [name |-> nm, typ |-> typ, s |-> s0,
                                            e |-> s0 + size, size |-> size, up |-> 1])
      BY <2>1, <2>2
    <3> DEFINE p == [name |-> nm, typ |-> typ, s |-> s0, e |-> s0 + size, size |-> size,
                     up |-> 1]
    <3>2. s0 \in Nat /\ size \in Nat
      BY NumbersAssumption
    <3>3. \A i \in 2 .. Len(parts) : Passed(parts[i], p)
      <4>1. \A i \in (1 + 1) .. Len(parts) :
              ~(parts[i].s \in s0 .. ((s0 + size) - 1) \/ parts[i].e \in (s0 + 1) .. (s0 + size))
        BY <2>2 DEF partcheck
      <4> QED
        BY <4>1, <3>2 DEF Passed
    <3>4. UNCHANGED <<phase, cur, end>> /\ parts' = Append(parts, p)
      BY <2>1, <2>2, <3>1
    <3>5. p.s \in Nat /\ p.size \in Nat /\ p.e = p.s + p.size
      BY <3>2
    <3> HIDE DEF p
    <3> QED
      BY <3>3, <3>4, <3>5, PartAdded
  <2>3. CASE typ = "none"
    BY <2>1, <2>3, <1>t, <1>s DEF PartTypes
  <2> QED
    BY <2>1, <2>2, <2>3, ErrorInv
<1>2. CASE Line
  <2>1. PICK nm \in SubNames, s0 \in Numbers, e0 \in Numbers :
          IF ~partcheck(s0, e0, cur, parts[cur].size) THEN TableError
          ELSE /\ \E gn \in partgenname(nm, nm) :
                    parts' = Append(parts,
                      [name |-> gn, typ |-> "none", s |-> Moved(s0, cur),
                       e |-> e0 + parts[cur].e, size |-> e0 - s0, up |-> cur])
               /\ UNCHANGED <<phase, cur, end>>
    BY <1>2 DEF Line
  <2>2. CASE partcheck(s0, e0, cur, parts[cur].size)
    <3>1. PICK gn : parts' = Append(parts,
                      [name |-> gn, typ |-> "none", s |-> Moved(s0, cur),
                       e |-> e0 + parts[cur].e, size |-> e0 - s0, up |-> cur])
      BY <2>1, <2>2
    <3> DEFINE p == [name |-> gn, typ |-> "none", s |-> Moved(s0, cur),
                     e |-> e0 + parts[cur].e, size |-> e0 - s0, up |-> cur]
    <3>2. s0 \in Nat /\ e0 \in Nat /\ s0 <= e0
      BY <2>2, NumbersAssumption DEF partcheck
    <3>3. cur \in 1 .. Len(parts) /\ cur # 1
      BY <1>2, <1>t, <1>l DEF Line, PartTypes
    <3>4. p.s \in Nat /\ p.size \in Nat /\ p.up # 1
      BY <3>2, <3>3, <1>t DEF Moved, PartTypes
    <3>5. UNCHANGED <<phase, cur, end>> /\ parts' = Append(parts, p)
      BY <2>1, <2>2, <3>1
    <3> HIDE DEF p
    <3> QED
      BY <3>4, <3>5, PartAdded
  <2> QED
    BY <2>1, <2>2, ErrorInv
<1>3. CASE (Plan9 \/ LineEnd) /\ ~TableError
  BY <1>3, <1>t, <1>l, <1>s DEF Plan9, LineEnd, PartTypes
<1>4. CASE MbrEnd \/ Plan9Skip \/ Done \/ UNCHANGED partVars
  BY <1>4, <1>t, <1>l, <1>s DEF MbrEnd, Plan9Skip, Done, partVars, PartTypes
<1> QED
  BY <1>1, <1>2, <1>3, <1>4, ErrorInv DEF PartNext, Plan9, LineEnd

LEMMA InSectors ==
  ASSUME NEW u \in Nat, NEW n0 \in Nat, NEW x, x \in u .. (u + n0 - 1)
  PROVE  x \in Int /\ u <= x /\ x < u + n0
OBVIOUS

\* part.c: whatever the MBR says, a partition that partcheck lets overlap with an
\* earlier one lies strictly inside it.
THEOREM OverlapsWithin == PartSpec => []OverlapOnlyWithin
<1>1. PartInv => OverlapOnlyWithin
  <2> SUFFICES ASSUME PartInv, NEW i \in 2 .. Len(parts), NEW j \in 2 .. Len(parts), i < j,
                      parts[i].up = 1, parts[j].up = 1, Overlap(parts[i], parts[j])
               PROVE  parts[i].s < parts[j].s /\ parts[j].e < parts[i].e
    BY DEF OverlapOnlyWithin
  <2>0. i \in 1 .. Len(parts) /\ j \in 1 .. Len(parts)
    <3>1. PartTypes
      BY DEF PartInv
    <3>2. Len(parts) \in Nat
      BY <3>1 DEF PartTypes
    <3> QED
      BY <3>2
  <2>1. /\ parts[i].s \in Nat /\ parts[i].size \in Nat
        /\ parts[j].s \in Nat /\ parts[j].size \in Nat
        /\ parts[i].e = parts[i].s + parts[i].size
        /\ parts[j].e = parts[j].s + parts[j].size
    BY <2>0 DEF PartInv, PartTypes, MbrEnds
  <2>2. Passed(parts[i], parts[j])
    BY DEF PartInv, MbrPassed
  <2>3. PICK x : /\ x \in parts[i].s .. (parts[i].s + parts[i].size - 1)
                 /\ x \in parts[j].s .. (parts[j].s + parts[j].size - 1)
    BY DEF Overlap
  <2>4. /\ parts[i].s <= x /\ x < parts[i].e /\ x \in Int
        /\ parts[j].s <= x /\ x < parts[j].e
        /\ parts[i].e \in Nat /\ parts[j].e \in Nat
    <3>1. parts[i].s <= x /\ x < parts[i].s + parts[i].size /\ x \in Int
      BY <2>1, <2>3, InSectors
    <3>2. parts[j].s <= x /\ x < parts[j].s + parts[j].size
      BY <2>1, <2>3, InSectors
    <3> QED
      BY <2>1, <3>1, <3>2
  <2>5. /\ ~(parts[j].s <= parts[i].s /\ parts[i].s <= parts[j].e - 1)
        /\ ~(parts[j].s + 1 <= parts[i].e /\ parts[i].e <= parts[j].e)
    BY <2>1, <2>2, <2>4 DEF Passed
  <2> QED
    BY <2>1, <2>4, <2>5
<1> QED
  BY <1>1, PartInitInv, PartNextInv, PTL DEF PartSpec

-----------------------------------------------------------------------------
(* io of devbs.c                                                           *)

Aligned(x) == x % Align = 0

LEMMA ModRange ==
  ASSUME NEW x \in Int
  PROVE  x % Align \in 0 .. (Align - 1)
BY AlignAssumption

\* x & ~alignmask is the last multiple that is not greater.
LEMMA DownRight ==
  ASSUME NEW x \in Int
  PROVE  Down(x) \in Int /\ Down(x) <= x /\ x - Down(x) < Align /\ x - Down(x) = x % Align
BY ModRange, AlignAssumption DEF Down

LEMMA Multiple ==
  ASSUME NEW k \in Int, NEW r \in 0 .. (Align - 1)
  PROVE  (Align * k + r) % Align = r
BY AlignAssumption

LEMMA AlignedIs ==
  ASSUME NEW x \in Int
  PROVE  Aligned(x) <=> \E k \in Int : x = Align * k
<1>1. x = Align * (x \div Align) + (x % Align) /\ x \div Align \in Int
  BY AlignAssumption
<1>2. \A k \in Int : (Align * k + 0) % Align = 0
  BY Multiple, AlignAssumption
<1> QED
  BY <1>1, <1>2, AlignAssumption DEF Aligned

LEMMA AlignedSum ==
  ASSUME NEW x \in Int, NEW y \in Int, Aligned(x), Aligned(y)
  PROVE  Aligned(x + y) /\ Aligned(x - y)
<1>1. PICK k \in Int : x = Align * k
  BY AlignedIs
<1>2. PICK l \in Int : y = Align * l
  BY AlignedIs
<1>3. x + y = Align * (k + l) /\ x - y = Align * (k - l)
  BY <1>1, <1>2, AlignAssumption
<1> QED
  BY <1>3, AlignedIs

LEMMA AlignedSectors ==
  ASSUME NEW k \in Nat
  PROVE  k * Align \in Nat /\ Aligned(k * Align)
<1>1. k * Align \in Nat /\ k * Align = Align * k
  BY AlignAssumption
<1> QED
  BY <1>1, AlignedIs

\* Rounding up reaches the end of a range, and is nothing for a whole one.
LEMMA UpRight ==
  ASSUME NEW x \in Int, NEW c \in Int
  PROVE  /\ Up(x, c) \in Int /\ Up(x, c) >= c + (x % Align)
         /\ Aligned(x) /\ Aligned(c) => Up(x, c) = c
<1>1. x % Align \in 0 .. (Align - 1)
  BY ModRange
<1>2. Up(x, c) \in Int /\ Up(x, c) >= c + (x % Align)
  <2> DEFINE y == c + (x % Align) + Align - 1
  <2>1. y \in Int
    BY <1>1, AlignAssumption
  <2>2. Down(y) \in Int /\ y - Down(y) < Align
    BY <2>1, DownRight
  <2>3. Down(y) >= c + (x % Align)
    BY <1>1, <2>1, <2>2, AlignAssumption
  <2> QED
    BY <2>2, <2>3 DEF Up
<1>3. ASSUME Aligned(x), Aligned(c) PROVE Up(x, c) = c
  <2>1. PICK k \in Int : c = Align * k
    BY <1>3, AlignedIs
  <2>2. (c + 0 + Align - 1) % Align = Align - 1
    BY <2>1, Multiple, AlignAssumption
  <2> QED
    BY <1>3, <2>2, AlignAssumption DEF Up, Down, Aligned
<1> QED
  BY <1>2, <1>3

\* The range of a request that is not refused.
LEMMA RangeRight ==
  ASSUME NEW p, p.s \in Nat, p.size \in Nat,
         NEW r, r.p = p, r.n \in Nat, r.off \in Nat
  PROVE  /\ First(r) \in Nat /\ Count(r) \in Nat
         /\ Count(r) > 0 => First(r) = p.s + r.off /\ r.off < p.size
         /\ Count(r) <= r.n
         /\ Count(r) > 0 => Count(r) = (IF r.off + r.n > p.size THEN p.size ELSE r.off + r.n) - r.off
         /\ Count(r) = 0 => r.n = 0 \/ r.off >= p.size
BY DEF First, Count, Clamp

\* part.c's partitions as io takes them.
LEMMA RequestRight ==
  ASSUME PartTypes, NEW write, NEW r \in Requests(write)
  PROVE  /\ r.p.s \in Nat /\ r.p.size \in Nat /\ Aligned(r.p.s) /\ Aligned(r.p.size)
         /\ r.n \in Nat /\ r.off \in Nat /\ r.write = write /\ ~Refused(r)
<1>1. /\ r \in [p : {InBytes(parts[i]) : i \in 1 .. Len(parts)}, write : {write},
                n : -1 .. MaxN, off : -1 .. MaxOff]
      /\ ~Refused(r)
  BY DEF Requests
<1>2. PICK i \in 1 .. Len(parts) : r.p = InBytes(parts[i])
  BY <1>1
<1>3. parts[i].s \in Nat /\ parts[i].size \in Nat
  BY DEF PartTypes
<1>4. r.n \in Nat /\ r.off \in Nat
  BY <1>1, RequestsAssumption DEF Refused
<1>5. r.p.s = parts[i].s * Align /\ r.p.size = parts[i].size * Align
  BY <1>2 DEF InBytes
<1>6. /\ r.p.s \in Nat /\ Aligned(r.p.s)
      /\ r.p.size \in Nat /\ Aligned(r.p.size)
  BY <1>3, <1>5, AlignedSectors
<1> QED
  BY <1>1, <1>4, <1>6

LEMMA ReadsRight ==
  ASSUME PartTypes, NEW r \in Requests(FALSE), NEW did \in Transfers(r)
  PROVE  /\ \A i \in DOMAIN Filled(r, did) :
              i \in Wanted(r) /\ Filled(r, did)[i] = r.p.s + r.off + i
         /\ did = DevCount(r) => Wanted(r) \subseteq DOMAIN Filled(r, did)
<1>r. /\ r.p.s \in Nat /\ r.p.size \in Nat /\ r.n \in Nat /\ r.off \in Nat
  BY RequestRight
<1> DEFINE f == First(r)
           c == Count(r)
           m == f % Align
<1>1. /\ f \in Nat /\ c \in Nat
      /\ c > 0 => f = r.p.s + r.off /\ r.off < r.p.size
      /\ c <= r.n
      /\ c > 0 => c = (IF r.off + r.n > r.p.size THEN r.p.size ELSE r.off + r.n) - r.off
      /\ c = 0 => r.n = 0 \/ r.off >= r.p.size
  BY <1>r, RangeRight
<1>2. m \in 0 .. (Align - 1)
  BY <1>1, ModRange
<1>3. DevFirst(r) = f - m /\ Skipped(r) = m
  BY <1>1, <1>2 DEF DevFirst, Skipped, Down
<1>4. DevCount(r) \in Int /\ DevCount(r) >= c + m
  BY <1>1, UpRight DEF DevCount
<1>5. did \in Nat /\ did <= DevCount(r)
  BY <1>4 DEF Transfers
<1> DEFINE ret == Returned(r, did)
<1>6. CASE Bounced(r)
  <2>1. ret = IF did - m < 0 THEN 0 ELSE IF c < did - m THEN c ELSE did - m
    BY <1>3, <1>6 DEF Returned, Got
  <2>2. /\ DOMAIN Filled(r, did) = 0 .. (ret - 1)
        /\ \A i \in 0 .. (ret - 1) : Filled(r, did)[i] = DevFirst(r) + i + Skipped(r)
    BY <1>6 DEF Filled
  <2>3. ret \in Nat /\ ret <= c /\ (did = DevCount(r) => ret = c)
    BY <2>1, <1>1, <1>2, <1>4, <1>5
  <2> HIDE DEF f, c, m, ret
  <2>4. \A i \in 0 .. (ret - 1) : i \in Wanted(r) /\ Filled(r, did)[i] = r.p.s + r.off + i
    <3> SUFFICES ASSUME NEW i \in 0 .. (ret - 1)
                 PROVE  i \in Wanted(r) /\ Filled(r, did)[i] = r.p.s + r.off + i
      OBVIOUS
    <3>1. i \in Nat /\ i < c
      BY <2>3, <1>1
    <3>2. f = r.p.s + r.off /\ i < r.n /\ r.off + i < r.p.size
      BY <3>1, <1>r, <1>1
    <3>3. i \in Wanted(r)
      BY <3>1, <3>2, <1>r DEF Wanted
    <3>4. Filled(r, did)[i] = f + i
      BY <2>2, <3>1, <1>1, <1>2, <1>3
    <3> QED
      BY <3>2, <3>3, <3>4
  <2>5. c = ret => Wanted(r) \subseteq 0 .. (ret - 1)
    BY <1>r, <1>1, <2>3 DEF Wanted
  <2> QED
    BY <2>2, <2>3, <2>4, <2>5
<1>7. CASE ~Bounced(r)
  <2>1. m = 0 /\ DevCount(r) = c /\ ret = did
    BY <1>1, <1>2, <1>3, <1>7 DEF Bounced, Returned
  <2>2. /\ DOMAIN Filled(r, did) = 0 .. (ret - 1)
        /\ \A i \in 0 .. (ret - 1) : Filled(r, did)[i] = DevFirst(r) + i + 0
    BY <1>7 DEF Filled
  <2>3. ret \in Nat /\ ret <= c /\ (did = DevCount(r) => ret = c)
    BY <2>1, <1>5
  <2> HIDE DEF f, c, m, ret
  <2>4. \A i \in 0 .. (ret - 1) : i \in Wanted(r) /\ Filled(r, did)[i] = r.p.s + r.off + i
    <3> SUFFICES ASSUME NEW i \in 0 .. (ret - 1)
                 PROVE  i \in Wanted(r) /\ Filled(r, did)[i] = r.p.s + r.off + i
      OBVIOUS
    <3>1. i \in Nat /\ i < c
      BY <2>3, <1>1
    <3>2. f = r.p.s + r.off /\ i < r.n /\ r.off + i < r.p.size
      BY <3>1, <1>r, <1>1
    <3>3. i \in Wanted(r)
      BY <3>1, <3>2, <1>r DEF Wanted
    <3>4. Filled(r, did)[i] = f + i
      BY <2>2, <3>1, <1>1, <1>2, <1>3, <2>1
    <3> QED
      BY <3>2, <3>3, <3>4
  <2>5. c = ret => Wanted(r) \subseteq 0 .. (ret - 1)
    BY <1>r, <1>1, <2>3 DEF Wanted
  <2> QED
    BY <2>2, <2>3, <2>4, <2>5
<1> QED
  BY <1>6, <1>7

LEMMA WritesRight ==
  ASSUME PartTypes, NEW r \in Requests(TRUE), NEW did \in Transfers(r)
  PROVE  /\ ~Bounced(r)
         /\ \A x \in DOMAIN Written(r, did) :
              /\ Written(r, did)[x] \in Wanted(r)
              /\ x = r.p.s + r.off + Written(r, did)[x]
         /\ Returned(r, did) = did
<1>r. /\ r.p.s \in Nat /\ r.p.size \in Nat /\ r.n \in Nat /\ r.off \in Nat
      /\ Aligned(r.p.s) /\ Aligned(r.p.size) /\ Aligned(r.off) /\ Aligned(r.n)
  BY RequestRight DEF Refused, Aligned
<1>1. /\ First(r) \in Nat /\ Count(r) \in Nat
      /\ Count(r) > 0 => First(r) = r.p.s + r.off /\ r.off < r.p.size
      /\ Count(r) <= r.n
      /\ Count(r) > 0 =>
           Count(r) = (IF r.off + r.n > r.p.size THEN r.p.size ELSE r.off + r.n) - r.off
  BY <1>r, RangeRight
<1>2. Aligned(First(r)) /\ Aligned(Count(r))
  <2> DEFINE o == r.off
             k == r.n
             x == Clamp(o, r.p.size)
             y == Clamp(o + k, r.p.size)
             z == r.p.s
  <2>1. Aligned(o + k) /\ o + k \in Nat
    <3>1. o \in Nat /\ k \in Nat /\ Aligned(o) /\ Aligned(k)
      BY <1>r
    <3> HIDE DEF o, k
    <3> QED
      BY <3>1, AlignedSum
  <2>2. x \in Nat /\ Aligned(x) /\ y \in Nat /\ Aligned(y)
    BY <1>r, <2>1 DEF Clamp
  <2>3. z \in Nat /\ Aligned(z)
    BY <1>r
  <2>4. Aligned(x + z) /\ Aligned(y - x)
    <3> HIDE DEF x, y, z
    <3>1. Aligned(x + z)
      BY <2>2, <2>3, AlignedSum
    <3>2. Aligned(y - x)
      BY <2>2, AlignedSum
    <3> QED
      BY <3>1, <3>2
  <2> QED
    BY <2>4 DEF First, Count
<1>3. DevFirst(r) = First(r) /\ DevCount(r) = Count(r)
  BY <1>1, <1>2, UpRight DEF DevFirst, DevCount, Down, Aligned
<1>4. ~Bounced(r) /\ Returned(r, did) = did /\ did \in Nat /\ did <= Count(r)
  BY <1>1, <1>3 DEF Bounced, Returned, Transfers
<1>5. /\ DOMAIN Written(r, did) = First(r) .. (First(r) + did - 1)
      /\ \A x \in First(r) .. (First(r) + did - 1) : Written(r, did)[x] = x - First(r)
  BY <1>3 DEF Written
<1>6. \A x \in First(r) .. (First(r) + did - 1) :
        x - First(r) \in Wanted(r) /\ x = r.p.s + r.off + (x - First(r))
  BY <1>r, <1>1, <1>4 DEF Wanted
<1> QED
  BY <1>4, <1>5, <1>6

LEMMA TypesHold == PartSpec => []PartTypes
<1>1. PartInv => PartTypes
  BY DEF PartInv
<1> QED
  BY <1>1, PartInitInv, PartNextInv, PTL DEF PartSpec

\* devbs.c: whatever the tables on the disk say and whatever offset and count are
\* asked for, a read of a partition file fills the buffer with the bytes of that
\* range, in order, and with no others; and with all of them unless the device
\* does less.
THEOREM DiskReads == PartSpec => []ReadRight
<1>1. PartTypes => ReadRight
  BY ReadsRight DEF ReadRight
<1> QED
  BY <1>1, TypesHold, PTL

\* A write puts each byte where it belongs and touches nothing else; its range is
\* whole blocks, so the buffer of its own is never written to the disk.
THEOREM DiskWrites == PartSpec => []WriteRight
<1>1. PartTypes => WriteRight
  BY WritesRight DEF WriteRight
<1> QED
  BY <1>1, TypesHold, PTL

-----------------------------------------------------------------------------
(* sdioio and sdcmd                                                        *)

Bits == {"cmd", "dma", "error"}
Kinds == {"app", "erase", "data"}
Waits == {"enable", "readback", "sleep", "check"}
Locked == {"busy", "clear", "issue", "next"} \cup Waits
Places == {"idle", "lock", "return"} \cup Locked

SdTypes ==
  /\ qlock \in Procs \cup {NoProc}
  /\ pc \in [Procs -> Places]
  /\ n \in [Procs -> Nat] /\ h \in [Procs -> Nat]
  /\ kind \in [Procs -> Kinds]
  /\ s \in [Procs -> BOOLEAN] /\ v \in [Procs -> SUBSET Bits]
  /\ cmd = NoCmd \/ cmd \in [proc : Procs, kind : Kinds, from : Nat, count : Nat,
                             resp : BOOLEAN]
  /\ st \subseteq Bits /\ stirq \subseteq Bits
  /\ moved \in [Procs -> SUBSET Int]
  /\ tails \subseteq Procs

\* The blocks of the chunk a call is at.
Blocks(q) == h[q] .. (h[q] + Chunk(q) - 1)

\* sdcmd runs with the lock; a call that met no data of an earlier command issues
\* its own to an idle controller.
Held(q) ==
  /\ pc[q] \in Locked => qlock = q
  /\ pc[q] = "issue" /\ q \notin crossed => cmd = NoCmd /\ tails = {} /\ st = {}

\* The command that is executing is the one that is waited for, and has not set the
\* bits that end the wait.
Own(q) ==
  pc[q] \in Waits /\ q \notin crossed =>
    /\ tails = {}
    /\ cmd # NoCmd =>
         /\ cmd.proc = q /\ cmd.kind = kind[q]
         /\ cmd.from = h[q] /\ (kind[q] = "data" => cmd.count = Chunk(q))
         /\ need(q) \notin st /\ "error" \notin st

Signal(q) ==
  /\ pc[q] = "readback" => stirq \subseteq {need(q), "error"}
  /\ pc[q] = "sleep" => v[q] \subseteq {need(q), "error"}

\* What was transferred so far.
Moving(q) ==
  q \notin crossed =>
    /\ pc[q] \in Locked \cup {"lock"} => 0 .. (h[q] - 1) \subseteq moved[q]
    /\ pc[q] \in Waits /\ kind[q] = "data" /\ "dma" \in st => Blocks(q) \subseteq moved[q]
    /\ pc[q] = "next" => Blocks(q) \subseteq moved[q]
    /\ pc[q] = "return" => 0 .. (n[q] - 1) \subseteq moved[q]

\* A call starts at its first block.
Fresh(q) == pc[q] = "idle" => h[q] = 0

Fits(q) == Held(q) /\ Own(q) /\ Signal(q) /\ Moving(q) /\ Fresh(q)

SdInv == SdTypes /\ BufferLive /\ \A q \in Procs : Fits(q)

LEMMA SdInitInv == Init => SdInv
<1> SUFFICES ASSUME Init PROVE SdInv
  OBVIOUS
<1>1. SdTypes
  BY DEF Init, SdTypes, Places, Kinds
<1>2. BufferLive
  BY DEF Init, BufferLive
<1>3. \A q \in Procs : Fits(q)
  BY DEF Init, Fits, Held, Own, Signal, Moving, Fresh, Locked, Waits
<1> QED
  BY <1>1, <1>2, <1>3 DEF SdInv

\* The entries of o are as they were.
Same(o) ==
  /\ pc'[o] = pc[o] /\ n'[o] = n[o] /\ h'[o] = h[o] /\ kind'[o] = kind[o]
  /\ v'[o] = v[o] /\ moved'[o] = moved[o]
  /\ (o \in crossed') = (o \in crossed)

\* A step of a call changes the controller only while it holds the lock, when no
\* other call is between the lock and its release.
LEMMA OthersFit ==
  ASSUME SdInv, NEW q \in Procs, NEW o \in Procs, o # q, Same(o),
         qlock \in {q, NoProc} \/ UNCHANGED <<qlock, cmd, st, stirq, tails>>
  PROVE  Fits(o)'
<1>1. Fits(o)
  BY DEF SdInv
<1>2. CASE UNCHANGED <<qlock, cmd, st, stirq, tails>>
  BY <1>1, <1>2 DEF Same, Fits, Held, Own, Signal, Moving, Fresh, Blocks, Chunk, need
<1>3. CASE qlock \in {q, NoProc}
  <2>1. pc[o] \notin Locked
    BY <1>1, <1>3, FaultsAssumption DEF Fits, Held
  <2> QED
    BY <1>1, <2>1 DEF Same, Fits, Held, Own, Signal, Moving, Fresh, Locked, Waits
<1> QED
  BY <1>2, <1>3

\* A step of a call that leaves the command alone.
LEMMA StillLive ==
  ASSUME SdInv, NEW q \in Procs, NEW l, Goto(q, l), UNCHANGED <<cmd, tails>>,
         late \cup crossed \subseteq late' \cup crossed',
         cmd # NoCmd /\ cmd.proc = q /\ l \notin {"enable", "readback", "sleep"} =>
           q \in late' \cup crossed'
  PROVE  BufferLive'
<1>1. pc \in [Procs -> Places] /\ BufferLive
  BY DEF SdInv, SdTypes
<1>2. cmd = NoCmd \/ cmd.proc \in Procs
  BY DEF SdInv, SdTypes
<1>3. CASE cmd = NoCmd
  BY <1>1, <1>3 DEF BufferLive
<1>4. CASE cmd # NoCmd /\ cmd.proc = q
  BY <1>1, <1>4 DEF BufferLive, Goto
<1>5. CASE cmd # NoCmd /\ cmd.proc # q
  BY <1>1, <1>2, <1>5 DEF BufferLive, Goto
<1> QED
  BY <1>3, <1>4, <1>5

\* A step of a call, for the call itself and for the command.
LEMMA CallSteps ==
  ASSUME SdInv, NEW q \in Procs, Call(q) \/ Work(q) \/ Kill(q)
  PROVE  SdTypes' /\ Fits(q)' /\ BufferLive'
<1>t. SdTypes
  BY DEF SdInv
<1>f. Fits(q)
  BY DEF SdInv
<1>l. BufferLive
  BY DEF SdInv
<1>o. \A o \in Procs : o # q /\ pc[q] \in Locked => pc[o] \notin Locked
  BY DEF SdInv, Fits, Held
<1>c. Chunk(q) \in Nat
  BY <1>t, ChunkAssumption DEF SdTypes, Chunk
<1> USE DEF Goto
<1>1. CASE Call(q)
  <2>1. SdTypes'
    BY <1>1, <1>t, SizesAssumption DEF Call, SdTypes, Places
  <2>2. Fits(q)'
    <3>1. pc'[q] = "lock" /\ h'[q] = 0
      BY <1>1, <1>t, <1>f DEF Call, SdTypes, Fits, Fresh
    <3>2. 0 .. (h'[q] - 1) = {}
      BY <3>1
    <3> QED
      BY <3>1, <3>2 DEF Fits, Held, Own, Signal, Moving, Fresh, Locked, Waits
  <2>3. BufferLive'
    BY <1>1, StillLive, <1>l DEF Call, BufferLive
  <2> QED
    BY <2>1, <2>2, <2>3
<1>2. CASE Lock(q)
  <2>1. SdTypes'
    BY <1>2, <1>t DEF Lock, SdTypes, Places, Locked, Kinds
  <2>2. Fits(q)'
    BY <1>2, <1>t, <1>f DEF Lock, SdTypes, Fits, Held, Own, Signal, Moving, Fresh, Locked, Waits
  <2>3. BufferLive'
    BY <1>2, StillLive, <1>l DEF Lock, BufferLive
  <2> QED
    BY <2>1, <2>2, <2>3
<1>3. CASE Advance(q)
  <2>1. SdTypes'
    BY <1>3, <1>t, <1>c DEF Advance, Unlock, SdTypes, Places
  <2>2. Fits(q)'
    <3>1. h'[q] = h[q] + Chunk(q) /\ h[q] \in Nat /\ h'[q] \in Nat
      BY <1>3, <1>t, <1>c DEF Advance, SdTypes
    <3>2. q \notin crossed => 0 .. (h[q] - 1) \subseteq moved[q] /\ Blocks(q) \subseteq moved[q]
      BY <1>3, <1>f DEF Advance, Fits, Moving, Locked
    <3>3. q \notin crossed' => 0 .. (h'[q] - 1) \subseteq moved'[q]
      BY <1>3, <1>c, <3>1, <3>2 DEF Advance, Blocks
    <3>4. /\ pc'[q] \in {"lock", "return"}
          /\ pc'[q] = "return" => h'[q] >= n'[q] /\ n'[q] \in Nat
      BY <1>3, <1>t DEF Advance, SdTypes
    <3>5. pc'[q] = "return" /\ q \notin crossed' => 0 .. (n'[q] - 1) \subseteq moved'[q]
      BY <3>1, <3>3, <3>4
    <3> QED
      BY <3>3, <3>4, <3>5 DEF Fits, Held, Own, Signal, Moving, Fresh, Locked, Waits
  <2>3. BufferLive'
    BY <1>3, StillLive, <1>l DEF Advance, BufferLive
  <2> QED
    BY <2>1, <2>2, <2>3
<1>f1. ASSUME Leave(q), qlock' = qlock \/ qlock' = NoProc, UNCHANGED <<cmd, st, stirq, tails>>,
              cmd # NoCmd /\ cmd.proc = q => q \in late \cup crossed
       PROVE  SdTypes' /\ Fits(q)' /\ BufferLive'
  <2>1. SdTypes'
    BY <1>f1, <1>t DEF Leave, SdTypes, Places, Kinds
  <2>2. pc'[q] = "idle" /\ h'[q] = 0
    BY <1>f1, <1>t DEF Leave, SdTypes
  <2>3. Fits(q)'
    BY <2>2 DEF Fits, Held, Own, Signal, Moving, Fresh, Locked, Waits
  <2>4. BufferLive'
    BY <1>f1, StillLive DEF Leave
  <2> QED
    BY <2>1, <2>3, <2>4
<1>4. CASE Return(q)
  BY <1>4, <1>f1, <1>l DEF Return, BufferLive
<1>5. CASE Ready(q)
  <2>1. CASE Fail(q)
    BY <1>5, <2>1, <1>f1, <1>l DEF Ready, Fail, Unlock, BufferLive
  <2>2. CASE pc' = [pc EXCEPT ![q] = "clear"]
             /\ UNCHANGED <<qlock, n, h, kind, s, v, moved, late, crossed>>
    <3>1. SdTypes'
      BY <1>5, <2>2, <1>t DEF Ready, SdTypes, Places, Locked
    <3>2. Fits(q)'
      BY <1>5, <2>2, <1>t, <1>f DEF Ready, SdTypes, Fits, Held, Own, Signal, Moving, Fresh, Locked, Waits
    <3>3. BufferLive'
      BY <1>5, <2>2, StillLive, <1>l DEF Ready, BufferLive
    <3> QED
      BY <3>1, <3>2, <3>3
  <2> QED
    BY <1>5, <2>1, <2>2 DEF Ready
<1>6. CASE Clear(q)
  <2>1. SdTypes'
    BY <1>6, <1>t DEF Clear, SdTypes, Places, Locked
  <2>2. Fits(q)'
    BY <1>6, <1>t, <1>f DEF Clear, SdTypes, Fits, Held, Own, Signal, Moving, Fresh, Locked, Waits
  <2>3. BufferLive'
    <3>1. CASE cmd = NoCmd /\ tails = {}
      BY <1>6, <3>1 DEF Clear, BufferLive
    <3>2. CASE ~(cmd = NoCmd /\ tails = {})
      BY <1>6, <3>2, StillLive, <1>l DEF Clear, BufferLive
    <3> QED
      BY <3>1, <3>2
  <2> QED
    BY <2>1, <2>2, <2>3
<1>7. CASE Issue(q)
  <2>0. /\ pc'[q] = "enable" /\ cmd'.proc = q /\ cmd'.kind = kind'[q] /\ cmd'.from = h'[q]
        /\ kind'[q] = "data" => cmd'.count = Chunk(q)'
        /\ qlock' = q /\ cmd' # NoCmd
        /\ q \notin crossed' => st' = {} /\ tails' = {}
    BY <1>7, FaultsAssumption, <1>t, <1>f DEF Issue, SdTypes, Chunk, Fits, Held, Locked, NoCmd
  <2>1. SdTypes'
    <3>1. cmd' \in [proc : Procs, kind : Kinds, from : Nat, count : Nat, resp : BOOLEAN]
      BY <1>7, <1>t, <1>c DEF Issue, SdTypes
    <3>2. moved' \in [Procs -> SUBSET Int]
      BY <1>7, <1>t DEF Issue, SdTypes
    <3> QED
      BY <1>7, <1>t, <3>1, <3>2 DEF Issue, SdTypes, Places, Locked, Waits, NoCmd
  <2>2. q \notin crossed' => 0 .. (h'[q] - 1) \subseteq moved'[q]
    BY <1>7, <1>t, <1>f DEF Issue, SdTypes, Fits, Moving, Locked
  <2>3. Fits(q)'
    BY <2>0, <2>2 DEF Fits, Held, Own, Signal, Moving, Fresh, Locked, Waits, need
  <2>4. BufferLive'
    <3>1. cmd # NoCmd => cmd.proc \in late \cup crossed
      BY <1>7, <1>t, <1>l, <1>f, <1>o DEF Issue, BufferLive, SdTypes, Locked, Waits
    <3> QED
      BY <1>7, <2>0, <3>1, <1>l DEF Issue, BufferLive
  <2> QED
    BY <2>1, <2>3, <2>4
<1>8. CASE Enable(q)
  <2>1. SdTypes'
    BY <1>8, <1>t DEF Enable, SdTypes, Places, Locked, Waits, need, Bits
  <2>2. Fits(q)'
    BY <1>8, <1>t, <1>f DEF Enable, SdTypes, Fits, Held, Own, Signal, Moving, Fresh, Locked, Waits,
       Blocks, Chunk, need
  <2>3. BufferLive'
    BY <1>8, StillLive, <1>l DEF Enable, BufferLive
  <2> QED
    BY <2>1, <2>2, <2>3
<1>9. CASE ReadBack(q)
  <2>1. SdTypes'
    BY <1>9, <1>t DEF ReadBack, SdTypes, Places, Locked, Waits
  <2>2. Fits(q)'
    BY <1>9, <1>t, <1>f DEF ReadBack, SdTypes, Fits, Held, Own, Signal, Moving, Fresh, Locked, Waits,
       Blocks, Chunk, need
  <2>3. BufferLive'
    BY <1>9, StillLive, <1>l DEF ReadBack, BufferLive
  <2> QED
    BY <2>1, <2>2, <2>3
<1>10. CASE Wake(q)
  <2>1. SdTypes'
    BY <1>10, <1>t DEF Wake, SdTypes, Places, Locked, Waits
  <2>2. q \in crossed \/ cmd = NoCmd \/ cmd.proc # q
    BY <1>10, <1>f DEF Wake, Fits, Own, Signal, Waits
  <2>3. Fits(q)'
    BY <1>10, <2>2, <1>t, <1>f DEF Wake, SdTypes, Fits, Held, Own, Signal, Moving, Fresh, Locked, Waits,
       Blocks, Chunk, need
  <2>4. BufferLive'
    BY <1>10, <2>2, StillLive, <1>l DEF Wake, BufferLive
  <2> QED
    BY <2>1, <2>3, <2>4
<1>11. CASE Timeout(q)
  <2>1. SdTypes'
    BY <1>11, <1>t DEF Timeout, SdTypes, Places, Locked, Waits
  <2>2. Fits(q)'
    BY <1>11, <1>t, <1>f DEF Timeout, SdTypes, Fits, Held, Own, Signal, Moving, Fresh, Locked, Waits,
       Blocks, Chunk, need
  <2>3. BufferLive'
    BY <1>11, StillLive, <1>l DEF Timeout, BufferLive
  <2> QED
    BY <2>1, <2>2, <2>3
<1>12. CASE Kill(q)
  <2>1. SdTypes'
    BY <1>12, <1>t DEF Kill, SdTypes
  <2>2. Fits(q)'
    BY <1>12, <1>f DEF Kill, Fits, Held, Own, Signal, Moving, Fresh, Blocks, Chunk, need
  <2>3. BufferLive'
    BY <1>12, <1>l DEF Kill, BufferLive
  <2> QED
    BY <2>1, <2>2, <2>3
<1>13. CASE Check(q)
  <2>0. pc[q] = "check" /\ UNCHANGED <<cmd, st, stirq, tails>>
    BY <1>13 DEF Check
  <2>1. CASE Fail(q)
    BY <2>0, <2>1, <1>f1, <1>l DEF Fail, Unlock, BufferLive
  <2>2. CASE /\ Succeeded(q)
             /\ kind' = [kind EXCEPT ![q] = IF @ = "app" THEN "erase" ELSE "data"]
             /\ pc' = [pc EXCEPT ![q] = CASE kind[q] = "app" -> "clear"
                                          [] kind[q] = "erase" -> "busy"
                                          [] OTHER -> "next"]
             /\ UNCHANGED <<qlock, n, h, s, v, moved, late, crossed>>
    <3>1. SdTypes'
      BY <2>0, <2>2, <1>t DEF SdTypes, Places, Locked, Kinds
    <3>2. q \in crossed \/ cmd = NoCmd
      BY <2>0, <2>2, <1>f DEF Succeeded, Fits, Own, Waits
    <3>3. /\ pc'[q] \in {"clear", "busy", "next"}
          /\ pc'[q] = "next" => kind[q] = "data" /\ "dma" \in st
      BY <2>0, <2>2, <1>t DEF Succeeded, SdTypes, Kinds, need
    <3>5. Moving(q)'
      BY <2>0, <2>2, <3>3, <1>f DEF Fits, Moving, Locked, Waits, Blocks, Chunk
    <3>6. Held(q)' /\ Own(q)' /\ Signal(q)' /\ Fresh(q)'
      BY <2>0, <2>2, <3>2, <3>3, <1>f DEF Fits, Held, Own, Signal, Fresh, Locked, Waits
    <3>7. Fits(q)'
      BY <3>5, <3>6 DEF Fits
    <3>4. BufferLive'
      BY <2>0, <2>2, <3>2, StillLive, <1>l DEF BufferLive
    <3> QED
      BY <3>1, <3>4, <3>7
  <2> QED
    BY <1>13, <2>1, <2>2 DEF Check
<1> QED
  BY <1>1, <1>2, <1>3, <1>4, <1>5, <1>6, <1>7, <1>8, <1>9, <1>10, <1>11, <1>12, <1>13 DEF Work

LEMMA SdNextInv == SdInv /\ [Next]_vars => SdInv'
<1> SUFFICES ASSUME SdInv, [Next]_vars PROVE SdInv'
  OBVIOUS
<1>t. SdTypes
  BY DEF SdInv
<1>1. ASSUME NEW q \in Procs, Call(q) \/ Work(q) \/ Kill(q) PROVE SdInv'
  <2>1. \A o \in Procs : o # q => Same(o)
    BY <1>1, <1>t DEF SdTypes, Same, Call, Work, Kill, Lock, Advance, Return, Ready, Clear,
       Issue, Enable, ReadBack, Wake, Timeout, Check, Fail, Leave, Goto
  <2>2. qlock \in {q, NoProc} \/ UNCHANGED <<qlock, cmd, st, stirq, tails>>
    <3>1. pc[q] \in Locked => qlock = q
      BY DEF SdInv, Fits, Held
    <3>2. CASE Call(q) \/ Return(q) \/ Kill(q)
      BY <3>2 DEF Call, Return, Kill
    <3>3. CASE Lock(q)
      BY <3>3 DEF Lock
    <3> QED
      BY <1>1, <3>1, <3>2, <3>3 DEF Work, Enable, ReadBack, Wake, Timeout, Check, Advance, Ready, Clear, Issue, Locked, Waits
  <2>3. \A o \in Procs : o # q => Fits(o)'
    BY <2>1, <2>2, OthersFit
  <2>4. SdTypes' /\ Fits(q)' /\ BufferLive'
    BY <1>1, CallSteps
  <2> QED
    BY <2>3, <2>4 DEF SdInv
<1>2. CASE HwResponse
  <2>c. /\ cmd # NoCmd /\ cmd' # NoCmd /\ cmd' = [cmd EXCEPT !.resp = TRUE]
        /\ cmd' \in [proc : Procs, kind : Kinds, from : Nat, count : Nat, resp : BOOLEAN]
    <3>1. cmd # NoCmd /\ cmd.kind = "data" /\ cmd' = [cmd EXCEPT !.resp = TRUE]
      BY <1>2 DEF HwResponse, NoCmd
    <3>2. cmd \in [proc : Procs, kind : Kinds, from : Nat, count : Nat, resp : BOOLEAN]
      BY <3>1, <1>t DEF SdTypes
    <3>3. cmd' \in [proc : Procs, kind : Kinds, from : Nat, count : Nat, resp : BOOLEAN]
          /\ cmd'.kind = "data"
      BY <3>1, <3>2
    <3> QED
      BY <3>1, <3>3 DEF NoCmd
  <2>1. SdTypes'
    BY <1>2, <1>t, <2>c DEF HwResponse, SdTypes, Bits
  <2>2. \A q \in Procs : Fits(q)'
    BY <1>2, <1>t, <2>c DEF HwResponse, SdTypes, SdInv, Fits, Held, Own, Signal, Moving, Fresh, Blocks, Chunk, need, NoCmd
  <2>3. BufferLive'
    BY <1>2, <1>t, <2>c DEF HwResponse, SdTypes, SdInv, BufferLive
  <2> QED
    BY <2>1, <2>2, <2>3 DEF SdInv
<1>3. CASE HwDone
  <2>0. cmd # NoCmd /\ cmd' = NoCmd /\ UNCHANGED <<qlock, pc, n, h, kind, s, v, stirq, tails, late,
                                                     crossed>>
    BY <1>3 DEF HwDone
  <2>c. cmd \in [proc : Procs, kind : Kinds, from : Nat, count : Nat, resp : BOOLEAN]
    BY <2>0, <1>t DEF SdTypes
  <2>m. /\ moved' \in [Procs -> SUBSET Int]
        /\ \A q \in Procs : moved[q] \subseteq moved'[q]
    <3>1. CASE moved' = [moved EXCEPT ![cmd.proc] = @ \cup cmd.from .. (cmd.from + cmd.count - 1)]
      BY <3>1, <2>c, <1>t DEF SdTypes
    <3>2. CASE UNCHANGED moved
      BY <3>2, <1>t DEF SdTypes
    <3> QED
      BY <1>3, <3>1, <3>2 DEF HwDone
  <2>s. st' \subseteq st \cup Bits
    BY <1>3 DEF HwDone, Bits
  <2>1. SdTypes'
    BY <2>0, <2>m, <2>s, <1>t DEF SdTypes
  <2>2. ASSUME NEW q \in Procs PROVE Fits(q)'
    <3>f. Fits(q)
      BY DEF SdInv
    <3>1. pc[q] = "issue" => q \in crossed
      BY <2>0, <3>f DEF Fits, Held
    <3>2. Held(q)' /\ Own(q)' /\ Signal(q)' /\ Fresh(q)'
      BY <2>0, <3>1, <3>f DEF Fits, Held, Own, Signal, Fresh, need
    <3>3. ASSUME q \notin crossed, pc[q] \in Waits, kind[q] = "data", "dma" \in st'
          PROVE  Blocks(q) \subseteq moved'[q]
      <4>1. /\ cmd.proc = q /\ cmd.from = h[q] /\ cmd.count = Chunk(q) /\ "dma" \notin st
        BY <2>0, <3>3, <3>f DEF Fits, Own, need
      <4>2. moved' = [moved EXCEPT ![cmd.proc] = @ \cup cmd.from .. (cmd.from + cmd.count - 1)]
        BY <1>3, <3>3, <4>1 DEF HwDone
      <4> QED
        BY <4>1, <4>2, <1>t DEF SdTypes, Blocks
    <3>4. Moving(q)'
      BY <2>0, <2>m, <3>f, <3>1, <3>3 DEF Fits, Moving, Blocks, Chunk
    <3> QED
      BY <3>2, <3>4 DEF Fits
  <2>3. BufferLive'
    BY <2>0 DEF SdInv, BufferLive
  <2> QED
    BY <2>1, <2>2, <2>3 DEF SdInv
<1>6. CASE HwTail
  <2>1. PICK t \in tails :
          /\ tails' = tails \ {t} /\ st' \subseteq st \cup Bits
          /\ UNCHANGED <<qlock, pc, n, h, kind, s, v, cmd, stirq, moved, late, crossed>>
    BY <1>6 DEF HwTail, Bits
  <2>2. SdTypes'
    BY <2>1, <1>t DEF SdTypes
  <2>3. ASSUME NEW q \in Procs PROVE Fits(q)'
    <3>f. Fits(q)
      BY DEF SdInv
    <3>1. pc[q] \in Waits \cup {"issue"} => q \in crossed
      BY <2>1, <3>f DEF Fits, Held, Own
    <3> QED
      BY <2>1, <3>1, <3>f DEF Fits, Held, Own, Signal, Moving, Fresh, Blocks, Chunk, need
  <2>4. BufferLive'
    BY <2>1 DEF SdInv, BufferLive
  <2> QED
    BY <2>2, <2>3, <2>4 DEF SdInv
<1>4. CASE sdiointr
  <2>1. SdTypes'
    BY <1>4, <1>t DEF sdiointr, SdTypes
  <2>2. \A q \in Procs : Fits(q)'
    BY <1>4 DEF sdiointr, SdInv, Fits, Held, Own, Signal, Moving, Fresh, Blocks, Chunk, need
  <2>3. BufferLive'
    BY <1>4 DEF sdiointr, SdInv, BufferLive
  <2> QED
    BY <2>1, <2>2, <2>3 DEF SdInv
<1>5. CASE UNCHANGED vars
  BY <1>5 DEF vars, SdInv, SdTypes, BufferLive, Fits, Held, Own, Signal, Moving, Fresh, Blocks, Chunk, need
<1> QED
  BY <1>1, <1>2, <1>3, <1>4, <1>5, <1>6 DEF Next

LEMMA SdHolds == Spec => []SdInv
BY SdInitInv, SdNextInv, PTL DEF Spec

\* kwsdio.c: however many chunks a call takes and whoever used the card in between,
\* sdioio returns with all its blocks moved, unless the data of a command that had
\* timed out crossed its own.
THEOREM BlocksMoved == Spec => []AllMoved
<1>1. SdInv => AllMoved
  BY DEF SdInv, Fits, Moving, AllMoved
<1> QED
  BY <1>1, SdHolds, PTL

\* The controller uses no buffer whose call has gone on, other than after the five
\* seconds of a timeout, its own or that of the command whose data crossed its own.
THEOREM BuffersLive == Spec => []BufferLive
<1>1. SdInv => BufferLive
  BY DEF SdInv
<1> QED
  BY <1>1, SdHolds, PTL
=============================================================================
