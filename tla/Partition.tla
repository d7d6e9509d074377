------------------------------ MODULE Partition ------------------------------
(***************************************************************************)
(* partinit of part.c: the partitions of a disk, from the MBR and from the *)
(* text tables of Plan 9 partitions.  The disk's contents are arbitrary:   *)
(* each entry and each line is chosen when it is read.  All positions are  *)
(* in sectors of 512 bytes, since the code multiplies every number it      *)
(* reads by 512; the numbers are assumed small enough for a vlong.         *)
(***************************************************************************)
EXTENDS Integers, Sequences

CONSTANTS
  DiskSize,   \* in sectors
  NMbr,       \* entries in the MBR (4)
  MaxLines,   \* bound on the lines read from Plan 9 tables
  Numbers,    \* the numbers in the tables
  SubNames    \* the names in Plan 9 tables

ASSUME SizeAssumption == DiskSize \in Nat
ASSUME MbrAssumption == NMbr \in Nat /\ MaxLines \in Nat
ASSUME NumbersAssumption == Numbers \subseteq Nat

\* The MBR types partname tells apart; "none" is an unused entry.
Types == {"none", "plan9", "dos", "other"}

VARIABLES
  parts,      \* the Part array: parts[1] is "data", the whole disk
  phase,      \* "mbr", "plan9", "line", "done" or "error"
  slot,       \* MBR entries read
  cur,        \* index of the partition whose Plan 9 table is looked at
  end,        \* partitions that came from the MBR, data included
  lines       \* lines read

partVars == <<parts, phase, slot, cur, end, lines>>

\* partdata.  up is the index of the Plan 9 partition that holds a partition.
Data == [name |-> <<"data">>, typ |-> "none", s |-> 0, e |-> DiskSize,
         size |-> DiskSize, up |-> 1]

\* The sector with the MBR is read and has its signature, or not.
PartInit ==
  /\ parts = <<Data>>
  /\ phase \in {"mbr", "error"}
  /\ slot = 0 /\ cur = 2 /\ end = 1 /\ lines = 0

-----------------------------------------------------------------------------
(* Names: <<"plan9">> is plan9, <<"plan9", 0>> is plan9.0, <<"p#", 0>> p0. *)

haspartname(nm) == \E i \in 1 .. Len(parts) : parts[i].name = nm

\* partgenname: the name itself if it is free, or else the first free number.
partgenname(first, next) ==
  IF ~haspartname(first) THEN {first}
  ELSE {Append(next, n) : n \in {m \in 0 .. Len(parts) :
          /\ ~haspartname(Append(next, m))
          /\ \A l \in 0 .. (m - 1) : haspartname(Append(next, l))}}

\* partname, for MBR entry i.
partname(typ, i) ==
  CASE typ = "plan9" -> partgenname(<<"plan9">>, <<"plan9">>)
    [] typ = "dos" -> partgenname(<<"9fat">>, <<"dos">>)
    [] OTHER -> {<<"p#", i>>}

-----------------------------------------------------------------------------
(* The check of a new partition                                            *)

\* Mutant: the end of the earlier partition is not looked at.
partcheck_startonly(s, e, from, size) ==
  /\ e <= size
  /\ s <= e
  /\ \A i \in (from + 1) .. Len(parts) : parts[i].s \notin s .. (e - 1)

\* partcheck, against the partitions after index from.
partcheck(s, e, from, size) ==
  /\ e <= size
  /\ s <= e
  /\ \A i \in (from + 1) .. Len(parts) :
       ~(parts[i].s \in s .. (e - 1) \/ parts[i].e \in (s + 1) .. e)

-----------------------------------------------------------------------------
(* partinit                                                                *)

\* error(): nothing that was found is used.
TableError ==
  /\ phase' = "error"
  /\ parts' = <<Data>>
  /\ UNCHANGED <<cur, end>>

MbrEntry ==
  /\ phase = "mbr" /\ slot < NMbr
  /\ slot' = slot + 1
  /\ \E typ \in Types, s, size \in Numbers :
       IF typ = "none" THEN UNCHANGED <<parts, phase, cur, end>>
       ELSE IF ~partcheck(s, s + size, 1, DiskSize) THEN TableError
       ELSE /\ \E nm \in partname(typ, slot) :
                 parts' = Append(parts, [name |-> nm, typ |-> typ, s |-> s,
                                         e |-> s + size, size |-> size, up |-> 1])
            /\ UNCHANGED <<phase, cur, end>>
  /\ UNCHANGED lines

MbrEnd ==
  /\ phase = "mbr" /\ slot = NMbr
  /\ phase' = "plan9"
  /\ end' = Len(parts)
  /\ UNCHANGED <<parts, slot, cur, lines>>

\* A Plan 9 partition with room for a table: its second sector is read.
Plan9 ==
  /\ phase = "plan9" /\ cur <= end
  /\ parts[cur].typ = "plan9" /\ parts[cur].size >= 2
  /\ \/ phase' = "line" /\ UNCHANGED <<parts, cur, end>>
     \/ TableError
  /\ UNCHANGED <<slot, lines>>

Plan9Skip ==
  /\ phase = "plan9" /\ cur <= end
  /\ parts[cur].typ # "plan9" \/ parts[cur].size < 2
  /\ cur' = cur + 1
  /\ UNCHANGED <<parts, phase, slot, end, lines>>

\* pp->s += parts[i].s
Moved(s, i) == s + parts[i].s

\* A line "part name start end", relative to the Plan 9 partition.
Line ==
  /\ phase = "line" /\ lines < MaxLines
  /\ lines' = lines + 1
  /\ \E nm \in SubNames, s, e \in Numbers :
       IF ~partcheck(s, e, cur, parts[cur].size) THEN TableError
       ELSE /\ \E gn \in partgenname(nm, nm) :
                 parts' = Append(parts,
                   [name |-> gn, typ |-> "none", s |-> Moved(s, cur),
                    e |-> e + parts[cur].e, size |-> e - s, up |-> cur])
            /\ UNCHANGED <<phase, cur, end>>
  /\ UNCHANGED slot

\* The text ends, or a line is something else.
LineEnd ==
  /\ phase = "line"
  /\ \/ /\ phase' = "plan9"
        /\ cur' = cur + 1
        /\ UNCHANGED <<parts, end>>
     \/ TableError
  /\ UNCHANGED <<slot, lines>>

Done ==
  /\ phase = "plan9" /\ cur > end
  /\ phase' = "done"
  /\ UNCHANGED <<parts, slot, cur, end, lines>>

PartNext == MbrEntry \/ MbrEnd \/ Plan9 \/ Plan9Skip \/ Line \/ LineEnd \/ Done

PartSpec == PartInit /\ [][PartNext]_partVars

-----------------------------------------------------------------------------
(* Properties                                                              *)

\* Two partitions have a sector in common.
Overlap(p, q) ==
  (p.s .. (p.s + p.size - 1)) \cap (q.s .. (q.s + q.size - 1)) # {}

\* partcheck catches every overlap of two MBR entries but that of a later one
\* that lies strictly inside an earlier one.
OverlapOnlyWithin ==
  \A i, j \in 2 .. Len(parts) :
    i < j /\ parts[i].up = 1 /\ parts[j].up = 1 /\ Overlap(parts[i], parts[j]) =>
      parts[i].s < parts[j].s /\ parts[j].e < parts[i].e

=============================================================================
