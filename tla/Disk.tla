-------------------------------- MODULE Disk --------------------------------
(***************************************************************************)
(* The partitions partinit accepts, used by io: whatever the tables on the *)
(* disk say, every read and write of a partition file moves the bytes it   *)
(* should.  partinit counts in sectors and the Store aligns to the same    *)
(* 512 bytes (kwsdio.c:899), so a sector is Align bytes here.              *)
(***************************************************************************)
EXTENDS Partition, BsIo

CONSTANTS
  MaxN,     \* bound on the bytes asked for
  MaxOff    \* bound on the offset

ASSUME RequestsAssumption == MaxN \in Nat /\ MaxOff \in Nat

\* diskinit keeps what partinit found, or the data partition after an error.
Usable == phase \in {"done", "error"}

\* The Part that bsdevread and bsdevwrite pass to io, in bytes.
InBytes(p) == [s |-> p.s * Align, size |-> p.size * Align]

\* The reads, or writes, of the partitions that io does not refuse.
Requests(write) ==
  {r \in [p : {InBytes(parts[i]) : i \in 1 .. Len(parts)}, write : {write},
          n : -1 .. MaxN, off : -1 .. MaxOff] : ~Refused(r)}

\* The bytes of the caller's buffer that the partition has something for.
Wanted(r) == {i \in 0 .. (r.n - 1) : r.off + i < r.p.size}

\* A read returns the bytes asked for, in order, from where they are; never a
\* byte of another partition or past the caller's buffer, also when the device
\* does less; and all of them when it does not.
ReadRight ==
  Usable => \A r \in Requests(FALSE) : \A did \in Transfers(r) :
    /\ \A i \in DOMAIN Filled(r, did) :
         i \in Wanted(r) /\ Filled(r, did)[i] = r.p.s + r.off + i
    /\ did = DevCount(r) => Wanted(r) \subseteq DOMAIN Filled(r, did)

\* A write puts each byte where it belongs, touches nothing else, and reports
\* what was written: it never needs the buffer of its own, whose contents io
\* would write to the disk.
WriteRight ==
  Usable => \A r \in Requests(TRUE) : \A did \in Transfers(r) :
    /\ ~Bounced(r)
    /\ \A a \in DOMAIN Written(r, did) :
         /\ Written(r, did)[a] \in Wanted(r)
         /\ a = r.p.s + r.off + Written(r, did)[a]
    /\ Returned(r, did) = did

=============================================================================
