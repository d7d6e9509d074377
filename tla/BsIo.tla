-------------------------------- MODULE BsIo --------------------------------
(***************************************************************************)
(* io of devbs.c: a read or write of n bytes at off in a partition becomes *)
(* one aligned transfer of the device.  When the range is not aligned it   *)
(* goes through a buffer of its own.  A request r is a record of the       *)
(* partition p (its start s and its size, in bytes), whether it is a       *)
(* write, n and off.  A byte of the disk is named by its address, a byte   *)
(* of the caller's buffer by its index.                                    *)
(***************************************************************************)
EXTENDS Integers

CONSTANT Align      \* alignmask + 1

ASSUME AlignAssumption == Align \in Nat \ {0}

\* Mutant: the end is not clamped.
Clamp_none(x, size) == x

\* s and e are cut off at the size of the partition.
Clamp(x, size) == IF x > size THEN size ELSE x

\* x & ~alignmask
Down(x) == x - (x % Align)

\* n, with what precedes s in its block, rounded up to whole blocks.
Up(s, n) == Down(n + (s % Align) + Align - 1)

\* Ebadarg, and Ebadalign for a write.
Refused(r) ==
  \/ r.off < 0 \/ r.n < 0
  \/ r.write /\ (r.off % Align # 0 \/ r.n % Align # 0)

\* The clamped range, from the start of the disk: the variables s and n.
First(r) == Clamp(r.off, r.p.size) + r.p.s
Count(r) == Clamp(r.off + r.n, r.p.size) - Clamp(r.off, r.p.size)

\* The range asked of the device: xs and xn.
DevFirst(r) == Down(First(r))
DevCount(r) == Up(First(r), Count(r))

\* The transfer goes through its own buffer.
Bounced(r) == DevFirst(r) # First(r) \/ DevCount(r) # Count(r)

\* d->io does all of it, or some whole blocks from the start.
Transfers(r) == {did \in 0 .. DevCount(r) : did % Align = 0}

\* Mutant: the bytes before s are copied too.
Skipped_none(r) == 0

\* How far the range starts into the buffer.
Skipped(r) == First(r) - DevFirst(r)

\* The bytes of the range that the device has done.
Got(r, did) ==
  LET rest == did - Skipped(r)
  IN  IF rest < 0 THEN 0 ELSE IF Count(r) < rest THEN Count(r) ELSE rest

\* What io returns.
Returned(r, did) == IF Bounced(r) THEN Got(r, did) ELSE did

\* A read: index in the caller's buffer |-> disk address the byte is from.
Filled(r, did) ==
  [i \in 0 .. (Returned(r, did) - 1) |->
     DevFirst(r) + i + (IF Bounced(r) THEN Skipped(r) ELSE 0)]

\* A write: disk address |-> index in the buffer the device writes from, which
\* is the caller's own.
Written(r, did) == [a \in DevFirst(r) .. (DevFirst(r) + did - 1) |-> a - DevFirst(r)]

=============================================================================
