------------------------------ MODULE CesaHash ------------------------------
(***************************************************************************)
(* The hash half of cesa.c: hash() cuts a stream that comes in calls of any *)
(* length into 64-byte blocks, keeps the rest in DigestState.buf, and       *)
(* hashexec feeds the blocks to the one hash engine under hashlock.         *)
(*                                                                         *)
(* A byte of a stream is its position (from 1) in the stream; 0 is a zero   *)
(* byte, Pad1 is 0x80, Lo and Hi are the bytes of the two words of the bit  *)
(* count.  The engine's iv registers are modelled by all it has absorbed    *)
(* since its initial value.  Two streams share the engine.                  *)
(***************************************************************************)
EXTENDS Integers, Sequences

CONSTANTS
  Hashers,   \* processes, each with a DigestState of its own
  Sha1,      \* those that call sha1(); the others call md5()
  Lens,      \* the lengths a call may have
  MaxCalls   \* calls in one stream (bound)

ASSUME HashAssumption ==
  Sha1 \subseteq Hashers /\ Lens \subseteq Nat /\ MaxCalls \in Nat

VARIABLES
  hpc,       \* "idle", "lock", "blocks", "end" or "done", per process
  ds,        \* DigestState: len, buf (its first blen bytes), seeded, state
  job,       \* the call: bufs as whole blocks, the bytes to finish with, digest?
  calls,     \* calls made on the stream
  skipped,   \* history: a call had whole blocks and a rest (see Bufs)
  digest,    \* what the digest was made of
  hashlock,  \* the process that holds it, or Nobody
  iv         \* the engine: all absorbed since the last initial value

hashVars == <<hpc, ds, job, calls, skipped, digest, hashlock, iv>>

Nobody == "nobody"

ASSUME HashersAssumption == Nobody \notin Hashers

Pad1 == -1
Lo == -2
Hi == -3

Bytes(from, n) == [i \in 1 .. n |-> from + i]
Repeat(b, n) == [i \in 1 .. n |-> b]
Lesser(a, b) == IF a < b THEN a ELSE b

NoJob == [blocks |-> <<>>, cont |-> FALSE, fin |-> <<>>, dig |-> FALSE, keep |-> <<>>]

HashInit ==
  /\ hpc = [q \in Hashers |-> "idle"]
  /\ ds = [q \in Hashers |-> [len |-> 0, buf |-> <<>>, seeded |-> FALSE, state |-> <<>>]]
  /\ job = [q \in Hashers |-> NoJob]
  /\ calls = [q \in Hashers |-> 0]
  /\ skipped = [q \in Hashers |-> FALSE]
  /\ digest = [q \in Hashers |-> <<>>]
  /\ hashlock = Nobody
  /\ iv = <<>>

\* hash(): the kept bytes are filled up first; whole blocks are hashed from the
\* caller's memory; what is left is finished with or kept.  p is not moved past
\* the whole blocks, so the rest is read from where they begin.
Bufs(s, n, dig) ==
  LET fill == IF s.buf = <<>> THEN 0 ELSE Lesser(64 - Len(s.buf), n)
      full == Len(s.buf) + fill = 64
      buf  == s.buf \o Bytes(s.len, fill)
      left == IF full THEN <<>> ELSE buf
      p    == s.len + fill
      len  == n - fill
      rest == Bytes(p, len % 64)
  IN [blocks |-> (IF full THEN buf ELSE <<>>) \o Bytes(p, len - (len % 64)),
      cont   |-> FALSE,
      fin    |-> IF rest # <<>> THEN rest ELSE left,
      dig    |-> dig,
      keep   |-> IF ~dig /\ rest # <<>> THEN rest ELSE left]

\* A call that is left with whole blocks and a rest.
Skips(s, n) ==
  LET len == IF s.buf = <<>> THEN n ELSE n - Lesser(64 - Len(s.buf), n)
  IN len > 64 /\ len % 64 # 0

Hash(q) ==
  /\ hpc[q] = "idle" /\ calls[q] < MaxCalls
  /\ \E n \in Lens, dig \in BOOLEAN :
       LET j == Bufs(ds[q], n, dig) IN
       /\ job' = [job EXCEPT ![q] = j]
       /\ hpc' = [hpc EXCEPT ![q] = IF j.blocks # <<>> \/ dig THEN "lock" ELSE "end"]
       /\ skipped' = [skipped EXCEPT ![q] = @ \/ Skips(ds[q], n)]
       /\ ds' = [ds EXCEPT ![q].len = @ + n]
  /\ calls' = [calls EXCEPT ![q] = @ + 1]
  /\ UNCHANGED <<digest, hashlock, iv>>

\* Mutant: the state kept from the call before is not put back in the engine.
HashSeed_noreload(q) ==
  /\ hpc[q] = "lock" /\ hashlock = Nobody
  /\ hashlock' = q
  /\ UNCHANGED iv
  /\ job' = [job EXCEPT ![q].cont = ds[q].seeded]
  /\ ds' = [ds EXCEPT ![q].seeded = TRUE]
  /\ hpc' = [hpc EXCEPT ![q] = "blocks"]
  /\ UNCHANGED <<calls, skipped, digest>>

\* hashexec: take the lock and, if the stream has begun, load iv and continue.
HashSeed(q) ==
  /\ hpc[q] = "lock" /\ hashlock = Nobody
  /\ hashlock' = q
  /\ iv' = IF ds[q].seeded THEN ds[q].state ELSE iv
  /\ job' = [job EXCEPT ![q].cont = ds[q].seeded]
  /\ ds' = [ds EXCEPT ![q].seeded = TRUE]
  /\ hpc' = [hpc EXCEPT ![q] = "blocks"]
  /\ UNCHANGED <<calls, skipped, digest>>

\* The engine: without HASHcontinue it begins from the initial value.
Absorb(cont, bytes) == (IF cont THEN iv ELSE <<>>) \o bytes

\* One 64-byte block written to r->data, and HASHdone polled for.
HashBlock(q) ==
  /\ hpc[q] = "blocks" /\ job[q].blocks # <<>>
  /\ iv' = Absorb(job[q].cont, SubSeq(job[q].blocks, 1, 64))
  /\ job' = [job EXCEPT ![q].blocks = SubSeq(@, 65, Len(@)), ![q].cont = TRUE]
  /\ UNCHANGED <<hpc, ds, calls, skipped, digest, hashlock>>

\* The bit count: its high word first for sha1, its low word first for md5.
BitCount(q) ==
  IF q \in Sha1 THEN Repeat(Hi, 4) \o Repeat(Lo, 4) ELSE Repeat(Lo, 4) \o Repeat(Hi, 4)

\* hashfinish: the data in words, the last one with 0x80 after its bytes; if the
\* bit count does not fit, the block is completed and a block of zeros follows.
\* Writing the bit count makes the engine fill up with zeros.
FinalBlocks(q, fin) ==
  LET n     == Len(fin)
      words == fin \o <<Pad1>> \o Repeat(0, 3 - (n % 4))
      zeros == Repeat(0, 56)
  IN IF n + 1 > 56
     THEN words \o (IF n + 1 <= 60 THEN Repeat(0, 4) ELSE <<>>) \o zeros \o BitCount(q)
     ELSE words \o Repeat(0, 56 - Len(words)) \o BitCount(q)

HashFinish(q) ==
  /\ hpc[q] = "blocks" /\ job[q].blocks = <<>> /\ job[q].dig
  /\ iv' = Absorb(job[q].cont, FinalBlocks(q, job[q].fin))
  /\ digest' = [digest EXCEPT ![q] = iv']
  /\ hashlock' = Nobody
  /\ hpc' = [hpc EXCEPT ![q] = "end"]
  /\ UNCHANGED <<ds, job, calls, skipped>>

\* No digest asked for: iv is saved in the DigestState.
HashSave(q) ==
  /\ hpc[q] = "blocks" /\ job[q].blocks = <<>> /\ ~job[q].dig
  /\ ds' = [ds EXCEPT ![q].state = iv]
  /\ hashlock' = Nobody
  /\ hpc' = [hpc EXCEPT ![q] = "end"]
  /\ UNCHANGED <<job, calls, skipped, digest, iv>>

\* hash() returns; the rest is in s->buf.
HashEnd(q) ==
  /\ hpc[q] = "end"
  /\ ds' = [ds EXCEPT ![q].buf = job[q].keep]
  /\ hpc' = [hpc EXCEPT ![q] = IF job[q].dig THEN "done" ELSE "idle"]
  /\ job' = [job EXCEPT ![q] = NoJob]
  /\ UNCHANGED <<calls, skipped, digest, hashlock, iv>>

HashNext ==
  \E q \in Hashers : \/ Hash(q) \/ HashSeed(q) \/ HashBlock(q)
                     \/ HashFinish(q) \/ HashSave(q) \/ HashEnd(q)

-----------------------------------------------------------------------------
(* Properties                                                              *)

\* A stream of len bytes as md5 and sha1 define it to be padded.
Padded(q, len) ==
  Bytes(0, len) \o <<Pad1>> \o Repeat(0, (119 - (len % 64)) % 64) \o BitCount(q)

\* The digest of a stream is that of its bytes in order, padded, however the
\* stream was cut into calls and whoever used the engine in between, unless a
\* call had whole blocks and a rest: hash() reads that rest from the wrong place.
DigestRight ==
  \A q \in Hashers :
    hpc[q] = "done" /\ ~skipped[q] => digest[q] = Padded(q, ds[q].len)

=============================================================================
