------------------------------- MODULE CesaAes -------------------------------
(***************************************************************************)
(* The AES half of cesa.c: aes() loads the key of its AESstate in the one   *)
(* encryption or decryption engine under aeslock, passes the caller's       *)
(* blocks through it, and keeps the chaining value in ivec for the next     *)
(* call.                                                                    *)
(*                                                                         *)
(* A block is a set of symbols and exclusive-or the symmetric difference,   *)
(* so that only the laws of xor hold of it.  The engine maps a block b      *)
(* under a key k to the symbol <<"E", k, b>> or <<"D", k, b>>.              *)
(***************************************************************************)
EXTENDS Integers, Sequences

CONSTANTS
  Users,      \* processes, each with an AESstate of its own
  Counts,     \* the numbers of blocks a call may have
  MaxAes      \* calls on one AESstate (bound)

ASSUME AesAssumption == Counts \subseteq Nat /\ MaxAes \in Nat

VARIABLES
  apc,        \* "idle", "lock" or "blocks", per process
  mode,       \* enc and cbc of the stream, or NoMode before the first call
  ivec,       \* AESstate.ivec
  a, b,       \* the chaining buffers of aes(): v and w, or both v
  todo,       \* blocks of the call still to do
  outs,       \* the output blocks of all calls
  cuts,       \* history: how many outputs there were when a call began
  aes_calls,
  aeslock,
  engkey      \* the key in the registers of the two engines

aesVars == <<apc, mode, ivec, a, b, todo, outs, cuts, aes_calls, aeslock, engkey>>

NoUser == "nouser"
ASSUME UsersAssumption == NoUser \notin Users

NoMode == [enc |-> FALSE, cbc |-> FALSE, set |-> FALSE]
Garbage == {<<"w">>}          \* w before anything is stored in it

XorBlock(x, y) == (x \ y) \cup (y \ x)
In(q, i) == {<<"in", q, i>>}  \* the i-th block a process passes in
Ivec0(q) == {<<"iv", q>>}
Cipher(enc, k, x) == {<<IF enc THEN "E" ELSE "D", k, x>>}

AesInit ==
  /\ apc = [q \in Users |-> "idle"]
  /\ mode = [q \in Users |-> NoMode]
  /\ ivec = [q \in Users |-> Ivec0(q)]
  /\ a = [q \in Users |-> {}] /\ b = [q \in Users |-> {}]
  /\ todo = [q \in Users |-> 0]
  /\ outs = [q \in Users |-> <<>>]
  /\ cuts = [q \in Users |-> {}]
  /\ aes_calls = [q \in Users |-> 0]
  /\ aeslock = NoUser
  /\ engkey \in [BOOLEAN -> {NoUser}]

\* aesECBencrypt ... aesCBCdecrypt; an AESstate is used for one of them.
Aes(q) ==
  /\ apc[q] = "idle" /\ aes_calls[q] < MaxAes
  /\ \E n \in Counts, enc \in BOOLEAN, cbc \in BOOLEAN :
       /\ mode[q].set => mode[q].enc = enc /\ mode[q].cbc = cbc
       /\ mode' = [mode EXCEPT ![q] = [enc |-> enc, cbc |-> cbc, set |-> TRUE]]
       /\ todo' = [todo EXCEPT ![q] = n]
  /\ apc' = [apc EXCEPT ![q] = "lock"]
  /\ cuts' = [cuts EXCEPT ![q] = @ \cup {Len(outs[q])}]
  /\ aes_calls' = [aes_calls EXCEPT ![q] = @ + 1]
  /\ UNCHANGED <<ivec, a, b, outs, aeslock, engkey>>

\* Mutant: the key is taken to be in the engine still.
AesKey_cached(q) ==
  /\ apc[q] = "lock" /\ aeslock = NoUser
  /\ aeslock' = q
  /\ engkey' = IF engkey[mode[q].enc] = NoUser
               THEN [engkey EXCEPT ![mode[q].enc] = q] ELSE engkey
  /\ a' = [a EXCEPT ![q] = ivec[q]]
  /\ b' = [b EXCEPT ![q] = IF mode[q].enc THEN ivec[q] ELSE Garbage]
  /\ apc' = [apc EXCEPT ![q] = "blocks"]
  /\ UNCHANGED <<mode, ivec, todo, outs, cuts, aes_calls>>

\* aes(): take the lock, write the key, and for decryption make the engine
\* derive its key and poll AESkeyready; load the chaining value.
AesKey(q) ==
  /\ apc[q] = "lock" /\ aeslock = NoUser
  /\ aeslock' = q
  /\ engkey' = [engkey EXCEPT ![mode[q].enc] = q]
  /\ a' = [a EXCEPT ![q] = ivec[q]]
  /\ b' = [b EXCEPT ![q] = IF mode[q].enc THEN ivec[q] ELSE Garbage]
  /\ apc' = [apc EXCEPT ![q] = "blocks"]
  /\ UNCHANGED <<mode, ivec, todo, outs, cuts, aes_calls>>

\* One block through the engine.  Encryption chains the output in v; decryption
\* stores the input in b, xors with a, and swaps a and b.
AesBlock(q) ==
  LET x == In(q, Len(outs[q]) + 1)
      enc == mode[q].enc
      cbc == mode[q].cbc
      y == IF enc /\ cbc THEN Cipher(enc, engkey[enc], XorBlock(x, a[q]))
                         ELSE Cipher(enc, engkey[enc], x)
  IN
  /\ apc[q] = "blocks" /\ todo[q] > 0
  /\ todo' = [todo EXCEPT ![q] = @ - 1]
  /\ outs' = [outs EXCEPT ![q] = Append(@, IF cbc /\ ~enc THEN XorBlock(a[q], y) ELSE y)]
  /\ a' = [a EXCEPT ![q] = IF enc THEN y ELSE x]
  /\ b' = [b EXCEPT ![q] = IF enc THEN y ELSE a[q]]
  /\ UNCHANGED <<apc, mode, ivec, cuts, aes_calls, aeslock, engkey>>

\* ivec is stored from b: after decryption that is the last block but one.
AesDone(q) ==
  /\ apc[q] = "blocks" /\ todo[q] = 0
  /\ ivec' = [ivec EXCEPT ![q] = IF mode[q].cbc THEN b[q] ELSE @]
  /\ a' = [a EXCEPT ![q] = {}] /\ b' = [b EXCEPT ![q] = {}]
  /\ aeslock' = NoUser
  /\ apc' = [apc EXCEPT ![q] = "idle"]
  /\ UNCHANGED <<mode, todo, outs, cuts, aes_calls, engkey>>

AesNext == \E q \in Users : Aes(q) \/ AesKey(q) \/ AesBlock(q) \/ AesDone(q)

-----------------------------------------------------------------------------
(* Properties                                                              *)

\* The i-th output of the mode of operation, over the stream as a whole.
Output(q, i) ==
  LET enc == mode[q].enc
      prev == IF i = 1 THEN Ivec0(q) ELSE IF enc THEN outs[q][i - 1] ELSE In(q, i - 1)
  IN IF ~mode[q].cbc THEN Cipher(enc, q, In(q, i))
     ELSE IF enc THEN Cipher(enc, q, XorBlock(In(q, i), prev))
     ELSE XorBlock(Cipher(enc, q, In(q, i)), prev)

\* Cutting a stream into calls changes nothing, and neither does the use other
\* processes make of the engines in between, but for one block: aes() keeps the
\* wrong ivec after a CBC decryption, so the first block of a later call on the
\* same AESstate is xored with the wrong one.
StreamRight ==
  \A q \in Users : \A i \in DOMAIN outs[q] :
    \/ outs[q][i] = Output(q, i)
    \/ mode[q].cbc /\ ~mode[q].enc /\ i - 1 \in cuts[q] /\ i > 1
    \/ mode[q].cbc /\ ~mode[q].enc /\ i = 1 /\ aes_calls[q] > 1

=============================================================================
