-------------------------------- MODULE Efuse --------------------------------
(***************************************************************************)
(* devefuse.c: the two fuses, which can be burned once.  efwrite holds      *)
(* efuselock, sets burn mode, and polls for Cburndone in a sleep that a     *)
(* kill interrupts; the hardware goes on burning, and after a timeout,      *)
(* which clears ctl, it may too.                                            *)
(***************************************************************************)
EXTENDS Integers, FiniteSets

CONSTANTS
  Burners,     \* processes
  BurnValues,  \* values they write
  MaxPolls,    \* turns of the polling loop (500)
  MaxKills     \* bound on the kills

ASSUME EfuseAssumption == MaxPolls \in Nat /\ MaxKills \in Nat

Fuses == {0, 1}
NoBurner == "nobody"
Blank == "blank"
Spoiled == "spoiled"

\* A process is not nobody, and what is written is neither of the two marks.
ASSUME BurnersAssumption == NoBurner \notin Burners
ASSUME ValuesAssumption == {Blank, Spoiled} \cap BurnValues = {}

VARIABLES
  epc,         \* "idle", "check" or "poll", per process
  efuselock,
  burn,        \* ctl: Cburn
  start,       \* ctl: the fuses whose Cwrite bit is set
  burning,     \* the fuses that the hardware has still to burn
  burndone,    \* ctl: Cburndone
  protection,  \* the fuses whose security bit is set
  data,        \* the lo and hi registers of each fuse
  want,        \* the fuse and the value of each write
  polls,
  fuse,        \* what is burned in each fuse
  written,     \* history: the writes that returned without an error
  late,        \* history: the fuses still being burned after ctl was cleared
  kills

efuseVars == <<epc, efuselock, burn, start, burning, burndone, protection, data, want, polls,
               fuse, written, late, kills>>

EfuseInit ==
  /\ epc = [q \in Burners |-> "idle"]
  /\ efuselock = NoBurner
  /\ burn = FALSE /\ start = {} /\ burning = {} /\ burndone = FALSE
  /\ protection = {}
  /\ data = [f \in Fuses |-> Blank]
  /\ want = [q \in Burners |-> <<0, Blank>>]
  /\ polls = 0
  /\ fuse = [f \in Fuses |-> Blank]
  /\ written = {} /\ late = {}
  /\ kills = 0

EfuseWrite(q) ==
  /\ epc[q] = "idle" /\ efuselock = NoBurner
  /\ efuselock' = q
  /\ \E f \in Fuses, x \in BurnValues : want' = [want EXCEPT ![q] = <<f, x>>]
  /\ epc' = [epc EXCEPT ![q] = "check"]
  /\ UNCHANGED <<burn, start, burning, burndone, protection, data, polls, fuse, written, late,
                 kills>>

Leave(q) == epc' = [epc EXCEPT ![q] = "idle"] /\ efuselock' = NoBurner

\* "burn mode already active" or "efuse already burned".
Refused(q) ==
  /\ epc[q] = "check"
  /\ burn \/ want[q][1] \in protection
  /\ Leave(q)
  /\ UNCHANGED <<burn, start, burning, burndone, protection, data, want, polls, fuse, written,
                 late, kills>>

\* Mutant: the security bit of the fuse is not looked at.
Burn_noprotection(q) ==
  LET f == want[q][1] IN
  /\ epc[q] = "check" /\ ~burn
  /\ burn' = TRUE
  /\ protection' = protection \cup {f}
  /\ data' = [data EXCEPT ![f] = want[q][2]]
  /\ start' = start \cup {f} /\ burning' = burning \cup start'
  /\ polls' = 0
  /\ epc' = [epc EXCEPT ![q] = "poll"]
  /\ UNCHANGED <<efuselock, burndone, want, fuse, written, late, kills>>

\* efwrite: burn mode, the security bit, the value, and the write bit.
Burn(q) ==
  LET f == want[q][1] IN
  /\ epc[q] = "check" /\ ~burn /\ f \notin protection
  /\ burn' = TRUE
  /\ protection' = protection \cup {f}
  /\ data' = [data EXCEPT ![f] = want[q][2]]
  /\ start' = start \cup {f} /\ burning' = burning \cup start'
  /\ polls' = 0
  /\ epc' = [epc EXCEPT ![q] = "poll"]
  /\ UNCHANGED <<efuselock, burndone, want, fuse, written, late, kills>>

\* ctl = 0; the hardware may stop, or go on with what it was asked for.
ClearCtl ==
  /\ burn' = FALSE /\ start' = {} /\ burndone' = FALSE
  /\ burning' \in {burning, {}}
  /\ late' = late \cup burning'

Burned(q) ==
  /\ epc[q] = "poll" /\ burndone
  /\ ClearCtl
  /\ written' = written \cup {want[q]}
  /\ Leave(q)
  /\ UNCHANGED <<protection, data, want, polls, fuse, kills>>

\* Not done: another turn, or "burning timed out" with ctl cleared.
Poll(q) ==
  /\ epc[q] = "poll" /\ ~burndone
  /\ IF polls >= MaxPolls
     THEN ClearCtl /\ Leave(q) /\ UNCHANGED polls
     ELSE polls' = polls + 1 /\ UNCHANGED <<burn, start, burning, burndone, late, epc, efuselock>>
  /\ UNCHANGED <<protection, data, want, fuse, written, kills>>

\* A kill ends the sleep by an error: the lock is released, ctl left as it is.
KillBurner(q) ==
  /\ epc[q] = "poll" /\ kills < MaxKills
  /\ kills' = kills + 1
  /\ Leave(q)
  /\ UNCHANGED <<burn, start, burning, burndone, protection, data, want, polls, fuse, written,
                 late>>

\* The hardware burns a fuse it was asked for, and says so, but not which one.
HwBurn ==
  \E f \in burning :
    /\ fuse' = [fuse EXCEPT ![f] = IF @ = Blank THEN data[f] ELSE Spoiled]
    /\ burning' = burning \ {f}
    /\ burndone' = TRUE
    /\ UNCHANGED <<epc, efuselock, burn, start, protection, data, want, polls, written, late,
                   kills>>

EfuseNext ==
  \/ \E q \in Burners : EfuseWrite(q) \/ Refused(q) \/ Burn(q) \/ Burned(q) \/ Poll(q)
                        \/ KillBurner(q)
  \/ HwBurn

-----------------------------------------------------------------------------
(* Properties                                                              *)

\* A fuse is burned once, and a write that returns without an error is the one
\* it holds, however the writes of two processes, their kills and the timeouts
\* interleave with the hardware.  One case is excepted: the burn of the other fuse
\* went on after a timeout, and its Cburndone is taken for this one's.
BurnedOnce ==
  /\ \A f \in Fuses : fuse[f] # Spoiled
  /\ \A w \in written : fuse[w[1]] = w[2] \/ \E f \in late : f # w[1]

=============================================================================
