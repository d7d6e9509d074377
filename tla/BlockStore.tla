----------------------------- MODULE BlockStore -----------------------------
(***************************************************************************)
(* The block store device of devbs.c: one Store d, its partition table and *)
(* the two RWlocks.  A process walks to a partition by its name, opens it, *)
(* does i/o on it and closes it, while others list the directories, change *)
(* permissions, and re-initialise the disk or its partition table.         *)
(* bs is always locked before d.  A walk gives a Chan the index of the     *)
(* partition in the table; open gives it Store.vers, and i/o on an older   *)
(* version fails.  Permissions are left out: devopen may always refuse.    *)
(***************************************************************************)
EXTENDS Integers, FiniteSets, Sequences, SequencesExt

CONSTANTS
  Procs,      \* each with one Chan
  NoProc,
  Names,      \* names of partitions partinit may find
  MaxVers     \* bound on the re-initialisations

ASSUME PartsAssumption == {"", "data"} \cap Names = {} /\ IsFiniteSet(Names)
ASSUME VersAssumption == MaxVers \in Nat \ {0}
ASSUME NoProcAssumption == NoProc \notin Procs

PartNums == 0 .. Cardinality(Names)

\* The tables partinit may leave: "data" and what it finds, in any order.
Tables == {<<"data">> \o t : t \in UNION {SetToSeqs(ns) : ns \in SUBSET Names}}

NoName == ""

VARIABLES
  bs, d,      \* the RWlocks: [w |-> writer, r |-> readers]
  ready, parts, vers,    \* of the Store; parts holds the names, nparts of them
  isopen,     \* Part.isopen
  chan,       \* the Chan of each process on a partition file
  ctlvers,    \* version of its Chan on the disk's ctl file
  pc, op,     \* what each process does
  panicked

locks == <<bs, d>>
store == <<ready, parts, vers, isopen>>
vars == <<locks, store, chan, ctlvers, pc, op, panicked>>

nparts == Len(parts)

\* A Chan on a partition file: the index of the partition, qid.vers once it is
\* open; and, as history, the name walked to with Store.vers at the walk until
\* the open, or no name when the table changed in between.
NoChan == [walked |-> FALSE, open |-> FALSE, part |-> 0, vers |-> 0, name |-> "data"]

Init ==
  /\ bs = [w |-> NoProc, r |-> {}]
  /\ d = [w |-> NoProc, r |-> {}]
  /\ ready = FALSE /\ parts = <<>> /\ vers = 0
  /\ isopen = [i \in PartNums |-> 0]
  /\ chan = [q \in Procs |-> NoChan]
  /\ ctlvers = [q \in Procs |-> 0]
  /\ pc = [q \in Procs |-> "idle"]
  /\ op = [q \in Procs |-> "open"]
  /\ panicked = FALSE

-----------------------------------------------------------------------------
(* Locks.  The commands wlock bs, all else rlocks it.  The commands, an    *)
(* open of the directory, wstat and close wlock d.  "init" is the command  *)
(* on bsctl; "diskinit" and "partinit" are written to the disk's own ctl   *)
(* file.                                                                   *)

Commands == {"init", "diskinit", "partinit"}

BsWriter(q) == op[q] \in Commands
DWriter(q) == op[q] \in Commands \cup {"close", "wstat", "opendir"}

\* Those that use diskgetlock, which drops bs as soon as it has d.
Diskgetlock == {"io", "close", "wstat"}

CanLock(l, w) == l.w = NoProc /\ (w => l.r = {})
Locked(l, q, w) == IF w THEN [l EXCEPT !.w = q] ELSE [l EXCEPT !.r = @ \cup {q}]
Unlocked(l, q) == [w |-> IF l.w = q THEN NoProc ELSE l.w, r |-> l.r \ {q}]

At(q, l) == ~panicked /\ pc[q] = l
Goto(q, l) == pc' = [pc EXCEPT ![q] = l]

\* The operation ends, also by error(): every lock is released and a Chan on the
\* ctl file is closed.
Done(q) ==
  /\ Goto(q, "idle")
  /\ bs' = Unlocked(bs, q)
  /\ d' = Unlocked(d, q)
  /\ op' = [op EXCEPT ![q] = "open"]
  /\ ctlvers' = [ctlvers EXCEPT ![q] = 0]

\* The bound: no more re-initialisations than MaxVers, those under way included.
MayCommand == vers + Cardinality({r \in Procs : op[r] \in Commands}) < MaxVers

\* A process starts an operation that makes sense for its Chan.  A command on
\* the disk's ctl file opens that file first, which takes and drops both rlocks.
Begin(q) ==
  /\ At(q, "idle")
  /\ \/ \E n \in Names \cup {"data"} :
          /\ ~chan[q].walked
          /\ op' = [op EXCEPT ![q] = "walk"]
          /\ chan' = [chan EXCEPT ![q].name = n]
          /\ UNCHANGED ctlvers
     \/ \E o \in {"open", "io", "close", "wstat", "opendir"} :
          /\ o = "open" => chan[q].walked /\ ~chan[q].open
          /\ o \in {"io", "close"} => chan[q].open
          /\ o = "close" => chan[q].part # 0
          /\ o = "wstat" => chan[q].walked
          /\ op' = [op EXCEPT ![q] = o]
          /\ UNCHANGED <<chan, ctlvers>>
     \/ /\ MayCommand
        /\ op' = [op EXCEPT ![q] = "init"]
        /\ UNCHANGED <<chan, ctlvers>>
     \/ \E o \in {"diskinit", "partinit"} :
          /\ MayCommand
          /\ CanLock(bs, FALSE) /\ CanLock(d, FALSE)
          /\ op' = [op EXCEPT ![q] = o]
          /\ ctlvers' = [ctlvers EXCEPT ![q] = vers]
          /\ UNCHANGED chan
  /\ Goto(q, "lockbs")
  /\ UNCHANGED <<locks, store, panicked>>

\* Closing the data partition, or a Chan that is not open, takes no lock.
CloseData(q) ==
  /\ At(q, "idle")
  /\ chan[q].walked /\ (chan[q].open => chan[q].part = 0)
  /\ chan' = [chan EXCEPT ![q] = NoChan]
  /\ UNCHANGED <<locks, store, ctlvers, pc, op, panicked>>

LockBs(q) ==
  /\ At(q, "lockbs")
  /\ CanLock(bs, BsWriter(q))
  /\ bs' = Locked(bs, q, BsWriter(q))
  /\ Goto(q, "lockd")
  /\ UNCHANGED <<d, store, chan, ctlvers, op, panicked>>

LockD(q) ==
  /\ At(q, "lockd")
  /\ CanLock(d, DWriter(q))
  /\ d' = Locked(d, q, DWriter(q))
  /\ bs' = IF op[q] \in Diskgetlock THEN Unlocked(bs, q) ELSE bs
  /\ Goto(q, op[q])
  /\ UNCHANGED <<store, chan, ctlvers, op, panicked>>

-----------------------------------------------------------------------------
(* Operations, with their locks held.                                      *)

\* xpartget finds the partition of the Chan.
HasPart(q) == ready /\ chan[q].part < nparts

\* bsgen: the entry of a partition in the disk's directory, after the other files,
\* is its index in the table.
bsgen(i) == i - 1

\* bswalk: devwalk finds the name with bsgen, or the walk fails.  bsstat and the
\* reads of directories do the same and change no Chan.
Walk(q) ==
  /\ At(q, "walk")
  /\ chan' = IF \E i \in DOMAIN parts : parts[i] = chan[q].name
             THEN LET i == CHOOSE i \in DOMAIN parts : parts[i] = chan[q].name IN
                  [chan EXCEPT ![q] = [walked |-> TRUE, open |-> FALSE, part |-> bsgen(i),
                                       vers |-> vers, name |-> @.name]]
             ELSE [chan EXCEPT ![q] = NoChan]
  /\ Done(q)
  /\ UNCHANGED <<store, panicked>>

\* An open of the disk's directory, and bswstat (which changes the permissions of
\* the data partition, whatever the file).
Look(q) ==
  /\ op[q] \in {"opendir", "wstat"} /\ At(q, op[q])
  /\ Done(q)
  /\ UNCHANGED <<store, chan, panicked>>

\* Mutant: a failed open leaves the locks.
OpenCheck_keeplocks(q) ==
  /\ At(q, "open")
  /\ IF HasPart(q) /\ (chan[q].part = 0 \/ isopen[chan[q].part] = 0)
     THEN Goto(q, "opening")
     ELSE Goto(q, "idle")
  /\ UNCHANGED <<locks, op, store, chan, ctlvers, panicked>>

\* bsopen looks at isopen ...
OpenCheck(q) ==
  /\ At(q, "open")
  /\ IF HasPart(q) /\ (chan[q].part = 0 \/ isopen[chan[q].part] = 0)
     THEN Goto(q, "opening") /\ UNCHANGED <<locks, op, ctlvers>>
     ELSE Done(q)
  /\ UNCHANGED <<store, chan, panicked>>

\* ... and increments it after devopen, with d only rlocked.  For "data" p is nil
\* by then, so a word of low memory is incremented that is no part of this.
Open(q) ==
  /\ At(q, "opening")
  /\ chan' = [chan EXCEPT ![q].open = TRUE, ![q].vers = vers,
                          ![q].name = IF chan[q].vers = vers THEN @ ELSE NoName]
  /\ isopen' = IF chan[q].part = 0 THEN isopen ELSE [isopen EXCEPT ![chan[q].part] = @ + 1]
  /\ Done(q)
  /\ UNCHANGED <<ready, parts, vers, panicked>>

\* devopen may refuse: the permissions do not allow it.
OpenRefused(q) ==
  /\ At(q, "opening")
  /\ Done(q)
  /\ UNCHANGED <<store, chan, panicked>>

\* Mutant: the Estale check is missing.
IoCheck_nostale(q) ==
  /\ At(q, "io")
  /\ IF HasPart(q)
     THEN Goto(q, "transfer") /\ UNCHANGED <<locks, op, ctlvers>>
     ELSE Done(q)
  /\ UNCHANGED <<store, chan, panicked>>

\* bsdevread and bsdevwrite: Estale, Enodisk, Enopart, or on to the i/o.
IoCheck(q) ==
  /\ At(q, "io")
  /\ IF chan[q].vers = vers /\ HasPart(q)
     THEN Goto(q, "transfer") /\ UNCHANGED <<locks, op, ctlvers>>
     ELSE Done(q)
  /\ UNCHANGED <<store, chan, panicked>>

Transfer(q) ==
  /\ At(q, "transfer")
  /\ Done(q)
  /\ UNCHANGED <<store, chan, panicked>>

\* bsclose: only a Chan of the current version touches isopen.
Close(q) ==
  /\ At(q, "close")
  /\ IF chan[q].vers # vers
     THEN UNCHANGED <<isopen, panicked>>
     ELSE IF ~HasPart(q) THEN UNCHANGED <<isopen, panicked>>
     ELSE IF isopen[chan[q].part] # 1 THEN panicked' = TRUE /\ UNCHANGED isopen
     ELSE isopen' = [isopen EXCEPT ![chan[q].part] = 0] /\ UNCHANGED panicked
  /\ chan' = [chan EXCEPT ![q] = NoChan]
  /\ Done(q)
  /\ UNCHANGED <<ready, parts, vers>>

\* diskinit: devinit may fail; partinit, run last, may fail and leave "data".
\* Part.isopen of the partitions it finds is 0; of others nobody looks at it.
diskinit ==
  /\ vers' = vers + 1
  /\ isopen' = [i \in PartNums |-> 0]
  /\ \/ ready' = FALSE /\ parts' = <<>>
     \/ ready' = TRUE /\ parts' \in Tables

\* The rest of "partinit" on a ready disk: the data partition is kept.
partinit ==
  /\ vers' = vers + 1
  /\ parts' \in Tables
  /\ isopen' = [i \in PartNums |-> IF i = 0 THEN isopen[0] ELSE 0]
  /\ UNCHANGED ready

\* bswrite of a command.  The disk's ctl file raises Estale, "init" does not.
Command(q) ==
  /\ op[q] \in Commands /\ At(q, op[q])
  /\ \/ op[q] = "init" /\ diskinit
     \/ op[q] = "diskinit" /\ ctlvers[q] = vers /\ diskinit
     \/ op[q] = "partinit" /\ ctlvers[q] = vers /\ ready /\ partinit
     \/ /\ op[q] # "init"
        /\ ctlvers[q] = vers => op[q] = "partinit" /\ ~ready
        /\ UNCHANGED <<ready, parts, vers, isopen>>
  /\ Done(q)
  /\ UNCHANGED <<chan, panicked>>

Work(q) ==
  \/ LockBs(q) \/ LockD(q) \/ Walk(q) \/ Look(q) \/ OpenCheck(q) \/ Open(q) \/ IoCheck(q) \/ Transfer(q)
  \/ OpenRefused(q) \/ Close(q) \/ Command(q)

Next == \E q \in Procs : Begin(q) \/ CloseData(q) \/ Work(q)

Spec == Init /\ [][Next]_vars

\* A process that is in an operation goes on, and gets an RWlock in its turn.
FairSpec == Spec /\ \A q \in Procs : SF_vars(Work(q))

-----------------------------------------------------------------------------
(* Properties                                                              *)

\* i/o reaches the partition whose name was walked to, by whatever processes the
\* disk is re-initialised before, between and after; the exception is a
\* re-initialisation between the walk and the open, which open does not notice.
IoOnWalked ==
  \A q \in Procs :
    pc[q] = "transfer" =>
      /\ HasPart(q)
      /\ chan[q].name # NoName => parts[chan[q].part + 1] = chan[q].name

\* bs.h:5 "wlocks for: init,diskinit,modifying values": a partition other than
\* data is open once, the Chan of the current version that bsclose will find.
OpenOnce ==
  \A q, r \in Procs :
    /\ q # r /\ chan[q].open /\ chan[r].open
    /\ chan[q].part = chan[r].part /\ chan[q].part # 0
    => chan[q].vers # vers \/ chan[r].vers # vers

\* No operation is blocked for ever by the two locks.
OpsFinish == \A q \in Procs : pc[q] = "lockbs" ~> (pc[q] = "idle" \/ panicked)

=============================================================================
