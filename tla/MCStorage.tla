------------------------------ MODULE MCStorage ------------------------------
(***************************************************************************)
(* A Store on an SD card: sdinit identifies the card, partinit reads its    *)
(* tables and io uses the partitions, sdioio moves the blocks.  The lock of *)
(* the Store keeps the first two from the last (BlockStore.tla), so a       *)
(* behaviour is one of one of the three.                                    *)
(***************************************************************************)
EXTENDS SdInit, SdIo, Disk

VARIABLE part   \* what this behaviour is about

MCInit ==
  /\ part \in {"card", "tables", "transfer"}
  /\ CardInit /\ PartInit /\ Init
  /\ part # "card" => card = [kind |-> "sdhc", state |-> "idle", power |-> 0, rca |-> FALSE]
  /\ part # "tables" => phase = "mbr"

MCNext ==
  /\ UNCHANGED part
  /\ \/ part = "card" /\ CardNext /\ UNCHANGED <<partVars, vars>>
     \/ part = "tables" /\ PartNext /\ UNCHANGED <<cardVars, vars>>
     \/ part = "transfer" /\ Next /\ UNCHANGED <<cardVars, partVars>>

MCSpec ==
  /\ MCInit /\ [][MCNext]_<<part, cardVars, partVars, vars>>
  /\ WF_cardVars(part = "card" /\ Command /\ UNCHANGED <<part, partVars, vars>>)
  /\ \A q \in Procs : SF_vars(part = "transfer" /\ Work(q) /\ UNCHANGED <<part, cardVars, partVars>>)

Clashing == {<<"plan9">>, <<"plan9", 0>>}

=============================================================================
