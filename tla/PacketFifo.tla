----------------------------- MODULE PacketFifo -----------------------------
(***************************************************************************)
(* What the transmit side of the ethernet driver promises: packets that are *)
(* accepted wait, the oldest one that waits goes out next, and only a       *)
(* packet of a bad size leaves without going out.  Nothing is said of       *)
(* queues, descriptors or causes.                                          *)
(***************************************************************************)
EXTENDS Naturals, Sequences

CONSTANT Bad    \* packets of a size that is refused

VARIABLES
  accepted,     \* how many packets have been accepted: they are numbered
  waiting,      \* those that have neither gone out nor been refused
  out           \* the packets that went out, in order

Init == accepted = 0 /\ waiting = {} /\ out = <<>>

Accept ==
  /\ accepted' = accepted + 1
  /\ waiting' = waiting \cup {accepted + 1}
  /\ UNCHANGED out

Deliver(p) ==
  /\ p \notin Bad
  /\ \A q \in waiting : p <= q
  /\ out' = Append(out, p)
  /\ waiting' = waiting \ {p}
  /\ UNCHANGED accepted

Reject(p) ==
  /\ p \in Bad
  /\ waiting' = waiting \ {p}
  /\ UNCHANGED <<accepted, out>>

Next == Accept \/ \E p \in waiting : Deliver(p) \/ Reject(p)

Spec == Init /\ [][Next]_<<accepted, waiting, out>>

=============================================================================
