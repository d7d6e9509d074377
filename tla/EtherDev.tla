------------------------------ MODULE EtherDev ------------------------------
(***************************************************************************)
(* devether.c on the transmit ring of EtherTx: packets that are written or  *)
(* come from the wire are multiplexed to the connections that want them,    *)
(* by reference where the block is not needed after, else by copy.          *)
(* etheriq runs with interrupts off (in the handler, or at splhi), so it    *)
(* is one step.  An allocation may fail and the queue of a connection may    *)
(* be full, whatever its readers do.                                         *)
(***************************************************************************)
EXTENDS EtherTx, FiniteSetsExt

CONSTANTS
  Setups,    \* what the connections may ask for: sequences of Netfile settings
  MaxIq      \* packets from the wire and looped back (bound)

Types == {"ip", "arp"}
Settings == [type : Types \cup {"all"}, prom : BOOLEAN, bridge : BOOLEAN, headersonly : BOOLEAN]

\* A Netif has an array of Netfiles.
ASSUME IqAssumption == MaxIq \in Nat
ASSUME SetupsAssumption ==
  \A s \in Setups : /\ DOMAIN s \subseteq Nat /\ IsFiniteSet(DOMAIN s)
                    /\ \A i \in DOMAIN s : s[i] \in Settings

Dests == {"me", "bcast", "group", "unknowngroup", "other"}
Sources == {"me", "other"}

VARIABLES
  f,         \* Ether.f: type ("all" for type < 0), prom, bridge and headersonly
  prom,      \* Ether.prom is not 0
  wire,      \* packets from the wire and looped back so far
  iq         \* history: the call of etheriq this step made, or NoIq

devVars == <<f, prom, wire, iq>>

NoIq == [pkt |-> [d |-> "other", s |-> "other", type |-> "ip"], fromwire |-> TRUE,
         wanted |-> {}, copied |-> {}, traced |-> {}, given |-> {}, over |-> 0, freed |-> 1]

DevInit ==
  /\ Init
  /\ f \in Setups
  /\ prom \in BOOLEAN
  /\ wire = 0
  /\ iq = NoIq

\* etheriq: a multicast address nobody is in the group of.
Unwanted(pkt) == pkt.d = "unknowngroup" /\ ~prom

\* The test of a connection in the loop of etheriq.
Wants(c, pkt, fromwire) ==
  /\ c.type \in {pkt.type, "all"}
  /\ pkt.d \in {"me", "bcast", "group", "unknowngroup"} \/ c.prom
  /\ ~(c.bridge /\ ~fromwire /\ pkt.s # "me")

\* Mutant: the block is passed on also when it is needed after.
First_always(want, fromwire) ==
  LET full == {i \in want : ~f[i].headersonly} IN
  IF full # {} THEN {Min(full)} ELSE {}

\* fx: the first connection that wants all of a packet from the wire.
First(want, fromwire) ==
  LET full == {i \in want : ~f[i].headersonly} IN
  IF fromwire /\ full # {} THEN {Min(full)} ELSE {}

\* etheriq, with takes the connections whose queue has room and for whom iallocb,
\* where it is called, succeeds.
etheriq(pkt, fromwire, takes) ==
  LET want   == IF Unwanted(pkt) THEN {} ELSE {i \in DOMAIN f : Wants(f[i], pkt, fromwire)}
      heads  == {i \in want : f[i].headersonly}
      fx     == First(want, fromwire)
      others == (want \ heads) \ fx
  IN iq' = [pkt |-> pkt, fromwire |-> fromwire, wanted |-> want,
            copied |-> others \cap takes, traced |-> heads \cap takes,
            given |-> fx \cap takes, over |-> Cardinality((others \cup fx) \ takes),
            freed |-> IF fx # {} THEN Cardinality(fx \ takes)
                      ELSE IF fromwire THEN 1 ELSE 0]

\* receive passes a packet on; only packets for this address and multicast ones
\* come in unless the interface is promiscuous.
FromWire ==
  /\ Running /\ wire < MaxIq
  /\ wire' = wire + 1
  /\ \E d \in Dests, t \in Types, takes \in SUBSET DOMAIN f :
       /\ d = "other" => prom
       /\ etheriq([d |-> d, s |-> "other", type |-> t], TRUE, takes)
  /\ UNCHANGED <<f, prom, vars>>

\* etherwrite puts this address in the packet, etherbwrite (a bridge) leaves it.
\* etheroq: a packet for this address is looped back and freed; a broadcast, and
\* any packet on a promiscuous interface, is looped back and sent.
LoopBack ==
  /\ Running /\ wire < MaxIq
  /\ wire' = wire + 1
  /\ \E s \in Sources, t \in Types, takes \in SUBSET DOMAIN f :
       etheriq([d |-> "me", s |-> s, type |-> t], FALSE, takes)
  /\ UNCHANGED <<f, prom, vars>>

SendAndLoop ==
  /\ wire < MaxIq
  /\ wire' = wire + 1
  /\ Write
  /\ \E d \in Dests \ {"me"}, s \in Sources, t \in Types, takes \in SUBSET DOMAIN f :
       /\ d = "bcast" \/ prom
       /\ etheriq([d |-> d, s |-> s, type |-> t], FALSE, takes)
  /\ UNCHANGED <<f, prom>>

\* A step without etheriq.
Quiet == iq' = NoIq /\ UNCHANGED <<f, prom, wire>>

\* Any other packet is only sent.
SendOnly == ~prom /\ Write /\ Quiet

DevNext ==
  \/ FromWire \/ LoopBack \/ SendAndLoop \/ SendOnly
  \/ (CallTransmit \/ IntrRead \/ IntrClear \/ Transmit \/ HwSend) /\ Quiet

\* As FairSpec of EtherTx; nothing more is assumed of the connections.
DevSpec ==
  /\ DevInit
  /\ [][DevNext]_<<vars, devVars>>
  /\ WF_vars(CallTransmit /\ Quiet) /\ SF_vars(IntrRead /\ irqe /\ Quiet)
  /\ WF_vars(IntrClear /\ Quiet) /\ WF_vars(Transmit /\ Quiet) /\ WF_vars(HwSend /\ Quiet)

-----------------------------------------------------------------------------
(* Properties                                                              *)

\* What a connection should see: packets of its type that are for this address,
\* multicast to a group it is in, or any if it is promiscuous; a bridge does not
\* see what another bridged.
Sees(c, pkt, fromwire) ==
  /\ c.type = "all" \/ c.type = pkt.type
  /\ IF pkt.d = "unknowngroup" THEN prom ELSE pkt.d # "other" \/ c.prom
  /\ c.bridge => fromwire \/ pkt.s = "me"

\* etheriq: every connection that should see a packet gets it once, or an
\* overflow is counted; the block of a packet from the wire is passed on or
\* freed, one of them and once, and that of a written packet is left alone.
MuxRight ==
  LET c(i) == f[i]
      should == {i \in DOMAIN f : Sees(c(i), iq.pkt, iq.fromwire)}
      whole == {i \in should : ~c(i).headersonly}
  IN iq # NoIq =>
     /\ iq.copied \cup iq.given \subseteq whole
     /\ iq.copied \cap iq.given = {}
     /\ Cardinality(iq.copied) + Cardinality(iq.given) + iq.over = Cardinality(whole)
     /\ iq.traced \subseteq should \ whole
     /\ Cardinality(iq.given) + iq.freed = IF iq.fromwire THEN 1 ELSE 0

=============================================================================
