------------------------------- MODULE SdInit -------------------------------
(***************************************************************************)
(* sdiodevinit of kwsdio.c: the commands sdinit sends to identify an SD    *)
(* card, and the card they are sent to.  The card is external: its states  *)
(* and the commands it answers in each are those sdinit relies on.  A card *)
(* may be changed for another between two initialisations; sdio's qlock is *)
(* held during one.                                                        *)
(***************************************************************************)
EXTENDS Integers

CONSTANTS
  Cards,      \* a subset of {"none", "mmc", "sd1", "sd2", "sdhc"}
  MaxPower,   \* tries of ACMD41 (100)
  MaxRca,     \* tries of CMD3 (10)
  ZeroRca,    \* whether a card may answer CMD3 with address 0
  PowerUp,    \* the ACMD41 a card may need before it is ready
  MaxErrors,  \* bound on the commands that fail for no good reason
  MaxInits    \* bound on the initialisations

ASSUME CardsAssumption == Cards \subseteq {"none", "mmc", "sd1", "sd2", "sdhc"}
ASSUME TriesAssumption == MaxPower \in Nat /\ MaxRca \in Nat /\ ZeroRca \in BOOLEAN
ASSUME PowerAssumption == PowerUp \subseteq Nat
ASSUME BoundsAssumption == MaxErrors \in Nat /\ MaxInits \in Nat

VARIABLES
  step,       \* the command sdinit sends next, or "off"
  sd2, sdhc, mmc, rca, valid,   \* of sdio.card; rca is whether it is not 0
  tries,      \* the local i
  clock,      \* "ident" (400 kHz), "25" or "50" MHz
  highspeed,  \* HChighspeed
  card,       \* the card: kind, state, power left, rca
  errors, inits

host == <<sd2, sdhc, mmc, rca, valid>>
line == <<clock, highspeed>>
cardVars == <<step, host, tries, line, card, errors, inits>>

NewCard == [kind : Cards, state : {"idle"}, power : PowerUp, rca : {FALSE}]

CardInit ==
  /\ step = "off"
  /\ sd2 = FALSE /\ sdhc = FALSE /\ mmc = FALSE /\ rca = FALSE /\ valid = FALSE
  /\ tries = 0
  /\ clock = "ident" /\ highspeed = FALSE
  /\ card \in NewCard
  /\ errors = 0 /\ inits = 0

-----------------------------------------------------------------------------
(* The card.  A command that is not for its state gets no answer.          *)

IsSd == card.kind \in {"sd1", "sd2", "sdhc"}

\* CMD55, sent before an ACMD, carries the rca the host has.
AppOk == IsSd /\ rca = card.rca

\* A command that the card answers, and how it changes it.
Answers(c) ==
  CASE c = "cmd0" -> TRUE
    [] c = "cmd8" -> card.kind \in {"sd2", "sdhc"} /\ card.state = "idle"
    [] c = "acmd41" -> AppOk /\ card.state = "idle"
    [] c = "cmd2" -> card.state = "ready"
    [] c = "cmd3" -> card.state \in {"ident", "stby"}
    [] c = "cmd9" -> card.state = "stby" /\ rca = card.rca
    [] c = "cmd7" -> card.state = "stby" /\ rca = card.rca
    [] c = "acmd6" -> AppOk /\ card.state = "tran"
    [] c = "cmd16" -> card.state = "tran"

\* sdcmd: the answer, SDTimeout without one, or some error.
Ok(c) == Answers(c) /\ UNCHANGED errors
NoAnswer(c) == ~Answers(c) /\ UNCHANGED <<errors, card>>
Error == errors < MaxErrors /\ errors' = errors + 1 /\ UNCHANGED card
Failed(c) == NoAnswer(c) \/ Error

At(c) == step = c
Then(c) == step' = c

\* error() out of sdinit: the card stays invalid.
Abort(c) == Failed(c) /\ Then("off") /\ UNCHANGED <<host, line, tries>>

-----------------------------------------------------------------------------
(* sdiodevinit                                                             *)

\* sdioinit0 and the start of sdinit.
Start ==
  /\ At("off") /\ inits < MaxInits
  /\ inits' = inits + 1
  /\ valid' = FALSE
  /\ clock' = "ident" /\ highspeed' = FALSE
  /\ Then("cmd0")
  /\ UNCHANGED <<sd2, sdhc, mmc, rca, tries, card, errors>>

Reset == card' = [card EXCEPT !.state = "idle", !.rca = FALSE]

\* Mutant: the rca of the last card is kept.
Cmd0_keeprca ==
  /\ At("cmd0")
  /\ \/ /\ Ok("cmd0") /\ Reset
        /\ sd2' = FALSE /\ sdhc' = FALSE /\ mmc' = FALSE
        /\ Then("cmd8")
        /\ UNCHANGED <<rca, valid, line, tries>>
     \/ Abort("cmd0")
  /\ UNCHANGED inits

\* To idle, and what is known of the card is forgotten.
Cmd0 ==
  /\ At("cmd0")
  /\ \/ /\ Ok("cmd0") /\ Reset
        /\ sd2' = FALSE /\ sdhc' = FALSE /\ mmc' = FALSE /\ rca' = FALSE
        /\ Then("cmd8")
        /\ UNCHANGED <<valid, line, tries>>
     \/ Abort("cmd0")
  /\ UNCHANGED inits

\* Only cards of version 2 answer; a card that does not is reset again.
Cmd8 ==
  /\ At("cmd8")
  /\ \/ /\ Ok("cmd8") /\ UNCHANGED card
        /\ sd2' = TRUE
        /\ tries' = 0
        /\ Then("acmd41")
        /\ UNCHANGED <<sdhc, mmc, rca, valid, line>>
     \/ Failed("cmd8") /\ Then("cmd0b") /\ UNCHANGED <<host, line, tries>>
     \/ Error /\ Then("off") /\ UNCHANGED <<host, line, tries>>
  /\ UNCHANGED inits

Cmd0b ==
  /\ At("cmd0b")
  /\ \/ Ok("cmd0") /\ Reset /\ tries' = 0 /\ Then("acmd41") /\ UNCHANGED <<host, line>>
     \/ Abort("cmd0")
  /\ UNCHANGED inits

\* A high capacity card is never ready for a host that does not say it can.
CardReady == card.power = 0 /\ (card.kind = "sdhc" => sd2)

\* Mutant: any card of version 2 is taken for one of high capacity.
HighCapacity_sd2 == sd2

HighCapacity == card.kind = "sdhc"

\* if(i++ >= 100) error(...)
NotReady ==
  IF tries >= MaxPower
  THEN Then("off") /\ UNCHANGED tries
  ELSE tries' = tries + 1 /\ UNCHANGED step

\* ACMD41: a card that is not ready is asked again, one that does not answer may
\* be an MMC.
Acmd41 ==
  /\ At("acmd41")
  /\ \/ /\ Ok("acmd41") /\ CardReady
        /\ card' = [card EXCEPT !.state = "ready"]
        /\ sdhc' = HighCapacity
        /\ Then("cmd2")
        /\ UNCHANGED <<sd2, mmc, rca, valid, line, tries>>
     \/ /\ Ok("acmd41") /\ ~CardReady
        /\ card' = [card EXCEPT !.power = IF @ = 0 THEN 0 ELSE @ - 1]
        /\ NotReady
        /\ UNCHANGED <<host, line>>
     \/ /\ NoAnswer("acmd41")
        /\ mmc' = ~sd2
        /\ Then("off")
        /\ UNCHANGED <<sd2, sdhc, rca, valid, line, tries>>
     \/ Error /\ Then("off") /\ UNCHANGED <<host, line, tries>>
  /\ UNCHANGED inits

\* CMD2: the cid is read.
Cmd2 ==
  /\ At("cmd2")
  /\ \/ /\ Ok("cmd2")
        /\ card' = [card EXCEPT !.state = "ident"]
        /\ tries' = 0
        /\ Then("cmd3")
        /\ UNCHANGED <<host, line>>
     \/ Abort("cmd2")
  /\ UNCHANGED inits

\* CMD3: the card chooses an address; 0 is asked for again.
Cmd3 ==
  /\ At("cmd3")
  /\ \/ /\ Ok("cmd3")
        /\ \E r \in IF ZeroRca THEN BOOLEAN ELSE {TRUE} :
             /\ card' = [card EXCEPT !.state = "stby", !.rca = r]
             /\ rca' = r
             /\ IF r THEN Then("cmd9") /\ UNCHANGED tries
                ELSE IF tries = MaxRca THEN Then("off") /\ UNCHANGED tries
                ELSE tries' = tries + 1 /\ UNCHANGED step
        /\ UNCHANGED <<sd2, sdhc, mmc, valid, line>>
     \/ Abort("cmd3")
  /\ UNCHANGED inits

\* CMD9: the csd is read and parsed, and the clock set for the card.
Cmd9 ==
  /\ At("cmd9")
  /\ \/ /\ Ok("cmd9") /\ UNCHANGED card
        /\ clock' = IF sdhc THEN "50" ELSE "25"
        /\ highspeed' = (highspeed \/ sdhc)
        /\ Then("cmd7")
        /\ UNCHANGED <<host, tries>>
     \/ Abort("cmd9")
  /\ UNCHANGED inits

\* CMD7: the card is selected.
Cmd7 ==
  /\ At("cmd7")
  /\ \/ /\ Ok("cmd7")
        /\ card' = [card EXCEPT !.state = "tran"]
        /\ Then("acmd6")
        /\ UNCHANGED <<host, line, tries>>
     \/ Abort("cmd7")
  /\ UNCHANGED inits

\* ACMD6: four data lines.
Acmd6 ==
  /\ At("acmd6")
  /\ \/ Ok("acmd6") /\ Then("cmd16") /\ UNCHANGED <<card, host, line, tries>>
     \/ Abort("acmd6")
  /\ UNCHANGED inits

\* CMD16: blocks of 512 bytes.  The card is valid.
Cmd16 ==
  /\ At("cmd16")
  /\ \/ /\ Ok("cmd16") /\ UNCHANGED card
        /\ valid' = TRUE
        /\ Then("off")
        /\ UNCHANGED <<sd2, sdhc, mmc, rca, line, tries>>
     \/ Abort("cmd16")
  /\ UNCHANGED inits

\* The card is taken out and another put in.
Swap ==
  /\ At("off")
  /\ inits < MaxInits
  /\ card' \in NewCard
  /\ UNCHANGED <<step, host, tries, line, errors, inits>>

Command ==
  \/ Cmd0 \/ Cmd8 \/ Cmd0b \/ Acmd41 \/ Cmd2 \/ Cmd3 \/ Cmd9 \/ Cmd7 \/ Acmd6 \/ Cmd16

CardNext == Start \/ Command \/ Swap

CardSpec == CardInit /\ [][CardNext]_cardVars

\* sdcmd returns, by its timeout at the latest.
CardFairSpec == CardSpec /\ WF_cardVars(Command)

-----------------------------------------------------------------------------
(* Properties                                                              *)

\* When sdinit declares a card valid, that card is selected, has the address
\* the host uses and takes addresses in the unit sdioio will use (blocks for
\* a high capacity card, bytes for another), whatever card was there before.
ValidRight ==
  [][~valid /\ valid' => /\ card.state = "tran"
                         /\ rca = card.rca
                         /\ sdhc = (card.kind = "sdhc")]_cardVars

\* An SD card that powers up in the tries it is given is found valid, whatever
\* card was there before it, when no command fails and the card does not
\* choose address 0.
GoodCardValid ==
  [](errors = 0 /\ (card.state = "stby" => card.rca)) =>
    ((step = "cmd0" /\ IsSd /\ card.power <= MaxPower) ~> valid)

=============================================================================
