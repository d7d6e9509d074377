------------------------------ MODULE MCPolled ------------------------------
(***************************************************************************)
(* The drivers that poll their hardware: each keeps to itself, so a         *)
(* behaviour is one of one of them.                                         *)
(***************************************************************************)
EXTENDS CesaHash, CesaAes, SdRegs, Rtc, Efuse, Nand

VARIABLE driver   \* the driver this behaviour is about

others == <<hashVars, aesVars, regsVars, rtcVars, efuseVars, nandVars>>

Init ==
  /\ driver \in {"hash", "aes", "regs", "rtc", "efuse", "nand"}
  /\ HashInit /\ AesInit /\ RegsInit /\ RtcInit /\ EfuseInit /\ NandInit
  /\ driver # "rtc" => rtc = Registers(sec2rtc(<<10957, 0>>))

Next ==
  /\ UNCHANGED driver
  /\ \/ driver = "hash" /\ HashNext
        /\ UNCHANGED <<aesVars, regsVars, rtcVars, efuseVars, nandVars>>
     \/ driver = "aes" /\ AesNext
        /\ UNCHANGED <<hashVars, regsVars, rtcVars, efuseVars, nandVars>>
     \/ driver = "regs" /\ RegsNext
        /\ UNCHANGED <<hashVars, aesVars, rtcVars, efuseVars, nandVars>>
     \/ driver = "rtc" /\ RtcNext
        /\ UNCHANGED <<hashVars, aesVars, regsVars, efuseVars, nandVars>>
     \/ driver = "efuse" /\ EfuseNext
        /\ UNCHANGED <<hashVars, aesVars, regsVars, rtcVars, nandVars>>
     \/ driver = "nand" /\ NandNext
        /\ UNCHANGED <<hashVars, aesVars, regsVars, rtcVars, efuseVars>>

Spec == Init /\ [][Next]_<<driver, others>>

MCContents ==
  {{i} : i \in 0 .. 127} \cup {(0 .. 127) \ {i} : i \in 0 .. 127}
  \cup {{}, 0 .. 127, 0 .. 125, 0 .. 126}
MCTimes ==
  {<<10957, 0>>, <<11015, 86398>>, <<11016, 86399>>, <<15296, 45297>>,
   <<47480, 86398>>, <<15521, 3>>}

=============================================================================
