------------------------------- MODULE MCEther -------------------------------
EXTENDS EtherDev

Conn(t, p, b, h) == [type |-> t, prom |-> p, bridge |-> b, headersonly |-> h]

MCSetups ==
  {<<Conn("ip", FALSE, FALSE, FALSE), Conn("all", TRUE, TRUE, FALSE)>>,
   <<Conn("all", TRUE, FALSE, TRUE), Conn("ip", FALSE, FALSE, FALSE),
     Conn("ip", TRUE, FALSE, FALSE)>>,
   <<Conn("all", FALSE, TRUE, TRUE), Conn("arp", FALSE, FALSE, FALSE)>>}

=============================================================================
