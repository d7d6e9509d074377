------------------------------- MODULE MCUart -------------------------------
EXTENDS Uart

MCLinks == [uartclock |-> 1, randomclock |-> 2]

=============================================================================
