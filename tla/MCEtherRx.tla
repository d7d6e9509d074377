------------------------------ MODULE MCEtherRx ------------------------------
\* EtherRx for TLC: a ring of three with one spare block, as the driver has 50
\* spare blocks for its ring of 512.
EXTENDS EtherRx
CONSTANTS b1, b2, b3, b4
Four == {b1, b2, b3, b4}
=============================================================================
