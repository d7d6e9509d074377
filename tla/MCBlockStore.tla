---------------------------- MODULE MCBlockStore ----------------------------
\* BlockStore for TLC: two processes.
EXTENDS BlockStore
CONSTANTS q1, q2
Two == {q1, q2}
=============================================================================
