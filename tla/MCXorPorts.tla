----------------------------- MODULE MCXorPorts -----------------------------
\* XorPorts for TLC: two engines; the cfgs choose the processes.
EXTENDS XorPorts, TLC
CONSTANTS q1, q2, q3
Three == {q1, q2, q3}
Two == {q1, q2}
Symmetry == Permutations(Procs)
=============================================================================
