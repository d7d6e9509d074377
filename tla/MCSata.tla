------------------------------- MODULE MCSata -------------------------------
\* Sata for TLC: the cfgs choose depths, slots and faults.
EXTENDS Sata, TLC
CONSTANTS p1, p2, k
Two == {p1, p2}
Symmetry == Permutations(Procs)
=============================================================================
