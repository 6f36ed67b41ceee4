----------------------------- MODULE MCApplications -----------------------------
EXTENDS Applications, TLC

CONSTANTS p1, p2, i1, u1

MCLead0 == [l \in Lead |-> None]
Symmetry == Permutations(Request) \cup Permutations(Person)
=============================================================================
