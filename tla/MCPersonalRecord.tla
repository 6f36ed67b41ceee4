---------------------------- MODULE MCPersonalRecord ----------------------------
EXTENDS PersonalRecord, TLC

Symmetry == Permutations(Request) \cup Permutations(App)
=============================================================================
