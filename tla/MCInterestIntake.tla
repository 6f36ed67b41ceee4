--------------------------- MODULE MCInterestIntake ---------------------------
(* One investor; two interests on each of two assets, or four on one.        *)
EXTENDS InterestIntake, TLC

CONSTANTS i1, i2, i3, i4, a1, a2, v1

MCInvestorOf == [i \in Interest |-> v1]
MCAssetOf == [i \in Interest |-> IF i \in {i1, i3} \/ a2 \notin Asset THEN a1 ELSE a2]

Symmetry == Permutations({i1, i3}) \cup Permutations({i2, i4}) \cup Permutations(Request)
=============================================================================
