-------------------------- MODULE MCInterestConfirm --------------------------
(* Rows for the run of InterestConfirm: two investors, each with an interest *)
(* in one asset that has room for one of them, on either side of the         *)
(* threshold.  Both can be pending and in confirmation at once.  The small   *)
(* one's investor has yet to pass KYC, the big one's starts approved.        *)
EXTENDS InterestConfirm, TLC

CONSTANTS small, big, v1, v2, a1, sa1, sa2

MCInvestorOf == [i \in Interest |-> IF i = small THEN v1 ELSE v2]
MCAssetOf == [i \in Interest |-> a1]
MCAmountOf == [i \in Interest |-> IF i = small THEN 1 ELSE 2]
MCKycStart == {[v \in Investor |-> IF v = v1 THEN "submitted" ELSE "approved"]}

Symmetry == Permutations({sa1, sa2}) \cup Permutations(Request)
=============================================================================
