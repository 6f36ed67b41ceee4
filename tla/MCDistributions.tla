---------------------------- MODULE MCDistributions ----------------------------
(* Two postings for one investor: "large" takes two super admins and is      *)
(* recorded as paid, "small" takes one member of staff.                      *)
EXTENDS Distributions, TLC

CONSTANTS small, large, v1, sa1, sa2

MCInvestorOf == [p \in Posting |-> v1]
MCStatusOf == [p \in Posting |-> IF p = small THEN "scheduled" ELSE "paid"]

Symmetry == Permutations(SuperAdmin) \cup Permutations(Request)
=============================================================================
