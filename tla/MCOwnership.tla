------------------------------ MODULE MCOwnership ------------------------------
(* Two IBs, an agent of either and a newcomer; the second IB's id is smaller *)
(* than its agents'.                                                         *)
EXTENDS Ownership, TLC

Profile0(role, ib) == [role |-> role, ib |-> ib, active |-> role # "none"]
MCTeam0 == [s \in Staff |-> CASE s = 2 -> Profile0("agent", 3)
                              [] s \in {1, 3} -> Profile0("ib", 0)
                              [] s = 4 -> Profile0("agent", 3)
                              [] OTHER -> Profile0("none", 0)]
\* Unassigned, in the queue of the second IB, or with its first agent.
MCOwner0 == {Nobody, [ib |-> 3, agent |-> 0], [ib |-> 3, agent |-> 2]}
MCPersonOf == [l \in Lead |-> 21]
Symmetry == Permutations(Request)
=============================================================================
