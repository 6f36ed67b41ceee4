------------------------------- MODULE FourEyes -------------------------------
(***************************************************************************)
(* What the four-eyes control promises, apart from where it is used.       *)
(*                                                                         *)
(* An item is something staff can carry out at most once: confirming an    *)
(* interest, posting a payment, cancelling a payment.  An item of Guarded  *)
(* is material and takes two distinct super admins: one endorses it, and   *)
(* another one, later, carries it out and uses the endorsement up.         *)
(*                                                                         *)
(* Confirmations (InterestConfirm) and the payment ledger (Distributions)  *)
(* are both shown to implement this specification.                         *)
(***************************************************************************)
CONSTANTS
    Item,        \* what can be carried out
    Actor,       \* the staff who carry items out
    SuperAdmin,  \* the actors who can endorse a guarded item
    Guarded,     \* the items at or above the threshold
    None         \* no endorsement, or not carried out

VARIABLES
    endorsed,  \* the super admin whose endorsement of an item is pending
    executed   \* who endorsed and who carried out an item, once it is done

vars == <<endorsed, executed>>

Init ==
    /\ endorsed = [i \in Item |-> None]
    /\ executed = [i \in Item |-> None]

\* A super admin is recorded as the first of the two.
Endorse(i, a) ==
    /\ i \in Guarded
    /\ endorsed[i] = None
    /\ endorsed' = [endorsed EXCEPT ![i] = a]
    /\ UNCHANGED executed

\* The endorsement of a guarded item is used up by someone else, once.
ExecuteGuarded(i, a) ==
    /\ i \in Guarded
    /\ executed[i] = None
    /\ endorsed[i] \notin {None, a}
    /\ executed' = [executed EXCEPT ![i] = [first |-> endorsed[i], by |-> a]]
    /\ endorsed' = [endorsed EXCEPT ![i] = None]

\* An item below the threshold needs nobody else.
ExecutePlain(i, a) ==
    /\ i \in Item \ Guarded
    /\ executed[i] = None
    /\ executed' = [executed EXCEPT ![i] = [first |-> None, by |-> a]]
    /\ UNCHANGED endorsed

Next ==
    \E i \in Item :
        \/ \E a \in SuperAdmin : Endorse(i, a) \/ ExecuteGuarded(i, a)
        \/ \E a \in Actor : ExecutePlain(i, a)

Spec == Init /\ [][Next]_vars

-----------------------------------------------------------------------------
\* An item is carried out at most once, and a guarded one only while an
\* endorsement of it is pending, which is thereby used up.
EndorsementsAreUsedOnce ==
    [][\A i \in Item :
         executed'[i] # executed[i] =>
             /\ executed[i] = None
             /\ i \in Guarded => endorsed[i] # None /\ endorsed'[i] = None]_vars

\* No guarded item is ever carried out by one person alone, nor by anyone
\* who is not a super admin.
TwoPersonRule ==
    \A i \in Item \cap Guarded :
        executed[i] # None =>
            /\ {executed[i].first, executed[i].by} \subseteq SuperAdmin
            /\ executed[i].first # executed[i].by

=============================================================================
