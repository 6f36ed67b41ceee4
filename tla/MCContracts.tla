----------------------------- MODULE MCContracts -----------------------------
(* The investor declines and then signs, by the provider's time; the legal   *)
(* signer lets the request expire.                                           *)
EXTENDS Contracts

CONSTANTS e1, e2, e3

MCRoleOf == [e \in Event |-> IF e \in {e1, e2} THEN "investor" ELSE "legal_signer"]
MCStatusOf == [e \in Event |-> CASE e = e1 -> "signed"
                                 [] e = e2 -> "declined"
                                 [] e = e3 -> "expired"]
MCOccurredAt == [e \in Event |-> IF e = e1 THEN 2 ELSE 1]

BothDocuments == {"summary", "agreement"}
=============================================================================
