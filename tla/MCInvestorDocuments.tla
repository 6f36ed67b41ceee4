-------------------------- MODULE MCInvestorDocuments --------------------------
(* Two KYC uploads of an identity document, an address proof that staff      *)
(* upload, and the signed copy of an agreement.                              *)
EXTENDS InvestorDocuments, TLC

CONSTANTS id1, id2, proof, copy

MCKindOf == [d \in Document |-> CASE d \in {id1, id2} -> "kyc"
                                  [] d = proof -> "staff"
                                  [] d = copy -> "signed"]
MCCategoryOf == [d \in Document |-> CASE d \in {id1, id2} -> "kyc_id"
                                      [] d = proof -> "kyc_address"
                                      [] d = copy -> "contract_signed_agreement"]

Symmetry == Permutations({id1, id2} \cap Document) \cup Permutations(Request)
=============================================================================
