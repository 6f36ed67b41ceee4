----------------------------- MODULE MCPublicForms -----------------------------
EXTENDS PublicForms, TLC

CONSTANTS i1

MCIpOf == [t \in Tab |-> i1]
=============================================================================
