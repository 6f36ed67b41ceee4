CHECK_DEADLOCK FALSE
SPECIFICATION Spec
CONSTANTS
    id1 = id1
    id2 = id2
    proof = proof
    copy = copy
    Document = {id1, id2, proof, copy}
    KindOf <- MCKindOf
    CategoryOf <- MCCategoryOf
    Required = {"kyc_id", "kyc_address"}
    Cap = 1
    Request = {r1, r2}
SYMMETRY Symmetry
INVARIANTS
    RowsHaveFiles
    WithinCap
    DecidedPackIsKept
PROPERTIES
    PackIsFrozen
