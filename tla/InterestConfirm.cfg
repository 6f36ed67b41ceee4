SPECIFICATION Spec
CONSTANTS
    small = small
    big = big
    v1 = v1
    v2 = v2
    a1 = a1
    sa1 = sa1
    sa2 = sa2
    Interest = {small, big}
    Investor = {v1, v2}
    Asset = {a1}
    SuperAdmin = {sa1, sa2}
    Desk = {agent}
    Request = {r1, r2}
    InvestorOf <- MCInvestorOf
    AssetOf <- MCAssetOf
    AmountOf <- MCAmountOf
    Threshold = 2
    Capacities = {0, 2}
    KycStart <- MCKycStart
    ScreeningResults = {"clear", "review"}
    NoStaff = NoStaff
SYMMETRY Symmetry
INVARIANTS
    TwoSuperAdmins
    HoldingsMatchDecisions
PROPERTIES
    DecisionsAreFinal
    ClearedAtConfirmation
    DecidedInScope
    NeverOverCommitted
    ImplementsFourEyes
