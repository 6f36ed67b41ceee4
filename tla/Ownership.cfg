CHECK_DEADLOCK FALSE
SPECIFICATION Spec
CONSTANTS
    Staff = {1, 2, 3, 4}
    Lead = {11, 12}
    Investor = {21}
    PersonOf <- MCPersonOf
    Team0 <- MCTeam0
    Owner0 <- MCOwner0
    AsAgent = {2}
    AsIb = {1}
    Request = {r1, r2}
    MaxBegun = 2
SYMMETRY Symmetry
INVARIANTS
    LeadAgentsActive
    StaleOwnersAreCarried
    HistoryIsExact
