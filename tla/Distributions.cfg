SPECIFICATION Spec
CONSTANTS
    small = small
    large = large
    v1 = v1
    sa1 = sa1
    sa2 = sa2
    Posting = {small, large}
    Investor = {v1}
    SuperAdmin = {sa1, sa2}
    Desk = {agent}
    Request = {r1, r2}
    InvestorOf <- MCInvestorOf
    StatusOf <- MCStatusOf
    Material = {large}
    NoStaff = NoStaff
SYMMETRY Symmetry
INVARIANTS
    MaterialTakesTwo
PROPERTIES
    LedgerOnlyForward
    ImplementsFourEyes
