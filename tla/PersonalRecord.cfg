CHECK_DEADLOCK FALSE
SPECIFICATION RecordSpec
CONSTANTS
    Request = {r1, r2, r3}
    App = {a1, a2}
    MaxBegun = 3
SYMMETRY Symmetry
INVARIANTS
    PortalMeansComplete
    AuditTrail
