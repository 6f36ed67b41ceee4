SPECIFICATION Spec
CONSTANTS
    e1 = e1
    e2 = e2
    e3 = e3
    Event = {e1, e2, e3}
    RoleOf <- MCRoleOf
    StatusOf <- MCStatusOf
    OccurredAt <- MCOccurredAt
    File = {f1, f2}
    NoFile = NoFile
    Request = {r1, r2}
    Attached <- BothDocuments
    MaxTime = 2
    MaxClock = 4
INVARIANTS
    EffectiveIsSigned
    SignedIsEffective
    LatestEventDecides
    PublishedFileExists
CHECK_DEADLOCK FALSE
