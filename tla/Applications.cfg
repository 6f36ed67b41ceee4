CHECK_DEADLOCK FALSE
SPECIFICATION Spec
CONSTANTS
    p1 = p1
    p2 = p2
    i1 = i1
    u1 = u1
    None = None
    Person = {p1, p2}
    Inbox = {i1}
    Upload = {u1}
    User0 = {"none", "bare", "known"}
    Lead0 <- MCLead0
    Request = {r1, r2}
    EmailCap = 2
    MaxBegun = 4
SYMMETRY Symmetry
INVARIANTS
    PendingHasOneOpen
    OneLiveInvite
    ApprovedHasAccess
PROPERTIES
    PasswordSetOnce
    NewestInviteActivates
