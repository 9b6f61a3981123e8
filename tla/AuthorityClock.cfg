SPECIFICATION ClockSpec
CONSTANTS
    d1 = d1
    requester = requester
    approver = approver
    second = second
    k1 = k1
    Decisions = {d1}
    Sessions = {requester, approver}
    Identities <- mc_Identities
    Keys = {k1}
    MaxTime = 4
    Time <- mc_Time
    DecidedAt <- mc_DecidedAt
    ApprovalExpiry <- mc_ApprovalExpiry
    Requester <- mc_Requester
    Approver <- mc_Approver
    IdentityOf <- mc_IdentityOf
    RoleOf <- mc_RoleOf
    SessionIssued <- mc_SessionIssued
    SessionExpires <- mc_SessionExpires
    NonceTTL = 2
    AuthTTL = 2
    IdleTimeout = 3
    TouchGranularity = 2
INVARIANTS
    CancelFailsClosed
