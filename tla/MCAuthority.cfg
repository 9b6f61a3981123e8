SPECIFICATION Spec
CHECK_DEADLOCK FALSE
CONSTANTS
    d1 = d1
    requester = requester
    approver = approver
    second = second
    k1 = k1
    Decisions = {d1}
    Sessions = {requester, approver, second}
    Identities <- mc_Identities
    Keys = {k1}
    Time = {0, 1, 2, 3, 4}
    DecidedAt <- mc_DecidedAt
    ApprovalExpiry <- mc_ApprovalExpiry
    Requester <- mc_Requester
    Approver <- mc_Approver
    IdentityOf <- mc_IdentityOf
    RoleOf <- mc_RoleOf
    SessionIssued <- mc_SessionIssued
    SessionExpires <- mc_SessionExpires
    NonceTTL = 3
    AuthTTL = 2
    IdleTimeout = 3
    TouchGranularity = 2
INVARIANTS
    ConsumedWithinApproval
    ChainInvariant
PROPERTIES
    TerminalIsFinal
    LostCapabilityStaysLost
