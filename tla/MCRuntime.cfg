SPECIFICATION RuntimeSpec
CONSTANTS
    d1 = d1
    requester = requester
    approver = approver
    base = base
    c1 = c1
    foreign = foreign
    Decisions = {d1}
    Sessions = {requester, approver}
    Identities = {requester, approver}
    Keys = {"k1"}
    Time = {1, 2, 3}
    DecidedAt <- mc_DecidedAt
    ApprovalExpiry <- mc_ApprovalExpiry
    Requester <- mc_Requester
    Approver <- mc_Approver
    IdentityOf <- mc_IdentityOf
    RoleOf <- mc_RoleOf
    SessionIssued <- mc_SessionIssued
    SessionExpires <- mc_SessionExpires
    NonceTTL = 2
    AuthTTL = 1
    IdleTimeout = 3
    TouchGranularity = 2
    Workers = {"w1", "w2"}
    Commits = {base, c1, foreign}
    Adapter <- mc_Adapter
    Base <- mc_Base
    Result <- mc_Result
    Foreign = foreign
    StoreMayFail = FALSE
INVARIANTS
    RedemptionIsClaim
    WithdrawnNeverLaunches
    LandedInsideApproval
PROPERTIES
    ImplementsParts
