SPECIFICATION Spec
\* Four instants on a device: manifests and decisions that live two or four, leases
\* of up to three, statuses of up to two, two of them published at most.
CONSTANTS
    WorkCeiling = 2
    StatusCeiling = 2
    LeaseCeiling = 3
    Horizon = 3
    Lives = {2, 4}
    Statuses = 2
    Faulty = {"manifest", "policy", "lease", "status", "result"}
INVARIANTS
    WorkInsideAuthority
    OneStory
    OnlyRenewalRefuses
CHECK_DEADLOCK FALSE
