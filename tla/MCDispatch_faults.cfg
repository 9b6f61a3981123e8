SPECIFICATION FairSpec
CONSTANTS
    o1 = o1
    o2 = o2
    w1 = w1
    w2 = w2
    base = base
    c1 = c1
    c2 = c2
    foreign = foreign
    Operations <- mc_Operations
    Workers <- mc_Workers
    Commits <- mc_Commits
    Adapter <- mc_Mixed
    Base <- mc_Base
    Result <- mc_Distinct
    Foreign = foreign
    StoreMayFail = TRUE
INVARIANTS
    StoreVerifies
    ChainsAgree
    LaunchedAtMostOnce
    ReceiptIsEarned
PROPERTIES
    ImplementsOneShot
    DispatchResolves
    SlotReleased
