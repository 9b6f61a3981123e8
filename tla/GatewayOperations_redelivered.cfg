SPECIFICATION Spec
\* A receipt that is handed over twice.
CONSTANTS
    Operations = {"op1"}
    Calls = {"call1"}
    MaxTime = 1
    MaxVersion = 6
    StaleAfter = 1
    Redelivery = TRUE
INVARIANTS NoBlindRetry
CHECK_DEADLOCK FALSE
