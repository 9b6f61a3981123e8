SPECIFICATION Spec
\* Two overlapping calls on one operation with two attempts.
CONSTANTS
    Operations = {"op1"}
    Calls = {"call1", "call2"}
    MaxTime = 1
    MaxVersion = 6
    StaleAfter = 1
    Redelivery = FALSE
INVARIANTS OneSenderPerAttempt SentIsRecorded NoBlindRetry IntegrityHolds
PROPERTIES ImplementsEffect
CHECK_DEADLOCK FALSE
