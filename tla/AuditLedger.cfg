SPECIFICATION Spec
\* Two callers, three calls, two keys and two digests: retries, replays and
\* collisions of overlapping transactions.
CONSTANTS
    Keys = {"audit:a", "audit:b"}
    Digests = {"sha1", "sha2"}
    Callers = {"caller1", "caller2"}
    MaxCalls = 3
INVARIANTS WriteOutcomeIsTrue FollowsAppendSemantics AppendedOnceAsGranted
PROPERTIES EveryCallAnswered
CHECK_DEADLOCK FALSE
