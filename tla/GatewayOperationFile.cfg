SPECIFICATION Spec
\* Two operations, two callers, and a pid that comes back after a restart.
CONSTANTS
    Operations = {"op1", "op2"}
    Keys = {"idem1", "idem2"}
    Callers = {"caller1", "caller2"}
    Pids = {1}
    MaxVersion = 2
    MaxCounter = 2
INVARIANTS AlwaysLoads ConfirmedSurvives
PROPERTIES ConfirmedOnce
CHECK_DEADLOCK FALSE
