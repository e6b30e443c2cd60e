\* The report of a run that the attempt cap stops, against what simulate.py:179
\* says of its windows.
SPECIFICATION Spec
CONSTANTS
    MaxArrivals = 3
    Policies <- MCPolicies
    FaultModes <- MCFaultModes
    Duration = 8
    WindowSize = 2
    TriggerStart = 1
    TriggerEnd = 3
    NormalService = 1
    SlowService = 3
    AttemptTimeout = 1
    OriginalDeadline = 4
    BackoffBase = 1
    BackoffCap = 2
    MaxAttempts = 3
    TokenUnit = 2
    RefillPerTick = 1
    TokenCapacity = 1
    QueueCapacity = 1
    AttemptCap = 6
INVARIANTS
    RowsSampled
CHECK_DEADLOCK FALSE
