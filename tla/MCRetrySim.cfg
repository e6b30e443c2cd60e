\* Two or three requests, a queue of two, a bucket of one token and an attempt
\* cap that busy runs reach.
SPECIFICATION Spec
CONSTANTS
    MaxArrivals = 3
    Policies <- MCPolicies
    FaultModes <- MCFaultModes
    Duration = 8
    WindowSize = 2
    TriggerStart = 1
    TriggerEnd = 3
    NormalService = 1
    SlowService = 3
    AttemptTimeout = 1
    OriginalDeadline = 4
    BackoffBase = 1
    BackoffCap = 2
    MaxAttempts = 3
    TokenUnit = 2
    RefillPerTick = 1
    TokenCapacity = 1
    QueueCapacity = 2
    AttemptCap = 6
INVARIANTS
    TypeOK
    ServerConservation
    OneServerInOrder
    RequestConservation
    LiveContinuation
    AnswerInTime
    DeadlineKept
    SuccessExplained
    RetrySpacing
    RetryBudget
    EndExplained
    TimelineTrue
PROPERTIES
    SettledForGood
    RunEnds
    ImplementsLifecycle
CHECK_DEADLOCK FALSE
