\* Four combinations, two experiments into one directory; a step may take more
\* time than the budget or the external timeout leaves.
SPECIFICATION Spec
CONSTANTS
    Seeds <- MCSeeds
    Rates <- MCRates
    FaultModes <- MCFaultModes
    Policies <- MCPolicies
    Budget = 3
    KillAfter = 3
    KillLatency = 1
    MaxStep = 2
    MaxRounds = 2
INVARIANTS
    StatusTrue
    SummaryMatchesTimelines
CHECK_DEADLOCK FALSE
