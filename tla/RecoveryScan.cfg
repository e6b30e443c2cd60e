\* Eight windows of two ticks: two before the trigger make the baseline, four
\* after it are scanned for two in a row.
SPECIFICATION Spec
CONSTANTS
    WindowCount = 8
    MaxSuccesses = 2
    WindowSize = 2
    BaselineStart = 2
    TriggerStart = 6
    TriggerEnd = 8
    FractionNum = 3
    FractionDen = 4
    Consecutive = 2
INVARIANTS
    VerdictCorrect
    EmptyBaselineCensored
CHECK_DEADLOCK FALSE
