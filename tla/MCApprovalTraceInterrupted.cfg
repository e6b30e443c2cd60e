\* The same processes, when a call may also be interrupted.
SPECIFICATION Spec
CONSTANTS
    Pids = {11, 12}
    Calls <- MCCalls
    Returns <- MCInterruptedReturns
    MaxCalls = 3
INVARIANTS
    ExecsExact
CHECK_DEADLOCK FALSE
