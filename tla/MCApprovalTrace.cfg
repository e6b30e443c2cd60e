\* Two processes, three calls: enough for a call that is split while another
\* one starts and ends, and for a process ID that is used again.
SPECIFICATION Spec
CONSTANTS
    Pids = {11, 12}
    Calls <- MCCalls
    Returns <- MCReturns
    MaxCalls = 3
INVARIANTS
    ExecsExact
    MutationsExact
CHECK_DEADLOCK FALSE
