\* Two cases go another way; the wrapper's limit lets one of them hang.
SPECIFICATION Spec
CONSTANTS
    OutputLimit = 3
    TimeoutSeconds = 20
    HardLimit = 30
    MaxFaults = 2
INVARIANTS
    StatusExplained
    RecordTrue
    OnlyHungLeaveProcesses
PROPERTIES
    DocumentPrinted
CHECK_DEADLOCK FALSE
