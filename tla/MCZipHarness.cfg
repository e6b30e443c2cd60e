\* Three entries and five bytes at most; reads of up to two bytes.
SPECIFICATION Spec
CONSTANTS
    Corpus <- MCCorpus
    MaxEntries = 3
    MaxBytes = 5
    Buffer = 2
INVARIANTS
    ObservationIsPrefix
    CeilingsExact
    ComparedIsComplete
PROPERTIES
    ExitTrue
    HarnessEnds
CHECK_DEADLOCK FALSE
