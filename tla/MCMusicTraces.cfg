\* The whole corpus: four schedules of three insertions each.
SPECIFICATION MSpec
CONSTANTS
    Replicas = {1, 2, 3}
    MaxOperations = 3
    Orders <- MCOrders
INVARIANTS
    CorpusShows
PROPERTIES
    CorpusPasses
CHECK_DEADLOCK FALSE
