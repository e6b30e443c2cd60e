\* Four insertions, delivered one by one in every causal order: long enough for
\* an element to be compared with one that hangs on a third.
SPECIFICATION Spec
CONSTANTS
    Replicas = {1, 2, 3}
    MaxOperations = 4
    Orders = {}
INVARIANTS
    ReplicasAgree
    BetweenNeighbours
CHECK_DEADLOCK FALSE
