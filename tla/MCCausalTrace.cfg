\* Every interleaving of three insertions, at every index, with deliveries and
\* calls of synchronize.
SPECIFICATION Spec
CONSTANTS
    Replicas = {1, 2, 3}
    MaxOperations = 3
    Orders <- MCOrders
INVARIANTS
    SeenIsShown
    CausallyClosed
    NeverThrown
PROPERTIES
    SyncDelivers
CHECK_DEADLOCK FALSE
