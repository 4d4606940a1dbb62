SPECIFICATION Spec
CONSTANTS
    Requests = {r1, r2}
    MaxLeft = 0
CHECK_DEADLOCK FALSE
INVARIANTS
    DeletionIsComplete
