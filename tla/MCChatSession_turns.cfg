SPECIFICATION FairSpec
CONSTANTS
    Requests = {r1, r2, r3}
    MaxLeft = 1
CHECK_DEADLOCK FALSE
INVARIANTS
    OneGeneration
    AnswersAreKept
    DeletedStaysDeleted
PROPERTIES
    AskedIsServed
