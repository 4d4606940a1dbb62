SPECIFICATION FairSpec
CONSTANTS
    Runs = {r1, r2}
    Workers = {w1, w2}
    Directions = 2
    TopN = 1
    FullText = TRUE
    Headless = FALSE
    MaxCrashes = 1
    None = None
CHECK_DEADLOCK FALSE
INVARIANTS
    WorkIsBounded
    OutcomeMatchesPapers
PROPERTIES
    RunsEnd
    WorkerLetsGo
    CancelSurvivesWork
