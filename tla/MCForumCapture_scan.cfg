CONSTANTS
    t1 = t1
    t2 = t2
    Topics <- TwoTopics
    Jobs <- Collectors
    PageSize = 1
    MaxPages = 1
    MaxTopics = 1
    RefreshLimit = 0
    RootsVanish = TRUE
    MaxPosts = 3
    MaxHides = 1
    MaxCrashes = 0
SPECIFICATION Spec
ACTION_CONSTRAINT ScanSteps
VIEW ScanView
SYMMETRY TopicSymmetry
INVARIANT StreamIsJoined
