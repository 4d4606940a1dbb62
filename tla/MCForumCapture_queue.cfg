CONSTANTS
    t1 = t1
    t2 = t2
    Topics <- TwoTopics
    Jobs <- Timers
    PageSize = 1
    MaxPages = 2
    MaxTopics = 1
    RefreshLimit = 0
    RootsVanish = FALSE
    MaxPosts = 2
    MaxHides = 0
    MaxCrashes = 1
SPECIFICATION FairSpec
PROPERTIES PostsArrive BackoffIsKept
