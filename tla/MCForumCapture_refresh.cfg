CONSTANTS
    t1 = t1
    t2 = t2
    Topics <- OneTopic
    Jobs <- TimersAndManual
    PageSize = 1
    MaxPages = 1
    MaxTopics = 1
    RefreshLimit = 1
    RootsVanish = FALSE
    MaxPosts = 2
    MaxHides = 1
    MaxCrashes = 0
SPECIFICATION FairSpec
PROPERTY HiddenPostsLeave
