SPECIFICATION Spec
CONSTANTS
    URLs <- MCURLs
    Site <- MCSite
    SamePath <- MCSamePath
    maxRedirects = 3
    None = None
    Batches <- MCBatches
    Workers = {w1, w2}
    Savers = {s1}
    Host <- MCHost
    RobotsSays <- MCRobotsSays
    Disallowed = {"secret"}
    OldIndexes <- MCOldIndexes
INVARIANTS
    ClosedOnlyAfterUse
    PagesAreStoredTruly
PROPERTIES
    OnlyGoneOrRenamedLeaveTheIndex
    NobodyHoldsUpTheRest
CHECK_DEADLOCK FALSE
