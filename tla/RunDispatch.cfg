SPECIFICATION FairSpec
CONSTANTS
    r1 = r1
    r2 = r2
    t = t
    n1 = n1
    n2 = n2
    None = None
    Runs <- MCRuns
    Tasks <- MCTasks
    First = t
    Nodes <- MCNodes
    MaxConcurrent = 1
    MaxLinks <- MCMaxLinks
    LeaseLength = 1
    Plans <- MCPlans
INVARIANTS
    DispatchIsSound
PROPERTIES
    EveryRunIsCrawled
    SlotIsFreed
CHECK_DEADLOCK FALSE
