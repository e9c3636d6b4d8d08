SPECIFICATION Spec
CONSTANTS
    r1 = r1
    a = a
    b = b
    c = c
    n1 = n1
    n2 = n2
    None = None
    Runs <- MCRuns
    Tasks <- MCTasks
    Nodes <- MCNodes
    Workers <- MCNodes
    NodeOf <- MCNodeOf
    MaxConcurrent = 1
    MaxLinks <- MCMaxLinks
    MaxDepth <- MCMaxDepth
    Start <- MCStart
    PageLinks <- MCShortLinks
    LeaseLength = 2
    Plans <- MCFaultPlans
SYMMETRY Symmetry
INVARIANTS
    AckedIsDone
    NoLinkLeftBehind
CHECK_DEADLOCK FALSE
