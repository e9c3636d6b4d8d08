SPECIFICATION RunStateSpec
CONSTANTS
    r1 = r1
    r2 = r2
    r3 = r3
    t1 = t1
    t2 = t2
    Runs <- MCRuns
    Tasks <- MCTasks
    MaxConcurrent = 2
    MaxLinks <- MCMaxLinks
    LeaseLength = 2
INVARIANTS
    RunStateTypeOK
    CountersExact
    SlotBound
    LinkBound
    ProgressKeepsSlot
PROPERTY DoneIsFinal
