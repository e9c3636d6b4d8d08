SPECIFICATION FairSpec
CONSTANTS
    c1 = c1
    c2 = c2
    Callers <- MCTwoCallers
    MaxCalls = 3
    Buffer = 2
INVARIANTS
    EachPayloadFlushedOnce
PROPERTIES
    NobodyWaitsForEver
    ImplementsPayloadQueue
