SPECIFICATION Spec
CONSTANTS
    n1 = n1
    n2 = n2
    w1 = w1
    w2 = w2
    v1 = v1
    v2 = v2
    v3 = v3
    a = a
    b = b
    c = c
    None = None
    Nodes <- MCOneNode
    CrawlWorkers <- MCOneWorker
    Versions <- MCVersions
    FirstVersion = v1
    NextVersions <- MCBack
    Chunks <- MCChunks
    ChunksOf <- MCChunksOf
    QueueSize = 1
    WriteBatchSize = 1
    Faults = {"down"}
    MaxFaults = 1
INVARIANT SkippedIsWhole
