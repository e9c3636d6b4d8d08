SPECIFICATION Spec
CONSTANTS
    n1 = n1
    n2 = n2
    p1 = p1
    None = None
    Nodes <- MCNodes
    Partitions <- MCPartitions
    LogLen = 3
    BatchSize = 2
    MaxGen = 3
    Plans <- MCMidBatch
INVARIANT CommittedIsAcked
CHECK_DEADLOCK FALSE
