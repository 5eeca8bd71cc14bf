SPECIFICATION Spec
CONSTANTS
    n1 = n1
    p1 = p1
    Node = {n1, p1}
    Links = {{n1, p1}}
    Hash = {0, 1, 3, 4}
    Genesis = 0
    Block <- MCBlock
    Nil = Nil
    SyncBatch = 1
    SyncTxBudget = 5
    DenseEntries = 1
    MaxOrphans = 2
    MaxQueue = 1
    MaxFaults = 1
PROPERTIES
    Converges
