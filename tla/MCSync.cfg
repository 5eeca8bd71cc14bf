SPECIFICATION Spec
CONSTANTS
    n1 = n1
    p1 = p1
    Node = {n1, p1}
    Links = {{n1, p1}}
    Hash = {0, 1, 3, 4}
    Genesis = 0
    Block <- MCBlock
    Nil = Nil
    SyncBatch = 3
    SyncTxBudget = 2
    DenseEntries = 1
    MaxOrphans = 1
    MaxQueue = 1
    MaxFaults = 2
INVARIANTS
    SyncTypeOK
    RepliesConnect
PROPERTIES
    Converges
