SPECIFICATION NodeSpec
CONSTANTS
    alice = alice
    bob = bob
    T0 = 1
    T1 = 2
    Address = {alice, bob}
    CoinbaseAddress = CoinbaseAddress
    Invalid = Invalid
    Nil = Nil
    Torn = Torn
    MaxUint64 = 63
    InitialReward = 4
    HalvingInterval = 4
    BlocksPerRetarget = 0
    TargetBlockTime = 1
    MaxTxsPerBlock = 3
    MaxFutureTime = 5
    Hash = {1, 3, 5, 6, 7, 8, 9}
    Genesis = 5
    Block <- MCBlock
    CheckpointInterval = 2
    MaxOrphans = 1
    MaxTime = 0
    StoreFaults = {}
    Replay <- MCReplay
    Tx <- MCTx
    Wallet = alice
    Payment <- MCPayment
    Client = {c1, c2}
    c1 = c1
    c2 = c2
    MaxMempool = 2
    SeenResetAt = 1
INVARIANTS
    MempoolApplies
    PendingMatches
    CandidateApplies
PROPERTIES
    ChronologicalReturn
