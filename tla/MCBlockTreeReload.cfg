SPECIFICATION Spec
CONSTANTS
    alice = alice
    bob = bob
    Address = {alice, bob}
    CoinbaseAddress = CoinbaseAddress
    Invalid = Invalid
    Nil = Nil
    Torn = Torn
    MaxUint64 = 31
    InitialReward = 4
    HalvingInterval = 2
    BlocksPerRetarget = 2
    TargetBlockTime = 1
    MaxTxsPerBlock = 3
    MaxFutureTime = 5
    Hash = {1, 3, 5, 6, 7, 8, 9}
    Genesis = 5
    Block <- MCBlock
    CheckpointInterval = 2
    MaxOrphans = 2
    MaxTime = 1
    StoreFaults = {}
    Replay <- MCReplay
INVARIANTS
    ReloadsTip
