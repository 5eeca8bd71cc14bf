SPECIFICATION Spec
CONSTANTS
    S = S
    A = A
    B = B
    seed = seed
    other = other
    lan = lan
    any = any
    Nil = Nil
    Twice = B
    OtherOf = S
    OtherIs = S
    Node = {S, A, B}
    Addr = {seed, other, lan, any}
    Listen <- MCListen
    Advertise <- MCAdvertise
    Bound <- MCBound
    Unspecified = {any}
    Seeds <- MCSeeds
    Route <- MCRoute
    Slots <- MCSlots
    MaxPeers = 1
    PeersCap = 2
    MaxFaults = 0
INVARIANTS
    SwitchTypeOK
    RegistrySound
