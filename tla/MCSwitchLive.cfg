SPECIFICATION Spec
CONSTANTS
    S = S
    A = A
    B = B
    seed = seed
    other = other
    lan = lan
    any = any
    Nil = Nil
    Twice = Nil
    OtherOf = Nil
    OtherIs = Nil
    Node = {S, A, B}
    Addr = {seed, other, lan, any}
    Listen <- MCListen
    Advertise <- MCAdvertise
    Bound <- MCBound
    Unspecified = {any}
    Seeds <- MCSeeds
    Route <- MCRoute
    Slots <- MCSlots
    MaxPeers = 2
    PeersCap = 2
    MaxFaults = 1
INVARIANTS
    RegistrySound
PROPERTIES
    ClientStays
    HalvesResolve
    StopDrains
    FullSettles
