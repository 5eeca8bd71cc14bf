SPECIFICATION Spec
CONSTANTS
    t1 = t1
    t2 = t2
    Thread = {t1, t2}
    Requested = {"auto", "cpu", "gpu"}
    GPUFaults = {"open", "shape", "search"}
    TipBuffer = 2
    MaxTips = 5
    Nil = Nil
INVARIANTS
    MinerTypeOK
    NoticeWaits
    SolutionHeard
    ResourcesHeld
PROPERTIES
    StaleAbandoned
    ShutdownEnds
