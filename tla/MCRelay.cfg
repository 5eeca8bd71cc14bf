SPECIFICATION Spec
CONSTANTS
    n1 = n1
    s1 = s1
    q1 = q1
    t0 = t0
    t1 = t1
    r0 = r0
    u0 = u0
    Nil = Nil
    Node = {n1, s1, q1}
    Links = {{n1, s1}, {s1, q1}}
    Tx = {t0, r0, u0}
    From <- MCFrom
    Nonce <- MCNonce
    Origin <- MCFrom
    MempoolReplyBudget = 1
    SocketRoom = 0
    MaxFaults = 1
INVARIANTS
    RelayTypeOK
    NothingSlips
PROPERTIES
    LinksRelay
\* The nodes rest once nothing is left to relay.
CHECK_DEADLOCK FALSE
