SPECIFICATION Spec
CONSTANTS
    n1 = n1
    s1 = s1
    q1 = q1
    t0 = t0
    t1 = t1
    r0 = r0
    u0 = u0
    Nil = Nil
    Node = {n1, s1, q1}
    Links = {{n1, s1}, {s1, q1}}
    Tx = {t0, t1}
    From <- MCFrom
    Nonce <- MCNonce
    Origin <- MCFrom
    MempoolReplyBudget = 3
    SocketRoom = 3
    MaxFaults = 0
PROPERTIES
    SeedRelays
\* The nodes rest once nothing is left to relay.
CHECK_DEADLOCK FALSE
