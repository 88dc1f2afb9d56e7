SPECIFICATION Spec
CONSTANTS
    a = a
    b = b
    h1 = h1
    h2 = h2
    r1 = r1
    r2 = r2
    t1 = t1
    t2 = t2
    Workers = {a}
    Handlers = {h1}
    Host <- AllOnA
    Tasks = {t1}
    Requests = {r1}
    MaxSlot = 2
    InitSlot = 1
    BlockAt <- MCBlockAt
    ReqBlock <- MCReqBlock
    ReqHead <- MCReqHead
    MaxFaults <- NoFaults
INVARIANT WaitingNotYetFinal
