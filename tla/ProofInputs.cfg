SPECIFICATION FairSpec
CONSTANTS
    PeriodLength = 5
    Lag = 2
    Rpcs = {x, y}
    MaxRequest = 2
    MaxLag = 2
    MaxLapses = 2
    MaxNow = 15
    Heads = {4, 6, 8}
    Block = 9
    InitNow = 12
    Missed = {6, 11}
    MaxAttempts = 3
    Providers = {u, v}
    Contract = requested
    other = other
    k1 = k1
    k2 = k2
    Keys <- MCKeys
    Writes <- MCWrites
INVARIANT TypeOK
INVARIANT HostAndProgramAgree
INVARIANT ProvedHeadUsable
INVARIANT ProvedSlotsComplete
PROPERTY Decides
CHECK_DEADLOCK FALSE
