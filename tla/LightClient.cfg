SPECIFICATION FairSpec
CONSTANTS
    PeriodLength = 7
    Lag = 2
    Rpcs = {x, y}
    MaxRequest = 2
    MaxLag = 2
    MaxLapses = 4
    MaxNow = 30
    Missed = {24}
    InitSlot = 1
    InitNow = 23
    MaxAge = 4
INVARIANT TypeOK
INVARIANT StaysFresh
PROPERTY ImplementsFollower
PROPERTY BecomesFresh
