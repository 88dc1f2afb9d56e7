SPECIFICATION FairSpec
CONSTANTS
    MainAlerts = {m1, m2}
    OtherAlerts = {o1, o2, o3}
    LastError = last
    Threshold = 3
INVARIANT TypeOK
INVARIANT InSight
INVARIANT LastWords
PROPERTY OnlyDrainedPostsHold
CHECK_DEADLOCK FALSE
