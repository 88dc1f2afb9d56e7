SPECIFICATION Spec
CONSTANTS
    Initial = 1
    Interval = 10
    Buffer = 11
    Timeout = 10
INVARIANT TypeOK
INVARIANT ExtendedLockHolds
