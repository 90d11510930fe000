\* Three requests against two outstanding and two an hour, a store that takes its
\* writes, a process death (which may fall between the two writes of submit):
\* the limits hold, everything settles, and the gate implements SendOnce.
SPECIFICATION FairSpec
CONSTANTS
    r1 = r1
    r2 = r2
    r3 = r3
    Requests = {r1, r2, r3}
    TTL = 2
    Hour = 1
    RateLimit = 2
    MaxOutstanding = 2
    StoreFaults = FALSE
    Tappers = {"owner"}
    MaxTime = 2
    MaxTaps = 2
    MaxCrashes = 1
INVARIANT
    WithinLimits
PROPERTIES
    KeepsPromise
    EverySubmitSettles
CHECK_DEADLOCK FALSE
