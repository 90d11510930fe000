\* One request whose post fails after the message arrived and was tapped.
SPECIFICATION FairSpec
CONSTANTS
    r1 = r1
    r2 = r2
    r3 = r3
    Requests = {r1}
    TTL = 1
    Hour = 1
    RateLimit = 2
    MaxOutstanding = 2
    StoreFaults = FALSE
    Tappers = {"owner"}
    MaxTime = 1
    MaxTaps = 1
    MaxCrashes = 0
PROPERTY
    SentIsFinal
CHECK_DEADLOCK FALSE
