\* One request, looked at deeply: store writes that fail, two process deaths,
\* double, late, redelivered and strangers' taps.
SPECIFICATION Spec
CONSTANTS
    r1 = r1
    r2 = r2
    r3 = r3
    Requests = {r1}
    TTL = 2
    Hour = 2
    RateLimit = 1
    MaxOutstanding = 1
    StoreFaults = TRUE
    Tappers = {"owner", "stranger"}
    MaxTime = 3
    MaxTaps = 3
    MaxCrashes = 2
INVARIANTS
    MailOnlyOnApproval
    OneOutcome
    StatusIsHonest
PROPERTIES
    SettledNeverReopens
    NoSendAfterExpiry
CHECK_DEADLOCK FALSE
