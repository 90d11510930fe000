\* Three submits at any moment and a clear; or two with an expiry, a mode switch and
\* a SIGTERM.  In both, stops.
SPECIFICATION TurnsSpec
CONSTANTS
    t1 = t1
    t2 = t2
    t3 = t3
    c1 = c1
    Turns = {t1, t2, t3}
    Clears = {c1}
    MaxSessions = 4
    None = None
    NoDir = NoDir
    Providers <- Chains
    Flagged = {t2}
    Switches = 1
    Settled = TRUE
    Sweeps = 1
    Signals = TRUE
INVARIANTS
    OneTurnPerSession
    TranscriptIsHistory
PROPERTIES
    ClearLeavesNothing
    EveryRequestAnswered
CHECK_DEADLOCK FALSE
