\* Two local models, two servers, rounds at and past the cap, a tight budget.
SPECIFICATION FairSpec
CONSTANTS
    Servers <- ServerList
    Offers <- OfferedLists
    Denylist = {"skill"}
    HostTools = {"propose_schedule", "get-skill-docs", "check-system-health"}
    Chain <- LocalModels
    Resolvable = {"rcd", "spark"}
    Policies <- BothOrOne
    Completions = {"rcd", "spark"}
    MaxRounds = 2
    Budget = 6
    Batches <- CallBatches
    Kinds = {"data", "none"}
    Turns = 2
    None = None
INVARIANTS
    OneTracePerTurn
    RequestsFit
PROPERTIES
    TurnIsTold
    EveryTurnEnds
CHECK_DEADLOCK FALSE
