\* Outages, wedges, crashes and a store that cannot always be read; a host network
\* that comes, goes and moves under two forwarded ports; three mails in batches of
\* two, in every mode; and probes of a model on an endpoint that changes.
SPECIFICATION ProcessesSpec
CONSTANTS
    MaxErrors = 3
    Base = 1
    Cap = 3
    Cooldown = 7
    WarnAge = 2
    PollTime = 1
    ProbeTime = 1
    ReadFaults = TRUE
    WriteFaults = FALSE
    Ports = {p1, p2}
    Addresses = {a, b}
    Interfaces = {bridge100, bridge0}
    First = bridge100
    Second = bridge0
    Override = Nowhere
    Nowhere = Nowhere
    Changes = 2
    Inbox <- ThreeMails
    Stranger = "m4"
    Settings <- SomeSettings
    BatchSize = 2
    ModelVerdicts <- TwoVerdicts
    Answers <- SomeAnswers
    Folders <- SomeFolders
    MaxMessages = 2
    Nil = Nil
    Blocks <- TwoBlocks
    Facts = {"f", "g"}
    Expected <- AllExpectF
    NoFact = NoFact
    Snapshots <- SomeSnapshots
    Invocations <- SomeInvocations
    Models = {"spark", "other"}
    Measured = "spark"
    Listings <- SomeListings
    NoAnswer = NoAnswer
    Contents <- SomeContents
    NaN = NaN
    MinTrials = 2
    MaxTurns = 2
    Events = 1
INVARIANTS
    NeverSilentlyDown
    PassAddsUp
    ProbeIsHonest
PROPERTIES
    RestartsAreSpaced
    WedgeIsCleared
    SettlesOnTheGateway
    ItsPassEnds
CHECK_DEADLOCK FALSE
