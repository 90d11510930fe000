\* The benchmark on replies that break off or cannot be read.
SPECIFICATION ProbeSpec
CONSTANTS
    Blocks <- TwoBlocks
    Facts = {"f", "g"}
    Expected <- AllExpectF
    NoFact = NoFact
    Snapshots <- SomeSnapshots
    Invocations <- Benchmark
    Models = {"spark", "other"}
    Measured = "spark"
    Listings <- SomeListings
    NoAnswer = NoAnswer
    Contents <- SomeContents
    NaN = NaN
    MinTrials = 2
    MaxTurns = 2
    Events = 1
INVARIANTS
    UnreadIsUnparseable
CHECK_DEADLOCK FALSE
