\* Two questions in the server and the daily job, over a Banner that refuses, breaks off
\* and loses sessions before their first page, a disk that fills up, and a death; and
\* four sections of three subjects, of which two may be asked live at a time, seats that
\* move, every question, and lines written in every way.
SPECIFICATION ClassSpec
CONSTANTS
    q1 = q1
    q2 = q2
    job = job
    Calls = {q1, q2, job}
    Home <- TwoProcesses
    Questions <- EachItsOwn
    Rows = 2
    MaxPages = 2
    ScanAttempts = 1
    DailyAttempts = 2
    LiveAttempts = 1
    Faults = {"refused", "network", "cold"}
    DiskFaults = TRUE
    Overlap = FALSE
    Inodes = {1, 2, 3, 4}
    None = None
    MaxClock = 1
    MaxDeaths = 1
    Crns = {1, 2, 3, 4}
    SubjectOf <- ThreeSubjects
    RuleCourses = {1, 3, 4}
    Days = {"M", "T"}
    LastMinute = 5
    Buildings = {"A", "B"}
    RoomNumbers = {"1", "2"}
    Offers <- ManyOffers
    MaxSeats = 1
    MaxMoves = 2
    Wishes <- SomeWishes
    RoomWishes <- SomeRooms
    NarrowThreshold = 2
    MaxRefreshSubjects = 2
    FirstPage = 1
    Styles = {"plain", "colon", "spaced", "lower"}
    Nil = Nil
    TBA = TBA
INVARIANTS
    SnapshotIsTrue
    
    FreeIsUnused
PROPERTIES
    DateNeverMovesBack
    EveryQuestionAnswered
CHECK_DEADLOCK FALSE
