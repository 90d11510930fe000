\* Two submissions and any three of: a change of track (two), a clear, a stop, a
\* lost connection.
SPECIFICATION FairSpec
CONSTANTS
    Texts <- SomeTexts
    Submits = 2
    Switches = 2
    Clears = 1
    Others = 3
    Nil = Nil
INVARIANTS
    PageIsTrue
PROPERTY
    EverythingComesBack
CHECK_DEADLOCK FALSE
