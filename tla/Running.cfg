SPECIFICATION RunningSpec
CONSTANTS
    b1 = b1
    b2 = b2
    c1 = c1
    None = None
    Wake = Wake
    Browser <- Browsers
    Debounce = 2
    Poll = 1
    Stable = 2
    Limit = 4
    MayFail <- FailEarly
    Rewatch = FALSE
    Restart = TRUE
    MaxWrites = 3
INVARIANTS
    NothingForgotten
PROPERTIES
    FiresOnlyWhenQuiet
    AnsweredEventually
    Settles
    ShutdownEnds
    EachEnds
CHECK_DEADLOCK FALSE
