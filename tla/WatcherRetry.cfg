SPECIFICATION FairSpec
CONSTANTS
    None = None
    Wake = Wake
    Browser = {b1}
    Debounce = 2
    Poll = 1
    Stable = 2
    Limit = 4
    MayFail = {}
    Rewatch = FALSE
    Restart = FALSE
    MaxWrites = 1
PROPERTIES
    RetriedAfterExit
CHECK_DEADLOCK FALSE
