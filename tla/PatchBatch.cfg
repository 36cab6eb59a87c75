SPECIFICATION FairSpec
CONSTANTS
    cli = cli
    daemon = daemon
    Flow = {cli, daemon}
    Browser = {1, 2}
    Batches <- MCBatches
    Installs <- MCInstalls
    Nothing = Nothing
    MaxOutside = 1
    MaxFailures = 1
PROPERTIES
    ReportTrue
    OnlyWithLeave
    BatchesEnd
CHECK_DEADLOCK FALSE
