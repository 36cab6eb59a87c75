SPECIFICATION Spec
CONSTANTS
    Cli = {c1}
    Daemon = {1, 2, 3}
    None = None
    MaxFailures = 0
    MaxOps = 2
PROPERTY ToggleRemoves
CHECK_DEADLOCK FALSE
