SPECIFICATION InstallingSpec
CONSTANTS
    v1 = v1
    v2 = v2
    v3 = v3
    None = None
    Torn = Torn
    Version <- Versions
    Keep <- Keeps
    MayFail = TRUE
    MaxDrift = 1
    CalmDrifts = 2
    Selectable = {1, 2}
    Operations = 3
    Reads = 1
    Numbers = {1, 2, 3}
    Offered = 2
    InfoPlists <- HeliumPlists
    Inodes = 5
    LocalStates = 3
    PatchFaults = 1
SYMMETRY Symmetric
INVARIANTS
    EnsureDelivers
    AdvanceKeepsFallback
    RollbackSelectsVerified
    Vouched
    ToldIsTrue
    SlotsFilled
PROPERTIES
    LinksResolve
    EndsAsTold
CHECK_DEADLOCK FALSE
