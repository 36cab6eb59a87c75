SPECIFICATION ServingSpec
CONSTANTS
    None = None
    Dirs = 2
    MaxFailures = 3
    MaxKills = 1
    MaxExternal = 1
    Invocations = {c1}
    Processes = 3
    CallFailures = 1
    Operations = 2
    AgentCalls = 3
    AgentFaults = 2
    AgentChanges = 1
    Catalogue = {"b1", "b2"}
    Clicks = 2
    TrayChanges = 1
    OnWindows = TRUE
    Switches = 1
    Scripts = 1
    Preferences = {"p1", "p2"}
    Garbled = Garbled
    Customs = {"e1"}
    Detections <- NoneOrTwo
    FileEdits = 1
    MostCustoms = 2
    PanelFaults = 1
    Releases = 2
    Updates = 2
    UpdateFaults = 2
    Children = {c1}
    PipeSize = 1
    Retained = 1
    Written = 2
    Attempts = 2
    Patience = 3
    ReadPatience = 2
    SlowReads = 2
    RequestLimit = 2
    Connections = 3
    PlatformKeys = {"k1", "k2"}
    ThisPlatform = "k1"
    Archive = "listed"
    Garbage = "other"
    UrlChain <- CdnForeign
    AliasLimit = 2
    RedirectLimit = 1
    Downloads = 2
INVARIANTS
    NeonHasItsData
    OneDaemon
    OutcomeTrue
    MenusHonest
    UpdateSafe
    ScriptSafe
    ProbeSafe
    FetchSafe
    RetriesWork
PROPERTIES
    NeverOverwrites
    StepsRight
CHECK_DEADLOCK FALSE
