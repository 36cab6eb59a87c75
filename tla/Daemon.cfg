SPECIFICATION FairSpec
CONSTANTS
    Process = {1, 2}
    Client = {c1}
    Nobody = Nobody
    MaxEvents = 2
INVARIANTS
    NeverSwapMidPatch
    Reachable
PROPERTIES
    NobodyIsLeftWaiting
    PatchesSettle
CHECK_DEADLOCK FALSE
