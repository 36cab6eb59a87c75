SPECIFICATION MCSpec
CONSTANTS
    p1 = p1
    p2 = p2
    i1 = i1
    i2 = i2
    i3 = i3
    i4 = i4
    v1 = v1
    v2 = v2
    Patcher <- Patchers
    Inode <- Inodes
    Payload <- Payloads
    Absent = Absent
    Broken = Broken
    NoMarker = NoMarker
    Free = Free
    External = External
    ParentMayDie = TRUE
    MaxExternal = 3
SYMMETRY Symmetric
VIEW View
INVARIANTS
    LiveSealed
    ErrorLeavesLiveWhole
    SuccessIsLive
    OneTransaction
PROPERTIES
    RemovesOnlyVetted
    UpdateLeavesNoGap
    SwapsWhole
CHECK_DEADLOCK FALSE
