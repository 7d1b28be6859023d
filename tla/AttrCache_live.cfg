SPECIFICATION FairSpec
CONSTANTS
    a1 = a1  a2 = a2
    v1 = v1  v2 = v2
    Accounts = {a1, a2}
    Default = Default
    ListHead = ListHead
    Values = {v1, v2}
    NoData = NoData
    UserSync = 1
    UserFlush = 1
    UserStep = 2
    SyncOnLogoff = FALSE
    ReadFails = FALSE
PROPERTIES
    DirtySaved
