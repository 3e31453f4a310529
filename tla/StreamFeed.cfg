SPECIFICATION FairSpec
CONSTANTS
    None = None
    Tasks = {t1}
    Tools = {c1}
    Viewers = {v1}
    MaxItems = 2
    MaxReconnects = 1
    MaxFaults = 2
INVARIANT TypeOK
INVARIANT NoStaleActive
INVARIANT ResultsPaired
PROPERTY FeedSpec
PROPERTY ViewersFinish
CHECK_DEADLOCK FALSE
