SPECIFICATION FairSpec
CONSTANTS
    None = None
    s1 = s1
    s2 = s2
    k1 = k1
    e1 = e1
    c1 = c1
    Sessions <- MCSessions
    Selects = 2
    Sends <- MCSends
    Elsewhere <- MCElsewhere
    Home <- MCHome
    Tools <- MCTools
    Planned = {s2}
    MaxClicks = 3
    MaxFaults = 1
    Scripts <- MCScripts
INVARIANT TypeOK
INVARIANT HistoryOfCurrent
PROPERTY SettledTools
PROPERTY StreamingEnds
CHECK_DEADLOCK FALSE
