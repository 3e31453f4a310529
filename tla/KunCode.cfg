SPECIFICATION FairSpec
CONSTANTS
    e1 = e1
    c1 = c1
    c2 = c2
    None = None
    Turns = {e1}
    Runs = {1, 2}
    TurnOf <- OneTurn
    Stoppers = {c1}
    StopOf <- OneTurnStops
    Remote = {}
    MaxFaults = 1
CHECK_DEADLOCK FALSE
INVARIANTS
    TypeOK
    ConfirmedIsDead
    CancelledNotSuccess
PROPERTIES
    StreamsEnd
