SPECIFICATION Spec
CONSTANTS
    e1 = e1
    c1 = c1
    c2 = c2
    None = None
    Turns = {e1}
    Runs = {1, 2}
    TurnOf <- OneTurn
    Stoppers = {c1, c2}
    StopOf <- OneTurnStops
    Remote = {c2}
    MaxFaults = 1
CHECK_DEADLOCK FALSE
PROPERTIES
    ConfirmedMeansStopped
