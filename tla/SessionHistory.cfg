SPECIFICATION Spec
CONSTANTS
    None = None
    t1 = t1
    t2 = t2
    k1 = k1
    k2 = k2
    Turns = {t1, t2}
    Direct = {t2}
    Compressors = {k1, k2}
    KeepRecent = 1
    Calls <- MCCalls
    MaxFaults = 1
SYMMETRY Alike
INVARIANT TypeOK
INVARIANT Paired
INVARIANT NothingForgotten
INVARIANT ResultStands
CHECK_DEADLOCK FALSE
