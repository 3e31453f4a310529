SPECIFICATION Spec
CONSTANTS
    None = None
    Left = Left
    b1 = b1
    b2 = b2
    b3 = b3
    s1 = s1
    s2 = s2
    t1 = t1
    t2 = t2
    p1 = p1
    p2 = p2
    Sessions = {s1, s2}
    Boxes = {b1, b2, b3}
    Turners = {t1, t2}
    Reapers = {}
    Admins = {}
    Deleters = {}
    Interrupters = {}
    Front = {t1, t2}
    TurnKinds = {"async"}
    MaxActive = 1
    MaxAttempts = 2
    AttemptCap = 3
    RuntimeFlaky = FALSE
    RedisMayFail = FALSE
    LockMayExpire = FALSE
    Deadlines = FALSE
    Mortal = {}
    Workers <- MCWorkers
    Processes <- MCProcesses
    Home <- MCHome
    Roles <- MCRoles
SYMMETRY Symmetry
INVARIANT NoStrayContainer
INVARIANT ProtectedTurn
