SPECIFICATION Spec
CONSTANTS
    None = None
    Left = Left
    b1 = b1
    b2 = b2
    b3 = b3
    r1 = r1
    s1 = s1
    t1 = t1
    p1 = p1
    p2 = p2
    Sessions = {s1}
    Boxes = {b1, b2, b3}
    Turners = {t1}
    Reapers = {r1}
    Admins = {}
    Deleters = {r1}
    Interrupters = {r1}
    Front = {t1}
    TurnKinds = {"sync", "async"}
    MaxActive = 2
    MaxAttempts = 2
    AttemptCap = 3
    RuntimeFlaky = TRUE
    RedisMayFail = FALSE
    LockMayExpire = FALSE
    Deadlines = TRUE
    Mortal = {p1, p2}
    Workers <- MCWorkers
    Processes <- MCProcesses
    Home <- MCHome
    Roles <- MCRoles
SYMMETRY Symmetry
INVARIANT TypeOK
INVARIANT GuardExclusive
INVARIANT ReleasedIsGone
INVARIANT ProtectedTurn
CHECK_DEADLOCK FALSE
