SPECIFICATION Spec
CONSTANTS
    None = None
    Left = Left
    b1 = b1
    b2 = b2
    b3 = b3
    r1 = r1
    s1 = s1
    t1 = t1
    t2 = t2
    p1 = p1
    p2 = p2
    Sessions = {s1}
    Boxes = {b1, b2, b3}
    Turners = {t1, t2}
    Reapers = {}
    Admins = {r1}
    Deleters = {}
    Interrupters = {}
    Front = {t1, r1}
    TurnKinds = {"sync"}
    MaxActive = 2
    MaxAttempts = 2
    AttemptCap = 3
    RuntimeFlaky = FALSE
    RedisMayFail = TRUE
    LockMayExpire = TRUE
    Deadlines = FALSE
    Mortal = {}
    Workers <- MCWorkers
    Processes <- MCProcesses
    Home <- MCHome
    Roles <- MCRoles
SYMMETRY Symmetry
INVARIANT GuardInv
