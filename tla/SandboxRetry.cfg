SPECIFICATION FairSpec
CONSTANTS
    None = None
    Left = Left
    b1 = b1
    b2 = b2
    r1 = r1
    s1 = s1
    t1 = t1
    p1 = p1
    p2 = p2
    Sessions = {s1}
    Boxes = {b1, b2}
    Turners = {t1}
    Reapers = {r1}
    Admins = {}
    Deleters = {}
    Interrupters = {}
    Front = {t1}
    TurnKinds = {"sync"}
    MaxActive = 2
    MaxAttempts = 2
    AttemptCap = 3
    RuntimeFlaky = TRUE
    RedisMayFail = FALSE
    LockMayExpire = FALSE
    Deadlines = FALSE
    Mortal = {}
    Workers <- MCWorkers
    Processes <- MCProcesses
    Home <- MCHome
    Roles <- MCRoles
PROPERTY ReleaseResolves
