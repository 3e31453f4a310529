SPECIFICATION Spec
CONSTANTS
    None = None
    t1 = t1
    c1 = c1
    c2 = c2
    p1 = p1
    p2 = p2
    d1 = d1
    d2 = d2
    Turns = {t1}
    Clients = {c1, c2}
    Prompts = {}
    PlanPreviews = {p1, p2}
    Plans = {d1, d2}
    Requests = {"answer", "reset"}
    LockMayLapse = FALSE
    TurnsMayFail = TRUE
    Previews <- MCPreviews
    Kind <- MCKind
SYMMETRY GateSymmetry
INVARIANT TypeOK
INVARIANT PlanNeedsConsent
INVARIANT PlanDecidedOnce
