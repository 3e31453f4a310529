SPECIFICATION FairSpec
CONSTANTS
    None = None
    t1 = t1
    c1 = c1
    k1 = k1
    p1 = p1
    d1 = d1
    Turns = {t1}
    Clients = {c1}
    Prompts = {k1}
    PlanPreviews = {p1}
    Plans = {d1}
    Requests = {"answer", "poll", "interrupt"}
    LockMayLapse = FALSE
    TurnsMayFail = FALSE
    Previews <- MCPreviews
    Kind <- MCKind
INVARIANT AnswerHasAuthor
PROPERTY AnswerEndsWait
