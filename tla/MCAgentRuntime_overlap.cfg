SPECIFICATION Spec
CONSTANTS
    t1 = t1
    t2 = t2
    u1 = u1
    u2 = u2
    Workers = {w1, w2}
    Threads = {t1}
    Principals = {u1}
    NoPrincipal = NoPrincipal
    Unknown = Unknown
    Requests <- PlainRequests
    ToolThreads = {"handler"}
    Serial = FALSE
    MaxTurns = 2
PROPERTY SettledTurnsAreKept
