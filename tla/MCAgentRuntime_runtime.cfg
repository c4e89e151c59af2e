SPECIFICATION Spec
CONSTANTS
    t1 = t1
    t2 = t2
    u1 = u1
    u2 = u2
    Workers = {w1, w2}
    Threads = {t1, t2}
    Principals = {u1, u2}
    NoPrincipal = NoPrincipal
    Unknown = Unknown
    Requests <- MixedRequests
    ToolThreads = {"handler", "other"}
    Serial = TRUE
    MaxTurns = 3
INVARIANT RuntimeTypeOK
INVARIANT DestructionIsConfirmed
INVARIANT AddedByOwnPrincipal
INVARIANT TranscriptInOrder
PROPERTY SettledTurnsAreKept
