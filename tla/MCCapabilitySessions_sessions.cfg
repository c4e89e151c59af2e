SPECIFICATION FairSpec
CONSTANTS
    iotRead = iotRead
    iotWrite = iotWrite
    dev = dev
    prod = prod
    devRole = devRole
    prodRole = prodRole
    NoEnv = NoEnv
    NoRole = NoRole
    BadRole = BadRole
    NoThread = NoThread
    NoSession = NoSession
    Malformed = Malformed
    Capabilities = {iotRead, iotWrite}
    ReadCapabilities = {iotRead}
    Envs = {dev}
    Roles = {devRole, prodRole}
    Threads = {t1, t2}
    Duration = 3
    Buffer = 1
    MaxClock = 6
    MaxParses = 2
    Files <- MCFiles
INVARIANT SessionsTypeOK
INVARIANT SessionsMatchRequests
INVARIANT ParsedOnce
PROPERTY CachedSessionsLive
PROPERTY EveryCallEnds
