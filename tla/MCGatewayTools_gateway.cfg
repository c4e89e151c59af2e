SPECIFICATION FairSpec
CONSTANTS
    Invocations = {i1, i2, i3}
    NoInvocation = NoInvocation
    NoToken = NoToken
    Ttl = 8
    StatedTtl = 7
    Buffer = 3
    MaxFetch = 2
    MaxClock = 6
CHECK_DEADLOCK FALSE
INVARIANT GatewayTypeOK
INVARIANT ExpiryIsConservative
INVARIANT RefreshedBeforeExpiry
PROPERTY EveryAgentRuns
