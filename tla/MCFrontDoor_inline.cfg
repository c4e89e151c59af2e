SPECIFICATION Spec
CONSTANTS
    s1 = s1
    w1 = w1
    Envs = {s1, w1}
    DoorOf <- MCDoorOf
    Requests <- MCRequests
    Skew = 2
    Timeout <- MCTimeout
    ApiLimit = 1
    MaxSecret = 2
    MaxTime = 4
    MaxCalls = 2
INVARIANT RepliesAreReturned
CHECK_DEADLOCK FALSE
