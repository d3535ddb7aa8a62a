SPECIFICATION Spec
CONSTANTS
    a1 = a1
    a2 = a2
    a3 = a3
    Accounts = {a1, a2, a3}
    None = None
    RetryLimit <- MCRetryLimit
    MaxSwitches = 2
    MaxProfitVetoAttempts = 3
    HasBoundSession = TRUE
    HasFallbackGroup = TRUE
CHECK_DEADLOCK FALSE
PROPERTY RequestEnds
PROPERTY AllReturned
INVARIANT TypeOK
INVARIANT OneAnswer
INVARIANT VetoRespected
INVARIANT HeldWhileForwarding
INVARIANT NothingCarried
INVARIANT AttemptsBounded
INVARIANT FewLateAttempts
