SPECIFICATION FairSpec
CONSTANTS
    Workers = {w1, w2}
    w1 = w1
    w2 = w2
    NoWorker = NoWorker
    Balance = 2
    OtherHold = 2
    Hold = 2
    Cost = 1
    MaxRetries = 2
    MaxFaults = 2
    MaxReady = 2
INVARIANT SettledOneWay
INVARIANT CompletedIsCharged
INVARIANT NoOrphan
INVARIANT InFlightIsQueued
INVARIANT HoldPursued
PROPERTY LedgerSpec
PROPERTY HoldEnds
CHECK_DEADLOCK FALSE
