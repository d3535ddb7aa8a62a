SPECIFICATION FairSpec
CONSTANTS
    Reqs = {r1, r2}
    LiveReqs = {r1, r2}
    Procs = {p1}
    NoProc = NoProc
    r1 = r1
    r2 = r2
    p1 = p1
    MaxConc = 1
    MaxWait = 1
    SlotTTL = 2
    LiveTTL = 1
    WaitTTL = 2
    WaitTimeout = 1
    RedisFaults = TRUE
PROPERTY LeakedSlotsExpire
PROPERTY WaitingEnds
