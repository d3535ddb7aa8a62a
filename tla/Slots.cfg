SPECIFICATION Spec
CONSTANTS
    Reqs = {r1, r2}
    LiveReqs = {r1, r2}
    Procs = {p1, p2}
    NoProc = NoProc
    r1 = r1
    r2 = r2
    p1 = p1
    p2 = p2
    MaxConc = 1
    MaxWait = 1
    SlotTTL = 2
    LiveTTL = 1
    WaitTTL = 1
    WaitTimeout = 1
    RedisFaults = TRUE
SYMMETRY Symmetry
INVARIANT TypeOK
INVARIANT UpstreamWithinCap
INVARIANT KeyOutlivesMembers
