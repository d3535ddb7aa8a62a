SPECIFICATION Spec
CONSTANTS
    Reqs = {r1, r2, r3}
    LiveReqs = {}
    Procs = {p1}
    NoProc = NoProc
    r1 = r1
    r2 = r2
    r3 = r3
    p1 = p1
    MaxConc = 1
    MaxWait = 2
    SlotTTL = 1
    LiveTTL = 1
    WaitTTL = 2
    WaitTimeout = 1
    RedisFaults = FALSE
SYMMETRY Symmetry
INVARIANT WaitersCounted
