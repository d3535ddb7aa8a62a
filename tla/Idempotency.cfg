SPECIFICATION Spec
CONSTANTS
    Callers = {c1, c2, c3}
    Fingerprints = {f1, f2}
    c1 = c1
    c2 = c2
    c3 = c3
    f1 = f1
    f2 = f2
    TTL = 3
    ProcessingTimeout = 2
    Backoff = 1
    ClaimMax = 1
    ExecMax = 2
    MaxTime = 5
SYMMETRY Symmetry
INVARIANT SingleExecution
INVARIANT ReplayOfOwnPayload
PROPERTY OnceUnlessStaleReclaim
