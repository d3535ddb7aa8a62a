SPECIFICATION Spec
CONSTANTS
    Ops = {o1, o2, o3}
    o1 = o1
    o2 = o2
    o3 = o3
    Lease = 4
    RenewInterval = 1
    TTL = 7
    ClaimMax = 1
    OpMax = 5
    MaxMisses = 1
    MaxTime = 10
SYMMETRY Symmetry
INVARIANT OneOperation
