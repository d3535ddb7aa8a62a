SPECIFICATION Spec
CONSTANTS
    Instances = {i1, i2}
    Nobody = nobody
    Readers = {r1}
    MaxChanges = 1
    MaxFaults = 1
SYMMETRY Symmetry
INVARIANT FreshAuthorization
INVARIANT VisibleIsCurrent
CHECK_DEADLOCK FALSE
