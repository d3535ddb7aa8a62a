SPECIFICATION FairSpec
CONSTANTS
    Procs = {p1, p2}
    NoProc = NoProc
    MaxTries = 2
    MaxExpiries = 1
    MaxReauths = 1
    MaxFaults = 1
INVARIANT StoredIsLive
INVARIANT CacheCurrent
PROPERTY MarkedWhenRefused
PROPERTY NothingOverwritten
CHECK_DEADLOCK FALSE
PROPERTY DueIsRefreshed
