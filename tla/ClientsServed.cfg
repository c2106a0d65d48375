SPECIFICATION ClientsSpec
CONSTANTS
    c1 = c1
    c2 = c2
    NoConn = NoConn
    Conns = {c1,c2}
    QueueLimit = 1
    PipeLimit = 1
    MaxBroadcasts = 1
SYMMETRY Symmetry
INVARIANTS
    StreamsAreWhole
    NoPanic
    LastViewClosesRun
    LockHolderGoesOn
\* Nothing is required once the run has ended.
CHECK_DEADLOCK FALSE
