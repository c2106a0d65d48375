SPECIFICATION FairSpec
CONSTANTS
    h1 = h1
    h2 = h2
    p1 = p1
    Tasks = {1, 2, 3}
    Hosts <- TrioHosts
    AskingHosts = {h1}
    Paths = {p1}
    HostsOf <- TrioHostsOf
    Plan <- TrioPlan
    Directories = {1}
    GlobalLimit = 2
    PerHostLimit = 1
    MaxRuns = 2
    Retried = {3}
    MaxPending = 1
    MaxConfigErrors = 1
INVARIANTS
    ServiceIsConsistent
    CompletedIsWhole
PROPERTIES
    NeverOverwrites
    CanceledOnlyRetried
    QueuedIsServed
\* Every task may end and every thread be done: the service then rests.
CHECK_DEADLOCK FALSE
