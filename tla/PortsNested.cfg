SPECIFICATION FairSpec
CONSTANTS
    a = a
    b = b
    w1 = w1
    NoRule = NoRule
    NoWorker = NoWorker
    StaleRows = TRUE
    Rules = {a, b}
    Workers = {w1}
    PendingLimit = 2
INVARIANTS
    ListenersAreReachable
PROPERTIES
    StopClosesListener
    CommandsAreAnswered
    CloseEndsWorker
\* A stop waits on the main thread for a worker that prompts: all stop.
CHECK_DEADLOCK FALSE
