SPECIFICATION FairSpec
CONSTANTS
    h1 = h1
    h2 = h2
    Readers = {h1}
    MaxOut = 3
    Sizes = {1, 2}
    FlushBytes = 3
    Cap = 3
    Clears = TRUE
    Failures = {"write", "trim"}
INVARIANTS
    TranscriptIsSound
    WithinCap
    HistoryOrdered
PROPERTIES
    BufferedIsFlushed
\* The daemon stops in the end, and nothing happens after it.
CHECK_DEADLOCK FALSE
