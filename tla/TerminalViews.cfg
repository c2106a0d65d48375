SPECIFICATION Spec
CONSTANTS
    MaxId = 2
    MaxDaemon = 1
    MaxToken = 2
    MaxOutput = 2
    w1 = w1
    w2 = w2
    Window = {w1, w2}
SYMMETRY WindowSymmetry
INVARIANTS
    ViewsAreKept
    OutputIsFaithful
    AnswerIsOnTheWay
PROPERTIES
    RunsEndByClose
\* A local request whose reader ended waits for ever (Stuck).
CHECK_DEADLOCK FALSE
