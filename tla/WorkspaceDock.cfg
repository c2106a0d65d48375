SPECIFICATION Spec
CONSTANTS
    Window = {w1, w2}
    Host = {h1, h2}
    AgentHosts = {h1}
    Kinds = {"terminal", "terminal_sessions"}
    MaxVersion = 3
    MaxOpen = 3
SYMMETRY WindowSymmetry
INVARIANTS
    DockIsSound
    NothingRejected
PROPERTIES
    ImplementsVersionedStore
    MirrorsOutliveTheirSource
\* Ids and versions are bounded (MaxOpen, MaxVersion): at the bound no intent is left.
CHECK_DEADLOCK FALSE
