CONSTANTS
    Worker = {w1, w2}
    Scope = {ws, pf}
    Workspace = {ws}
    Target = {jump, host}
    HostKey = {k1, k2, k3}
    ws = ws
    pf = pf
    jump = jump
    host = host
    k1 = k1
    k2 = k2
    k3 = k3
    Algorithm <- Algorithms
    Presented <- ServerKeys
    Known <- TrustFiles
    Plan <- Plans
    MaxConnection = 2
    MaxVersion = 2
SPECIFICATION Spec
SYMMETRY WorkerSymmetry
INVARIANTS
    SecretsAreSound
PROPERTIES
    NoFallback
\* Connections stop at MaxConnection.
CHECK_DEADLOCK FALSE
