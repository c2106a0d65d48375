SPECIFICATION RegistrySpec
CONSTANTS
    r1 = r1
    r2 = r2
    d1 = d1
    d2 = d2
    Renamers = {r1, r2}
    Deleters = {d1, d2}
    DeleteDuringStart = FALSE
SYMMETRY Symmetry
INVARIANTS
    FilesAreKept
    ExitIsTrue
\* Every command may be over and the daemon gone: the session then rests.
CHECK_DEADLOCK FALSE
