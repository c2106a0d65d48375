SPECIFICATION Spec
CONSTANTS
    Worker = {w1,w2}
    Helper = {"monitor","rg","agent"}
    MaxRestart = 1
INVARIANTS
    HelperIsSound
PROPERTIES
    RefusalEndsDialogs
