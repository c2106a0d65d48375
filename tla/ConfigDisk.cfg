SPECIFICATION Spec
CONSTANTS
    Main = Main
    h1 = h1
    h2 = h2
    w1 = w1
    Worker = {w1}
    WorkerHost <- Forwards
    Profile = {"default", "work"}
    Default = "default"
    Unset = Unset
    Host = {h1, h2}
    Local = Local
    Dir = {hosts, other}
    DefaultDir = hosts
    ScanOrder <- Sorted
    Disks <- InitialDisks
    Documents <- Sent
    MaxCommand = 2
    MaxEdit = 1
    MaxCopy = 1
    MaxFailure = 1
INVARIANTS
    DiskIsSound
    OneFilePerHost
PROPERTIES
    SucceedsOnlyIfDone
\* The bounds on commands and failures end every behaviour.
CHECK_DEADLOCK FALSE
