SPECIFICATION OpenSshSpec
CONSTANTS
    main = main
    work = work
    extra = extra
    File = {main, work, extra}
    Configured <- Files
    Alias = {"prod", "bastion"}
    Key = {"user", "port", "proxyjump"}
    Unset = Unset
    Layouts <- Placed
    Edits <- Written
    LocalUser = "me"
    IncludeLimit = 1
    MaxEdit = 1
INVARIANTS
    ReadingIsSound
    SettingsFollowFiles
PROPERTIES
    ReadingEnds
\* Once the hosts are read and the jumps are known nothing is left to do.
CHECK_DEADLOCK FALSE
