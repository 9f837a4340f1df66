\* Every listing with hot-plug, standard input closed: that of an invocation, or those
\* handle_cmd_errors() performs one after the other.
SPECIFICATION FairSpec
CONSTANTS
    Name = {"sda", "sdb", "nvme0n1", "sg0", "md0", "st0", "0:0:8:0"}
    Class <- MCClass
    Hash <- MCHash
    Lives <- Settling
    MaxEvents = 3
    Runs <- AllRuns
    Arrays <- MCArrays
    StdFds = {1, 2}
    MaxFd = 8
    Batch = 2
INVARIANTS
    TypeOK
    NoDuplicateRows
    SteadyDevicesShown
    SteadyRowsTrue
    ListedAreArrays
    FieldsInOrder
    CrashNeedsUnplug
    LostIsAccounted
    NodeIsNotDescriptorZero
PROPERTIES
    EnumeratesSteadyDevices
    Ends
