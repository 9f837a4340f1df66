\* `scsi-cli list enclosure' stops after one enclosure.
SPECIFICATION Spec
CONSTANTS
    Name = {"0:0:8:0", "1:0:8:0"}
    Class <- MCClass
    Hash <- MCHash
    Lives <- AllLive
    MaxEvents = 2
    Runs <- EnclosureRun
    Arrays <- MCArrays
    StdFds = {0, 1, 2}
    MaxFd = 8
    Batch = 2
INVARIANTS
    EnclosuresShown
