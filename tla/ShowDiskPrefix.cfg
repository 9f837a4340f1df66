\* `scsi-cli show disk sda' on a host that has sda and sdaa.
SPECIFICATION Spec
CONSTANTS
    Name = {"sda", "sdaa"}
    Class <- MCClass
    Hash <- MCHash
    Lives <- MCLives
    MaxEvents = 0
    Requests = {"sda"}
    NvmeRequests = {}
    BeginsWith <- MCBeginsWith
    Attributes = {"model", "dh_state", "write_cache"}
    ScsiFiles <- MCScsiFiles
    NvmeFiles <- MCScsiFiles
    QueueFiles <- MCQueueFiles
    Supported <- MCSupported
    Batch = 2
INVARIANTS
    ExistingDiskFound
