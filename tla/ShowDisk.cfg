\* `scsi-cli show disk <name>' with hot-plug.
SPECIFICATION FairSpec
CONSTANTS
    Name = {"sda", "sdaa", "nvme0n1"}
    Class <- MCClass
    Hash <- MCHash
    Lives <- MCLives
    MaxEvents = 4
    Requests = {"sda", "sd", "nvme0n1"}
    NvmeRequests = {"nvme0n1"}
    BeginsWith <- MCBeginsWith
    Attributes = {"model", "dh_state", "dctype", "write_cache"}
    ScsiFiles <- MCScsiFiles
    NvmeFiles <- MCNvmeFiles
    QueueFiles <- MCQueueFiles
    Supported <- MCSupported
    Batch = 2
INVARIANTS
    TypeOK
    DetailsTrue
    DetailsInOrder
    AnswerFits
    CrashNeedsMissingFile
PROPERTIES
    EnumeratesEntries
    Ends
